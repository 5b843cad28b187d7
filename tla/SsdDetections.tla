------------------------------ MODULE SsdDetections ------------------------------
(***************************************************************************)
(* The MicroPython metadata service's reading of SSD MobileNet's four      *)
(* output tensors, and what of it an answer has room for.  Scores and      *)
(* coordinates are whole tenths.                                           *)
(***************************************************************************)
EXTENDS Integers, Sequences, SequencesExt, FiniteSets, FiniteSetsExt

CONSTANTS
  Scores, Boxes,      \* values of the tensors' elements; a box is <<y1, x1, y2, x2>>
  Counts, Lengths,    \* values of the count, and lengths of the tensors of scores and boxes
  Threshold,          \* SCORE_THRESHOLD
  MaxDetections,      \* MAX_UART_DETECTIONS
  Size                \* <<height, width>> of the input tensor

DetectionAssumption ==
  /\ Scores \subseteq Int /\ Boxes \subseteq [1 .. 4 -> Int] /\ Counts \subseteq Int /\ Lengths \subseteq Nat
  /\ MaxDetections \in Nat \ {0} /\ Size \in [1 .. 2 -> Nat]

VARIABLES
  tensors,      \* boxes, scores and the count of a frame
  detections,   \* what was found, in order
  answer        \* what is sent of it

vars == <<tensors, detections, answer>>

One == 10   \* in tenths

Nothing == [status |-> "NONE", detections |-> <<>>, truncated |-> FALSE]

Init == tensors = [boxes |-> <<>>, scores |-> <<>>, count |-> 0] /\ detections = <<>> /\ answer = Nothing

Clip01(value) == IF value < 0 THEN 0 ELSE IF value > One THEN One ELSE value

\* To the nearest whole number, _scaled_box() and box_input_px.
Scaled(box, scales) == [i \in 1 .. 4 |-> (2 * Clip01(box[i]) * scales[i] + One) \div (2 * One)]

\* The valid count, as far as there are elements.
Valid(t) == Min({t.count, Len(t.scores), Len(t.boxes)})

IsDetection(t, i) ==
  /\ t.scores[i] > Threshold
  /\ t.boxes[i][4] > t.boxes[i][2] /\ t.boxes[i][3] > t.boxes[i][1]

Detection(t, i) ==
  [index |-> i, score |-> t.scores[i], box |-> t.boxes[i], px |-> Scaled(t.boxes[i], <<Size[1], Size[2], Size[1], Size[2]>>)]

\* _insert_detection_sorted()
Insert(found, d) ==
  LET worse == {i \in DOMAIN found : found[i].score < d.score}
  IN InsertAt(found, IF worse = {} THEN Len(found) + 1 ELSE Min(worse), d)

\* parse_ssd_mobilenet_detections(), of tensors that could be decoded
Parsed(t) ==
  FoldLeft(LAMBDA found, i : IF IsDetection(t, i) THEN Insert(found, Detection(t, i)) ELSE found,
           <<>>, [i \in 1 .. Max({0, Valid(t)}) |-> i])

FirstOf(found) == SubSeq(found, 1, Min({MaxDetections, Len(found)}))

\* _build_ai_result() and the status of _read_ai_frame()
AiResult(found) ==
  [status |-> IF found = <<>> THEN "PASS" ELSE "NG",
   detections |-> [i \in DOMAIN FirstOf(found) |-> [score |-> FirstOf(found)[i].score, index |-> FirstOf(found)[i].index,
                                                    norm |-> Scaled(FirstOf(found)[i].box, [k \in 1 .. 4 |-> 10000])]],
   truncated |-> Len(found) > MaxDetections]

Frame ==
  \E n, m \in Lengths, count \in Counts :
    \E scores \in [1 .. n -> Scores], boxes \in [1 .. m -> Boxes] :
      /\ tensors' = [boxes |-> boxes, scores |-> scores, count |-> count]
      /\ detections' = Parsed(tensors') /\ answer' = AiResult(detections')

\* A tensor that is missing, not captured whole or of an odd width, or no count.
Undecodable ==
  /\ tensors' = [boxes |-> <<>>, scores |-> <<>>, count |-> 0]
  /\ detections' = <<>> /\ answer' = [Nothing EXCEPT !.status = "ERROR"]

Reset == answer # Nothing /\ tensors' = [boxes |-> <<>>, scores |-> <<>>, count |-> 0] /\ detections' = <<>> /\ answer' = Nothing

Next == (answer = Nothing /\ (Frame \/ Undecodable)) \/ Reset

Spec == Init /\ [][Next]_vars

----------------------------------------------------------------------------
Candidates ==
  {i \in DOMAIN tensors.scores \intersect DOMAIN tensors.boxes : i <= tensors.count /\ IsDetection(tensors, i)}

\* The answer has the best candidates, the earlier one first among equals; what it leaves
\* out is no better than what it has, and it says that it has left something out.
BestAreSent ==
  LET sent == answer.detections
      indices == {sent[i].index : i \in DOMAIN sent}
  IN answer.status \in {"PASS", "NG"} =>
       /\ indices \subseteq Candidates
       /\ Cardinality(indices) = Min({MaxDetections, Cardinality(Candidates)}) /\ Len(sent) = Cardinality(indices)
       /\ \A i \in indices, k \in Candidates \ indices :
            tensors.scores[k] < tensors.scores[i] \/ (tensors.scores[k] = tensors.scores[i] /\ i < k)
       /\ \A i, k \in DOMAIN sent :
            i < k => sent[i].score > sent[k].score \/ (sent[i].score = sent[k].score /\ sent[i].index < sent[k].index)
       /\ answer.truncated <=> Cardinality(Candidates) > MaxDetections

\* A box that reaches out of the picture is cut, and stays the right way round.
BoxesInPicture ==
  /\ \A i \in DOMAIN detections :
       LET px == detections[i].px
       IN 0 <= px[1] /\ px[1] <= px[3] /\ px[3] <= Size[1] /\ 0 <= px[2] /\ px[2] <= px[4] /\ px[4] <= Size[2]
  /\ \A i \in DOMAIN answer.detections :
       LET norm == answer.detections[i].norm
       IN 0 <= norm[1] /\ norm[1] <= norm[3] /\ norm[3] <= 10000 /\ 0 <= norm[2] /\ norm[2] <= norm[4] /\ norm[4] <= 10000
=============================================================================
