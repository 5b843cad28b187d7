--------------------------- MODULE OverlayPostprocess ---------------------------
(***************************************************************************)
(* The postprocessing of the ESP32-P4 example: one call turns the output   *)
(* tensors of a frame into what the overlay shows.  A tensor is its        *)
(* dimensions, its raw elements, whether they are signed, and their zero   *)
(* point, and indices count from 0.  Scores and coordinates are whole      *)
(* numbers of a unit, One of them being 1.0.                               *)
(*                                                                         *)
(* Of a pose the network gives, for every joint, candidates with a score,  *)
(* a place and a tag, and those with close tags are taken to be of one     *)
(* person.  The persons are gathered in a scratch area that outlives the   *)
(* call.  A mean tag is kept as a sum and a count.                         *)
(***************************************************************************)
EXTENDS Integers, Sequences, FiniteSets, SequencesExt, FiniteSetsExt

CONSTANTS
  ElementWidth,   \* 2^bits_per_element
  MaxStride,      \* UINT32_MAX
  One,            \* units of 1.0, even
  TopKCount,      \* kImx500TopKCount
  MaxDetections,  \* kImx500MaxOverlayDetections
  InputHeight, InputWidth,  \* the network's input
  ClassMax,       \* 255, the largest class of the mask
  Scores,         \* the calls: score tensors, with or without a background class
  Frames,         \* detection frames
  Masks,          \* segmentation frames
  JointOrder,       \* kJointOrder: the joints in the order they are taken
  MaxPeople,        \* kHigherhrnetMaxPeople
  MinValidJoints,   \* kMinValidJoints
  TagThreshold,     \* kTagThreshold
  JointThreshold,   \* kJointScoreThreshold
  PoseThreshold,    \* kPoseScoreThreshold
  CandidateCount,   \* candidates of a joint, in every tensor
  PoseFrames        \* pose frames: score, tag and place of joint and candidate

Joints == Range(JointOrder)

PostprocessAssumption ==
  /\ ElementWidth \in Nat \ {0, 1} /\ MaxStride \in Nat \ {0}
  /\ One \in Nat \ {0} /\ One % 2 = 0 /\ TopKCount \in Nat \ {0}
  /\ IsInjective(JointOrder) /\ MaxPeople \in Nat \ {0} /\ TagThreshold \in Nat \ {0}
  /\ CandidateCount \in 0 .. MaxPeople

VARIABLES
  call,        \* the call made: its kind and its tensors
  result,      \* what it returned: one value, nothing before
  pose_frame,  \* the tensors of the pose call
  people,      \* g_people_scratch
  taken,       \* candidates looked at
  poses,       \* HigherhrnetResult.poses
  pose_phase   \* before, in, or after a pose call that went through

poseVars == <<pose_frame, people, taken, poses, pose_phase>>
vars == <<call, result, poseVars>>

NoCall == <<"none">>
NoResult == <<>>

NoJoint == [score |-> 0, at |-> 0]
Nobody == [active |-> FALSE, tags |-> 0, tag_count |-> 0, keypoints |-> [j \in Joints |-> NoJoint]]
Steps == Len(JointOrder) * CandidateCount

Init ==
  /\ call = NoCall /\ result = NoResult
  /\ pose_frame = <<>> /\ people = [i \in 1 .. MaxPeople |-> Nobody]
  /\ taken = 0 /\ poses = <<>> /\ pose_phase = "before"

----------------------------------------------------------------------------
None == -1

ElementCount(tensor) == Len(tensor.data)

\* tensor_read_value_raw_index()
RawValue(tensor, index) ==
  IF index >= ElementCount(tensor) THEN 0
  ELSE LET raw == tensor.data[index + 1]
       IN (IF tensor.signed /\ 2 * raw >= ElementWidth THEN raw - ElementWidth ELSE raw) - tensor.zero_point

\* The first dimension is the nearest.
Strides(dims) ==
  LET stride[i \in 1 .. Len(dims)] == IF i = 1 THEN 1 ELSE stride[i - 1] * dims[i - 1]
  IN stride

\* tensor_logical_offset(): None when it returns false.
LogicalOffset(dims, coords) ==
  IF \/ Len(coords) # Len(dims)
     \/ \E i \in DOMAIN dims : coords[i] >= dims[i]
     \/ \E i \in 1 .. Len(dims) - 1 : Strides(dims)[i] > MaxStride \div dims[i]
  THEN None
  ELSE FoldFunction(LAMBDA a, b : a + b, 0, [i \in DOMAIN dims |-> coords[i] * Strides(dims)[i]])

\* tensor_read_value_logical(), a value that cannot be read being 0 to its callers.
LogicalValue(tensor, coords) ==
  LET offset == LogicalOffset(tensor.dims, coords)
  IN IF offset = None THEN 0 ELSE RawValue(tensor, offset)

\* Where detection_box_component() finds a component of a box, None when it returns false.
BoxElement(dims, element_count, box_index, component) ==
  LET n      == Len(dims)
      stride == element_count \div 4
  IN IF n >= 2 /\ dims[n] = 4
     THEN LogicalOffset(dims, [i \in 1 .. n |-> IF i = n THEN component ELSE IF i = n - 1 THEN box_index ELSE 0])
     ELSE IF n >= 2 /\ dims[1] = 4
     THEN LogicalOffset(dims, [i \in 1 .. n |-> IF i = 1 THEN component ELSE IF i = 2 THEN box_index ELSE 0])
     ELSE IF box_index < stride THEN box_index + stride * component
     ELSE None

----------------------------------------------------------------------------
\* A score that equals one in the list goes before it.
PlaceBeforeEqual(top, score) ==
  {slot \in 1 .. Len(top) : score >= top[slot].score}

\* The slots a score may take from another one.
Place(top, score) == {slot \in 1 .. Len(top) : score > top[slot].score}

\* The score at index goes to the first slot with a smaller one, and the others move down.
Insert(top, index, score) ==
  LET smaller == Place(top, score)
      slot    == IF smaller = {} THEN Len(top) + 1 ELSE Min(smaller)
      longer  == InsertAt(top, slot, [id |-> index, score |-> score])
  IN SubSeq(longer, 1, Min({Len(longer), TopKCount}))

\* imx500_postprocess_classification()
Classified(tensor, has_background) ==
  LET count == ElementCount(tensor)
      start == IF has_background /\ count > 1 THEN 1 ELSE 0
      top[i \in start .. count] ==
        IF i = start THEN <<>> ELSE LET before == top[i - 1] IN Insert(before, i - 1, RawValue(tensor, i - 1))
  IN top[count]

Classification ==
  /\ call = NoCall
  /\ \E scores \in Scores :
       /\ call' = <<"classification", scores>>
       /\ result' = <<Classified(scores.tensor, scores.has_background)>>

----------------------------------------------------------------------------
Clamp(value, high) == IF value < 0 THEN 0 ELSE IF value > high THEN high ELSE value

Magnitude(value) == IF value < 0 THEN -value ELSE value

Candidates(frame) ==
  LET valid == RawValue(frame.valid, 0)
  IN Min({IF valid < 0 THEN 0 ELSE valid, ElementCount(frame.scores), ElementCount(frame.classes),
          ElementCount(frame.boxes) \div 4, MaxDetections})

\* The box y1, x1, y2, x2.
Box(frame, i) ==
  [k \in 1 .. 4 |-> LET element == BoxElement(frame.boxes.dims, ElementCount(frame.boxes), i, k - 1)
                    IN IF element = None THEN None ELSE RawValue(frame.boxes, element)]

BoxReadable(frame, i) ==
  \A k \in 0 .. 3 : BoxElement(frame.boxes.dims, ElementCount(frame.boxes), i, k) # None

Kept(frame) ==
  {i \in 0 .. Candidates(frame) - 1 : 2 * RawValue(frame.scores, i) >= One /\ BoxReadable(frame, i)}

\* No kept box goes beyond 1.5.
Relative(frame) == \A i \in Kept(frame), k \in 1 .. 4 : 2 * Magnitude(Box(frame, i)[k]) <= 3 * One

Extent(k) == IF k % 2 = 1 THEN InputHeight ELSE InputWidth

Scaled(frame, i, k) == Box(frame, i)[k] * (IF Relative(frame) THEN Extent(k) ELSE 1)

\* imx500_postprocess_detection()
Detected(frame) ==
  LET order == SetToSortSeq(Kept(frame), <)
  IN [n \in DOMAIN order |->
        [box   |-> [k \in 1 .. 4 |-> Clamp(Scaled(frame, order[n], k), Extent(k) * One)],
         score |-> RawValue(frame.scores, order[n]), class |-> RawValue(frame.classes, order[n])]]

Detection ==
  /\ call = NoCall
  /\ \E frame \in Frames : call' = <<"detection", frame>> /\ result' = <<Detected(frame)>>

----------------------------------------------------------------------------

Source(at, source, target) == (at * source) \div target

MaskValue(mask, y, x) ==
  LET tensor == mask.tensor
      h      == tensor.dims[1]
      w      == tensor.dims[2]
      at     == <<Min({Source(y, h, mask.height), h - 1}), Min({Source(x, w, mask.width), w - 1})>>
  IN Clamp(LogicalValue(tensor, IF Len(tensor.dims) >= 3 THEN at \o <<0>> ELSE at), ClassMax)

\* The first class with the most pixels, the background aside.
Dominant(pixels) ==
  LET Count(c)   == Cardinality({p \in DOMAIN pixels : pixels[p] = c})
      foreground == {c \in 1 .. ClassMax : Count(c) > 0}
  IN IF foreground = {} THEN 0
     ELSE Min({c \in foreground : \A d \in foreground : Count(c) >= Count(d)})

\* imx500_postprocess_segmentation()
Segmented(mask) ==
  LET pixels == [p \in (0 .. mask.height - 1) \X (0 .. mask.width - 1) |-> MaskValue(mask, p[1], p[2])]
  IN [mask |-> pixels, dominant |-> Dominant(pixels)]

Segmentation ==
  /\ call = NoCall
  /\ \E mask \in Masks : call' = <<"segmentation", mask>> /\ result' = <<Segmented(mask)>>

TensorCall == (Classification \/ Detection \/ Segmentation) /\ UNCHANGED poseVars

----------------------------------------------------------------------------
\* get_people_scratch()
Scratch == [i \in 1 .. MaxPeople |-> Nobody]

GroupPose ==
  /\ pose_phase # "grouping" /\ CandidateCount > 0
  /\ pose_frame' \in PoseFrames
  /\ people' = Scratch /\ taken' = 0 /\ poses' = <<>> /\ pose_phase' = "grouping"

\* No network, which leaves the result; or too few or empty tensors, or no memory.
Refuse ==
  /\ pose_phase # "grouping"
  /\ poses' \in {poses, <<>>} /\ pose_phase' = "before"
  /\ UNCHANGED <<pose_frame, people, taken>>

----------------------------------------------------------------------------
joint == JointOrder[taken \div CandidateCount + 1]
candidate == pose_frame[joint][(taken % CandidateCount) + 1]

\* |tag - mean|, times the number of tags
Off(tag, person) == Magnitude(tag * person.tag_count - person.tags)

Closer(tag, i, k) == Off(tag, people[i]) * people[k].tag_count < Off(tag, people[k]) * people[i].tag_count

\* The persons with the closest mean tag, of which the first is taken.
Nearest(tag) ==
  LET known == {i \in 1 .. MaxPeople : people[i].active /\ people[i].tag_count > 0}
  IN {i \in known : \A k \in known : ~ Closer(tag, k, i)}

Near(tag, i) == Off(tag, people[i]) < TagThreshold * people[i].tag_count

\* The person a tag joins: the nearest one if it is near, else a new one, else, when all
\* slots are taken, the nearest one all the same.
PersonOf(tag) ==
  LET nearest == Nearest(tag)
      free    == {i \in 1 .. MaxPeople : ~ people[i].active}
  IN IF nearest # {} /\ (Near(tag, Min(nearest)) \/ free = {}) THEN Min(nearest) ELSE Min(free)

Joined(person, c) ==
  [active |-> TRUE, tags |-> person.tags + c.tag, tag_count |-> person.tag_count + 1,
   keypoints |-> [person.keypoints EXCEPT ![joint] = [score |-> c.score, at |-> c.at]]]

Skip ==
  /\ pose_phase = "grouping" /\ taken < Steps /\ candidate.score <= JointThreshold
  /\ taken' = taken + 1 /\ UNCHANGED <<pose_frame, people, poses, pose_phase>>

Join ==
  /\ pose_phase = "grouping" /\ taken < Steps /\ candidate.score > JointThreshold
  /\ people' = [people EXCEPT ![PersonOf(candidate.tag)] = Joined(@, candidate)]
  /\ taken' = taken + 1 /\ UNCHANGED <<pose_frame, poses, pose_phase>>

----------------------------------------------------------------------------
Valid(keypoints) == {j \in Joints : keypoints[j].score > JointThreshold}

ScoreSum(keypoints) == MapThenSumSet(LAMBDA j : keypoints[j].score, Valid(keypoints))

\* A pose has enough joints, and their mean score is high enough.
IsPose(keypoints) ==
  /\ Cardinality(Valid(keypoints)) >= MinValidJoints
  /\ ScoreSum(keypoints) >= PoseThreshold * Cardinality(Valid(keypoints))

Finish ==
  /\ pose_phase = "grouping" /\ taken = Steps
  /\ poses' = [n \in DOMAIN SelectSeq(people, LAMBDA p : p.active /\ IsPose(p.keypoints)) |->
                  SelectSeq(people, LAMBDA p : p.active /\ IsPose(p.keypoints))[n].keypoints]
  /\ pose_phase' = "after" /\ UNCHANGED <<pose_frame, people, taken>>

PoseStep == (GroupPose \/ Refuse \/ Skip \/ Join \/ Finish) /\ UNCHANGED <<call, result>>

Next == TensorCall \/ PoseStep

Spec == Init /\ [][Next]_vars

----------------------------------------------------------------------------
Done(kind) == call[1] = kind

Returned == result[1]

\* The classes shown are the best by score, the earlier of two that are equal first, each
\* at the rank it has among all classes that take part.
TopIsBest ==
  Done("classification") =>
    LET tensor == call[2].tensor
        count  == ElementCount(tensor)
        taking == (IF call[2].has_background /\ count > 1 THEN 1 ELSE 0) .. count - 1
        Better(i, j) == \/ RawValue(tensor, i) > RawValue(tensor, j)
                        \/ RawValue(tensor, i) = RawValue(tensor, j) /\ i < j
    IN /\ Len(Returned) = Min({TopKCount, Cardinality(taking)})
       /\ \A rank \in DOMAIN Returned :
            /\ Returned[rank].id \in taking
            /\ Cardinality({i \in taking : Better(i, Returned[rank].id)}) = rank - 1

\* Every box is drawn inside the input image, and the boxes of a frame are all taken in
\* the same measure: corners that are in order stay in order across boxes.
BoxesInOneMeasure ==
  Done("detection") =>
    /\ \A n \in DOMAIN Returned, k \in 1 .. 4 : Returned[n].box[k] \in 0 .. Extent(k) * One
    /\ LET order == SetToSortSeq(Kept(call[2]), <)
       IN \A m, n \in DOMAIN Returned, k \in 1 .. 4 :
            Box(call[2], order[m])[k] <= Box(call[2], order[n])[k] => Returned[m].box[k] <= Returned[n].box[k]

\* A detection that is well above the threshold and among the first ones is not lost.
NoDetectionLost ==
  Done("detection") =>
    \A i \in 0 .. MaxDetections - 1 :
      /\ i < RawValue(call[2].valid, 0) /\ i < ElementCount(call[2].scores)
      /\ i < ElementCount(call[2].boxes) \div 4 /\ RawValue(call[2].scores, i) >= One
      => \E n \in DOMAIN Returned : Returned[n].score = RawValue(call[2].scores, i)
                                  /\ Returned[n].class = RawValue(call[2].classes, i)

\* Each pixel of the mask is the source cell that the pixel's corner lies in, and with as
\* many pixels as cells no cell is passed over.
MaskShowsSource ==
  Done("segmentation") /\ Len(call[2].tensor.dims) <= 3 =>
    LET mask == call[2]
        h    == mask.tensor.dims[1]
        w    == mask.tensor.dims[2]
        Cell(i, j) == Clamp(mask.tensor.data[1 + i + h * j], ClassMax)
        Covers(i, source, at, target) == i * target <= at * source /\ at * source < (i + 1) * target
    IN /\ \A p \in DOMAIN Returned.mask : \E i \in 0 .. h - 1, j \in 0 .. w - 1 :
            /\ Covers(i, h, p[1], mask.height) /\ Covers(j, w, p[2], mask.width)
            /\ Returned.mask[p] = Cell(i, j)
       /\ mask.height >= h /\ mask.width >= w =>
            {Cell(i, j) : i \in 0 .. h - 1, j \in 0 .. w - 1} \subseteq Range(Returned.mask)

\* The class that is named has a pixel, and no other class of the foreground has more.
DominantIsMost ==
  Done("segmentation") =>
    LET Pixels(c) == {p \in DOMAIN Returned.mask : Returned.mask[p] = c}
    IN IF Returned.dominant = 0 THEN Range(Returned.mask) = {0}
       ELSE \A c \in 1 .. ClassMax : Cardinality(Pixels(c)) <= Cardinality(Pixels(Returned.dominant))

----------------------------------------------------------------------------
Alike(c, d) == Magnitude(c.tag - d.tag) < TagThreshold

Seen == {<<j, n>> \in Joints \X (1 .. CandidateCount) : pose_frame[j][n].score > JointThreshold}

At(p) == pose_frame[p[1]][p[2]]

\* The tags tell the persons apart: alike is an equivalence of what is seen.
TagsTell == \A p, q, r \in Seen : Alike(At(p), At(q)) /\ Alike(At(q), At(r)) => Alike(At(p), At(r))

Persons == {{q \in Seen : Alike(At(p), At(q))} : p \in Seen}

\* The joints of a person, the later of two candidates for one joint.
KeypointsOf(person) ==
  [j \in Joints |->
     LET own == {n \in 1 .. CandidateCount : <<j, n>> \in person}
     IN IF own = {} THEN NoJoint ELSE [score |-> pose_frame[j][Max(own)].score, at |-> pose_frame[j][Max(own)].at]]

\* When the tags tell the persons apart and there is a slot for each, the poses are the
\* persons with enough joints, whatever the order of the joints and the running means.
GroupsArePeople ==
  pose_phase = "after" /\ TagsTell /\ Cardinality(Persons) <= MaxPeople =>
    Range(poses) = {keypoints \in {KeypointsOf(p) : p \in Persons} : IsPose(keypoints)}

\* Whatever the tags are, a joint of a pose was seen in this frame, and by no other pose.
JointsOfThisFrame ==
  pose_phase = "after" =>
    \A n \in DOMAIN poses : \A j \in Valid(poses[n]) :
      /\ \E c \in 1 .. CandidateCount : <<j, c>> \in Seen /\ pose_frame[j][c].at = poses[n][j].at
      /\ \A m \in DOMAIN poses : (m # n) => (poses[m][j].at # poses[n][j].at)
=============================================================================
