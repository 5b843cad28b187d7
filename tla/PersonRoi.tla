------------------------------- MODULE PersonRoi -------------------------------
(***************************************************************************)
(* The Pico W example on its two cores: one takes the persons out of a     *)
(* frame and says which of them touch the region of interest; the other,   *)
(* the HTTP server, sets the threshold and the region.  A coordinate is a  *)
(* whole number of 1/One; the arithmetic is exact.                         *)
(***************************************************************************)
EXTENDS Integers, Sequences, FiniteSets, SequencesExt

CONSTANTS
  One,         \* units of 1.0, even
  InputSize,   \* the network's input, across and down
  MaxPersons,  \* MAX_PERSON_DETECTIONS
  Person,      \* PERSON_CLASS_ID
  Frames,      \* sequences of detections
  Thresholds,  \* values asked for by "conf"
  Regions,     \* four points asked for
  MaxQueries   \* bound on the queries

RoiAssumption == One \in Nat \ {0} /\ One % 2 = 0 /\ InputSize \in Nat \ {0} /\ MaxPersons \in Nat \ {0}

VARIABLES
  threshold,  \* s_person_score_threshold
  roi,        \* the points of s_roi_config, which is configured from the start
  query,      \* the query being applied: the region it brings, and the points set so far
  queries,
  phase,      \* of the worker
  frame,
  staged,     \* the persons taken, with the threshold of when the frame came
  used,       \* the region the persons were compared with
  result

vars == <<threshold, roi, query, queries, phase, frame, staged, used, result>>

NoQuery == [points |-> <<>>, set |-> 0]

\* The region before the first query.
FullImage == <<<<0, 0>>, <<One, 0>>, <<One, One>>, <<0, One>>>>

Init ==
  /\ threshold \in Thresholds /\ roi = FullImage /\ query = NoQuery /\ queries = 0
  /\ phase = "idle" /\ frame = <<>> /\ staged = <<>> /\ used = FullImage /\ result = <<>>

Clamp01(v) == IF v < 0 THEN 0 ELSE IF v > One THEN One ELSE v

Clamped(point) == <<Clamp01(point[1]), Clamp01(point[2])>>

----------------------------------------------------------------------------
\* The HTTP core: apply_config_query().  The threshold is set if it is given; the region if
\* all eight coordinates are.
Query ==
  /\ query = NoQuery /\ queries < MaxQueries
  /\ threshold' \in Thresholds
  /\ query' \in {NoQuery} \union {[points |-> r, set |-> 0] : r \in Regions}
  /\ queries' = queries + 1
  /\ UNCHANGED <<roi, phase, frame, staged, used, result>>

\* One point after the other, s_roi_mutex being held.
SetPoint ==
  /\ query # NoQuery /\ query.set < 4
  /\ LET i == query.set + 1
     IN roi' = [roi EXCEPT ![i] = Clamped(query.points[i])]
  /\ query' = IF query.set = 3 THEN NoQuery ELSE [query EXCEPT !.set = @ + 1]
  /\ UNCHANGED <<threshold, queries, phase, frame, staged, used, result>>

\* The region is read whenever it is needed.
RoiFreeAlways == TRUE

\* s_roi_mutex is not held: no point has been set of a region that is not complete.
RoiFree == query.set = 0

----------------------------------------------------------------------------
Magnitude(n) == IF n < 0 THEN -n ELSE n

\* A person above the threshold whose box can be read.
Taken(d) == d.score >= threshold /\ d.class = Person /\ d.readable

\* The first persons.
First(s) ==
  LET persons == SelectSeq(s, Taken)
  IN SubSeq(persons, 1, IF Len(persons) < MaxPersons THEN Len(persons) ELSE MaxPersons)

\* Coordinates are relative if none is beyond 1.5.
Relative(s) == \A i \in DOMAIN s : \A v \in Range(s[i].box) : 2 * Magnitude(v) <= 3 * One

\* x1, y1, x2, y2 relative to the input, and clamped.
Normal(d, relative) == [k \in 1 .. 4 |-> Clamp01(IF relative THEN d.box[k] ELSE d.box[k] \div InputSize)]

\* The worker: postprocess_person_detections() up to the copy of the region.
TakeFrame ==
  /\ phase = "idle"
  /\ \E f \in Frames :
       LET persons == First(f)
       IN /\ frame' = f
          /\ staged' = [i \in DOMAIN persons |-> Normal(persons[i], Relative(persons))]
  /\ phase' = "staged" /\ UNCHANGED <<threshold, roi, query, queries, used, result>>

----------------------------------------------------------------------------
Cross(a, b, c) == (b[1] - a[1]) * (c[2] - a[2]) - (b[2] - a[2]) * (c[1] - a[1])

InRect(p, r) == r[1] <= p[1] /\ p[1] <= r[3] /\ r[2] <= p[2] /\ p[2] <= r[4]

\* The rectangle that two points span.
Span(a, b) ==
  <<IF a[1] < b[1] THEN a[1] ELSE b[1], IF a[2] < b[2] THEN a[2] ELSE b[2],
    IF a[1] < b[1] THEN b[1] ELSE a[1], IF a[2] < b[2] THEN b[2] ELSE a[2]>>

\* point_in_polygon(): an edge crosses the ray that starts at p.
CrossesRay(p, a, b) ==
  /\ (a[2] > p[2]) # (b[2] > p[2])
  /\ IF b[2] > a[2] THEN (p[1] - a[1]) * (b[2] - a[2]) < (b[1] - a[1]) * (p[2] - a[2])
     ELSE (p[1] - a[1]) * (b[2] - a[2]) > (b[1] - a[1]) * (p[2] - a[2])

Behind(i) == (i % 4) + 1

InPolygon(p, poly) == Cardinality({i \in 1 .. 4 : CrossesRay(p, poly[Behind(i)], poly[i])}) % 2 = 1

\* segments_intersect()
Meet(a, b, c, d) ==
  \/ Cross(a, b, c) = 0 /\ InRect(c, Span(a, b))
  \/ Cross(a, b, d) = 0 /\ InRect(d, Span(a, b))
  \/ Cross(c, d, a) = 0 /\ InRect(a, Span(c, d))
  \/ Cross(c, d, b) = 0 /\ InRect(b, Span(c, d))
  \/ (Cross(a, b, c) > 0) # (Cross(a, b, d) > 0) /\ (Cross(c, d, a) > 0) # (Cross(c, d, b) > 0)

Corners(r) == <<<<r[1], r[2]>>, <<r[3], r[2]>>, <<r[3], r[4]>>, <<r[1], r[4]>>>>

\* detection_intersects_roi()
Intersects(box, region) ==
  LET r == Span(<<box[1], box[2]>>, <<box[3], box[4]>>)
      c == Corners(r)
  IN \/ \E i \in 1 .. 4 : InPolygon(c[i], region) \/ InRect(region[i], r)
     \/ \E i, j \in 1 .. 4 : Meet(c[i], c[Behind(i)], region[j], region[Behind(j)])

\* The region is copied, and the persons are compared with it.
Judge ==
  /\ phase = "staged" /\ RoiFree
  /\ used' = roi
  /\ result' = [i \in DOMAIN staged |-> [box |-> staged[i], inside |-> Intersects(staged[i], roi)]]
  /\ phase' = "idle" /\ UNCHANGED <<threshold, roi, query, queries, frame, staged>>

Next == Query \/ SetPoint \/ TakeFrame \/ Judge

Spec == Init /\ [][Next]_vars

----------------------------------------------------------------------------
\* Persons are compared with the full image or with a region as it was asked for, never with
\* some points of it.
RoiWhole == used = FullImage \/ \E r \in Regions : used = [i \in 1 .. 4 |-> Clamped(r[i])]

Turns(points) == {Cross(points[i], points[Behind(i)], points[Behind(Behind(i))]) : i \in 1 .. 4}

Convex(points) == (\A t \in Turns(points) : t > 0) \/ (\A t \in Turns(points) : t < 0)

\* A line along an edge of either of them has the other one on its far side.
Apart(r, points) ==
  LET Outside(i, t) == \A k \in 1 .. 4 : t * Cross(points[i], points[Behind(i)], Corners(r)[k]) < 0
      turn == CHOOSE t \in Turns(points) : TRUE
  IN \/ \A i \in 1 .. 4 : points[i][1] < r[1]
     \/ \A i \in 1 .. 4 : points[i][1] > r[3]
     \/ \A i \in 1 .. 4 : points[i][2] < r[2]
     \/ \A i \in 1 .. 4 : points[i][2] > r[4]
     \/ \E i \in 1 .. 4 : Outside(i, turn)

\* A person is inside the region, the full image to begin with, exactly if its box and the
\* region have a point in common.
InsideIsOverlap ==
  Convex(used) =>
    \A i \in DOMAIN result :
      LET b == result[i].box
      IN result[i].inside = ~Apart(Span(<<b[1], b[2]>>, <<b[3], b[4]>>), used)

\* The persons shown are the first ones of the frame that are above any threshold that may
\* be set, in their order; and a place that is left is not kept from a person.
PersonsFirst ==
  phase = "staged" =>
    LET Sure(d) == d.class = Person /\ d.readable /\ \A t \in Thresholds : d.score >= t
    IN /\ Len(staged) <= MaxPersons
       /\ Len(staged) < MaxPersons => Len(staged) >= Len(SelectSeq(frame, Sure))
       /\ \A k \in DOMAIN staged : \E i \in DOMAIN frame : i >= k /\ frame[i].class = Person /\ frame[i].readable
=============================================================================
