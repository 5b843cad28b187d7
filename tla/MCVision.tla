------------------------------ MODULE MCVision ------------------------------
(***************************************************************************)
(* What the examples make of the output tensors and of the pictures, for   *)
(* TLC.  In a behaviour one of the components, part, runs.                 *)
(***************************************************************************)
EXTENDS Integers, Sequences, FiniteSets

VARIABLES
  part,
  call, result,
  tensors, detections, answer,
  pose_frame, people, taken, poses, pose_phase,
  camera, pixels, info, box, mark,
  from, to, at, err, written, kind, done,
  threshold, roi, query, queries, phase, frame, staged, used, judged,
  asked, crop, affine

postVars == <<call, result>>
ssdVars  == <<tensors, detections, answer>>
poseVars == <<pose_frame, people, taken, poses, pose_phase>>
lcdVars  == <<camera, pixels, info, box, mark, from, to, at, err, written, kind, done>>
roiVars  == <<threshold, roi, query, queries, phase, frame, staged, used, judged>>
cropVars == <<asked, crop, affine>>
vars == <<part, postVars, ssdVars, poseVars, lcdVars, roiVars, cropVars>>

-----------------------------------------------------------------------------
\* Small tensors of every layout the code knows.
Tensor(dims, data) == [dims |-> dims, data |-> data, signed |-> FALSE, zero_point |-> 0]

ScoreTensors ==
  {[tensor |-> [Tensor(<<Len(data)>>, data) EXCEPT !.signed = sign], has_background |-> background] :
     data \in UNION {[1 .. n -> {0, 1, 2, 15}] : n \in 1 .. 5}, sign \in BOOLEAN, background \in BOOLEAN}

\* Two boxes by columns, of the layouts [2, 4], [4, 2] and [8]; coordinates up to twice
\* beyond 1.5.
BoxTensors ==
  {[boxes |-> [Tensor(dims, data) EXCEPT !.signed = TRUE], scores |-> Tensor(<<2>>, scores),
    classes |-> Tensor(<<2>>, <<7, 5>>), valid |-> Tensor(<<1>>, <<valid>>)] :
     dims \in {<<2, 4>>, <<4, 2>>, <<8>>},
     data \in {d \in [1 .. 8 -> {3, 4, 15}] : Cardinality({i \in 1 .. 8 : d[i] # 3}) <= 3},
     scores \in {<<2, 2>>, <<1, 3>>, <<0, 2>>}, valid \in {1, 3}}

MaskTensors ==
  {[tensor |-> Tensor(dims, data), height |-> height, width |-> width] :
     dims \in {<<2, 2>>, <<2, 2, 1>>, <<2, 2, 1, 1>>}, data \in [1 .. 4 -> 0 .. 2],
     height \in 1 .. 4, width \in 1 .. 3}
  \union
  {[tensor |-> Tensor(<<3, 1>>, data), height |-> height, width |-> width] :
     data \in [1 .. 3 -> 0 .. 4], height \in 1 .. 5, width \in 1 .. 2}

\* Up to three elements, boxes within, outside and turned round.
Ssd == INSTANCE SsdDetections WITH
  Scores <- {3, 4, 9}, Lengths <- {0, 2, 3}, Threshold <- 3, MaxDetections <- 2,
  Boxes <- {<<1, 2, 5, 9>>, <<-3, -1, 12, 14>>, <<5, 2, 5, 9>>, <<11, 2, 13, 1>>},
  Counts <- -1 .. 4, Size <- <<3, 7>>

\* Score and tag of the two candidates of a joint; a score of 0 is nothing seen.
Pairs == {<<<<0, 0>>, <<0, 0>>>>, <<<<2, 0>>, <<0, 0>>>>, <<<<3, 1>>, <<4, 6>>>>, <<<<4, 6>>, <<3, 2>>>>,
          <<<<3, 3>>, <<3, 0>>>>, <<<<0, 0>>, <<4, 12>>>>, <<<<3, 6>>, <<2, 12>>>>, <<<<3, 0>>, <<4, 1>>>>}

\* Three joints with two candidates each, at places of their own.
PoseTensors ==
  {[j \in {0, 1, 2} |-> [n \in 1 .. 2 |-> [score |-> f[j][n][1], tag |-> f[j][n][2], at |-> 10 * j + n]]] :
     f \in [{0, 1, 2} -> Pairs]}

Post == INSTANCE OverlayPostprocess WITH
  ElementWidth <- 16, MaxStride <- 64, One <- 2, TopKCount <- 3, MaxDetections <- 2,
  InputHeight <- 3, InputWidth <- 2, ClassMax <- 3,
  Scores <- ScoreTensors, Frames <- BoxTensors, Masks <- MaskTensors,
  JointOrder <- <<0, 2, 1>>, MaxPeople <- 2, MinValidJoints <- 2, TagThreshold <- 4,
  JointThreshold <- 1, PoseThreshold <- 3, CandidateCount <- 2, PoseFrames <- PoseTensors

\* A small screen, and cameras smaller, larger and of other aspects.
Screen  == <<9, 5>>
Cameras == {<<4, 6>>, <<3, 4>>, <<9, 5>>, <<11, 5>>, <<13, 8>>, <<20, 17>>, <<31, 3>>}
Boxes   == [from : {<<x, y>> : x \in {0, 2, 5}, y \in {1, 4}}, to : {<<x, y>> : x \in {3, 6}, y \in {2, 6}}]

Lcd == INSTANCE LcdCompose WITH
  ScaleUnit <- 4, Source <- <<6, 6>>, Mask <- <<5, 4>>, Points <- {<<0, 0>>}, Half <- 1, Thickness <- 2

OneBox == [from |-> <<0, 1>>, to |-> <<3, 2>>]

\* The preview, of frames up to four times as large.
Preview == INSTANCE LcdCompose WITH
  Screen <- <<9, 6>>, ScaleUnit <- 16, Cameras <- (0 .. 36) \X (0 .. 25), Source <- <<6, 6>>, Mask <- <<5, 4>>,
  Boxes <- {OneBox}, Points <- {<<0, 0>>}, Half <- 1, Thickness <- 2

\* Lines in all directions, in and out of a small framebuffer.
Drawing == INSTANCE LcdCompose WITH
  Screen <- <<5, 4>>, ScaleUnit <- 4, Cameras <- {<<4, 6>>}, Source <- <<6, 6>>, Mask <- <<5, 4>>,
  Boxes <- {OneBox}, Points <- (-2 .. 6) \X (-1 .. 5), Half <- 1, Thickness <- 2

\* Regions and boxes on a grid of sixteen cells, and frames of three.
TenRegions ==
  {<<<<0, 0>>, <<4, 0>>, <<4, 4>>, <<0, 4>>>>, <<<<1, 1>>, <<1, 3>>, <<3, 3>>, <<3, 1>>>>,
   <<<<2, 0>>, <<4, 2>>, <<2, 4>>, <<0, 2>>>>, <<<<2, 1>>, <<3, 2>>, <<2, 3>>, <<1, 2>>>>,
   <<<<0, 1>>, <<4, 0>>, <<3, 3>>, <<1, 2>>>>, <<<<0, 0>>, <<1, 0>>, <<4, 3>>, <<3, 4>>>>,
   <<<<4, 0>>, <<4, 1>>, <<1, 4>>, <<0, 3>>>>, <<<<0, 4>>, <<2, 3>>, <<4, 4>>, <<2, 6>>>>,
   <<<<3, 2>>, <<4, 2>>, <<4, 3>>, <<2, 4>>>>, <<<<1, 0>>, <<2, 2>>, <<1, 4>>, <<0, 2>>>>}
TwoRegions == {<<<<0, 0>>, <<4, 0>>, <<4, 4>>, <<0, 4>>>>, <<<<2, 0>>, <<6, 2>>, <<2, 4>>, <<0, -2>>>>}

Detection(score, class, place) == [score |-> score, class |-> class, readable |-> TRUE, box |-> place]

\* One person, anywhere.
OnePerson ==
  {<<Detection(3, 1, <<x1, y1, x2, y2>>)>> :
     x1 \in {0, 1, 4}, y1 \in {0, 2, 3}, x2 \in {2, 3}, y2 \in {1, 4}}

\* Detections of two classes and scores, relative or in pixels.
Small == <<0, 1, 2, 2>>
Large == <<9, 0, 12, 6>>
ThreeDetections ==
  [1 .. 3 -> {Detection(1, 1, Small), Detection(3, 2, Large), Detection(2, 1, Large),
              [Detection(3, 1, Large) EXCEPT !.readable = FALSE]}]

OneRoi == INSTANCE PersonRoi WITH
  One <- 4, InputSize <- 3, MaxPersons <- 2, Person <- 1, Frames <- OnePerson, Thresholds <- {2},
  Regions <- TenRegions, MaxQueries <- 1, result <- judged

ManyRoi == INSTANCE PersonRoi WITH
  One <- 4, InputSize <- 3, MaxPersons <- 2, Person <- 1, Frames <- ThreeDetections,
  Thresholds <- {1, 2}, Regions <- TwoRegions, MaxQueries <- 2, result <- judged

\* Small pictures, and the sizes of the header's example.
Crop == INSTANCE CropGeometry WITH
  FrameWidth <- 8, FrameHeight <- 6, Corners <- {0, 5, 8, 9},
  Sources <- ({0, 1, 3, 7, 8} \X {3, 6, 7}) \union {<<4056, 3040>>},
  Targets <- ({0, 1, 2, 5, 8} \X {1, 5, 9}) \union {<<1024, 600>>, <<640, 480>>}

ASSUME /\ Post!PostprocessAssumption /\ Ssd!DetectionAssumption
       /\ Lcd!ComposeAssumption /\ Preview!ComposeAssumption /\ Drawing!ComposeAssumption
       /\ OneRoi!RoiAssumption /\ ManyRoi!RoiAssumption /\ Crop!CropAssumption

-----------------------------------------------------------------------------
Init ==
  /\ part \in {"post", "ssd", "pose", "lcd", "preview", "drawing", "one", "many", "crop"}
  /\ Post!Init /\ Ssd!Init /\ Crop!Init
  /\ IF part = "preview" THEN Preview!Init ELSE IF part = "drawing" THEN Drawing!Init ELSE Lcd!Init
  /\ part \notin {"lcd", "preview"} => camera = <<4, 6>> /\ box = OneBox
  /\ part # "drawing" => kind = "line"
  /\ ManyRoi!Init /\ (part # "many" => threshold = 2)

PostNext ==
  /\ part = "post" /\ Post!TensorCall
  /\ UNCHANGED <<ssdVars, poseVars, lcdVars, roiVars, cropVars>>

SsdNext ==
  /\ part = "ssd" /\ Ssd!Next
  /\ UNCHANGED <<postVars, poseVars, lcdVars, roiVars, cropVars>>

PoseNext ==
  /\ part = "pose" /\ Post!PoseStep
  /\ UNCHANGED <<postVars, ssdVars, lcdVars, roiVars, cropVars>>

LcdNext ==
  /\ \/ part = "lcd" /\ (Lcd!Compose \/ Lcd!DrawDetection \/ Lcd!DrawPose \/ Lcd!NextFrame)
     \/ part = "preview" /\ Preview!Preview
     \/ part = "drawing" /\ (Drawing!LineStep \/ Drawing!Rectangle)
  /\ UNCHANGED <<postVars, ssdVars, poseVars, roiVars, cropVars>>

RoiNext ==
  /\ \/ part = "one" /\ OneRoi!Next
     \/ part = "many" /\ ManyRoi!Next
  /\ UNCHANGED <<postVars, ssdVars, poseVars, lcdVars, cropVars>>

CropNext ==
  /\ part = "crop" /\ Crop!Next
  /\ UNCHANGED <<postVars, ssdVars, poseVars, lcdVars, roiVars>>

Next ==
  /\ UNCHANGED part
  /\ (PostNext \/ SsdNext \/ PoseNext \/ LcdNext \/ RoiNext \/ CropNext)

Spec == Init /\ [][Next]_vars

-----------------------------------------------------------------------------
\* What is shown or sent of a frame is what its tensors say: the best classes and detections in
\* their order and none lost, boxes in the picture and in one measure, the mask cell for cell, the
\* class with the most pixels, and as poses the persons whose joints this frame has.
ResultsOfFrame ==
  /\ part = "post" =>
       /\ Post!TopIsBest /\ Post!BoxesInOneMeasure /\ Post!NoDetectionLost
       /\ Post!MaskShowsSource /\ Post!DominantIsMost
  /\ part = "ssd" => Ssd!BestAreSent /\ Ssd!BoxesInPicture
  /\ part = "pose" => Post!GroupsArePeople /\ Post!JointsOfThisFrame

\* The picture fills the screen and leaves nothing of an earlier frame, whatever the camera's
\* size; a mark or a mask is drawn where the picture of its object is; a line is drawn near the
\* line and never beside the buffer.
DrawnInPlace ==
  /\ part = "lcd" =>
       /\ Lcd!NoOldPixel /\ Lcd!FillsScreen /\ Lcd!EveryFrameShown
       /\ Lcd!MarkOnPicture /\ Lcd!MarkAtObject /\ Lcd!MaskAtObject
  /\ part = "preview" => Preview!PreviewFits
  /\ part = "drawing" => Drawing!NearLine /\ Drawing!OnlyNear

\* Persons are compared with the full image or a region as it was asked for, never with some
\* points of it, while the other core sets it; a person is inside exactly if its box and the region overlap, and no
\* person of a frame is left out while there is a place.
PersonsAgainstRegion ==
  /\ part = "one" => OneRoi!InsideIsOverlap /\ OneRoi!RoiWhole
  /\ part = "many" => ManyRoi!RoiWhole /\ ManyRoi!PersonsFirst

\* A calculated crop is the largest one of its aspect whose cut extent is even, in the middle of
\* its source, and on even coordinates in a source of even size; and whatever is asked for and
\* fails, the sensor's window lies in the frame.
CropInFrame ==
  part = "crop" => Crop!CropFits /\ Crop!OnBayerGrid /\ Crop!Centred /\ Crop!WindowInFrame
=============================================================================
