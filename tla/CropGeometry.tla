------------------------------ MODULE CropGeometry ------------------------------
(***************************************************************************)
(* The arithmetic of the crop helpers: the centred crop that has the       *)
(* aspect of a target, the range checks of an absolute crop, and what is   *)
(* handed to the affine setting.  Rectangles are left-closed, right-open.  *)
(***************************************************************************)
EXTENDS Integers

CONSTANTS
  FrameWidth, FrameHeight,  \* DWP_AP_VC_HSIZE, DWP_AP_VC_VSIZE
  Sources, Targets,         \* widths and heights that are asked for, 0 among them
  Corners                   \* coordinates of absolute crops

CropAssumption ==
  /\ FrameWidth \in Nat \ {0} /\ FrameHeight \in Nat \ {0}
  /\ Sources \subseteq Nat \X Nat /\ Targets \subseteq Nat \X Nat /\ Corners \subseteq Nat

VARIABLES
  asked,   \* source and target of the last calculation
  crop,    \* its answer
  affine   \* the window in the sensor: its start and its size

vars == <<asked, crop, affine>>

NoCrop == [xmin |-> 0, ymin |-> 0, xmax |-> 0, ymax |-> 0]
Whole == [x |-> 0, y |-> 0, w |-> FrameWidth, h |-> FrameHeight]

Init == asked = <<<<1, 1>>, <<0, 0>>>> /\ crop = NoCrop /\ affine = Whole

----------------------------------------------------------------------------
\* To the nearest even value.
EvenNearest(value) == IF value > 1 THEN value + (value % 2) ELSE value

\* align_down_even_if_possible()
Even(value) == IF value > 1 THEN value - (value % 2) ELSE value

\* The extent of the crop, given this extent and the other one of source and target.
Extent(s, other, t, t_other) ==
  IF t * other < s * t_other THEN Even((other * t) \div t_other) ELSE s

Offset(s, extent) == Even((s - extent) \div 2)

\* imx500_calculate_center_crop_xyxy(), NoCrop when it fails.
CenterCrop(source, target) ==
  LET w == Extent(source[1], source[2], target[1], target[2])
      h == Extent(source[2], source[1], target[2], target[1])
      x == Offset(source[1], w)
      y == Offset(source[2], h)
  IN IF 0 \in {source[1], source[2], target[1], target[2]} \/ w = 0 \/ h = 0 THEN NoCrop
     ELSE [xmin |-> x, ymin |-> y, xmax |-> x + w, ymax |-> y + h]

CalculateCenterCrop ==
  \E source \in Sources, target \in Targets :
    /\ asked' = <<source, target>> /\ crop' = CenterCrop(source, target)
    /\ UNCHANGED affine

----------------------------------------------------------------------------

\* The checks of dnn_crop_xyxy_absolute()
InRange(r) ==
  /\ r.xmax <= FrameWidth /\ r.ymax <= FrameHeight
  /\ r.xmin <= r.xmax /\ r.ymin <= r.ymax

\* imx500_set_crop_rect_xyxy()
Window(r) == [x |-> r.xmin, y |-> r.ymin, w |-> r.xmax - r.xmin, h |-> r.ymax - r.ymin]

\* The affine command may fail, and leaves what it was; see ModuleCommands.
SetAffine(window) == affine' \in {window, affine}

CropAbsolute ==
  /\ \E x1, x2, y1, y2 \in Corners :
       LET r == [xmin |-> x1, ymin |-> y1, xmax |-> x2, ymax |-> y2]
       IN InRange(r) /\ SetAffine(Window(r))
  /\ UNCHANGED <<asked, crop>>

\* apply_dnn_input_tensor_mapping()
ApplyMapping ==
  \E target \in Targets :
    LET r == CenterCrop(<<FrameWidth, FrameHeight>>, target)
    IN /\ r # NoCrop /\ InRange(r) /\ SetAffine(Window(r))
       /\ asked' = <<<<FrameWidth, FrameHeight>>, target>> /\ crop' = r

Next == CalculateCenterCrop \/ CropAbsolute \/ ApplyMapping

Spec == Init /\ [][Next]_vars

----------------------------------------------------------------------------
Source == asked[1]
Target == asked[2]
Width == crop.xmax - crop.xmin
Height == crop.ymax - crop.ymin

\* The extent that is cut is the largest even one that the aspect of the target allows, or 1;
\* the other one stays the source's, an odd one too.
Fits(extent, s, other, t, t_other) ==
  IF t * other >= s * t_other THEN extent = s
  ELSE /\ extent <= s /\ extent * t_other <= t * other
       /\ (extent + (IF extent = 1 THEN 1 ELSE 2)) * t_other > t * other
       /\ extent % 2 = 0 \/ extent = 1

\* The crop has the aspect of the target, up to the rounding of the extent that is cut: it lies
\* in the source, is whole in one dimension at least, and is refused only if less than one
\* pixel would be left.
CropFits ==
  /\ crop # NoCrop =>
       /\ Fits(Width, Source[1], Source[2], Target[1], Target[2])
       /\ Fits(Height, Source[2], Source[1], Target[2], Target[1])
       /\ Width = Source[1] \/ Height = Source[2]
       /\ crop.xmax <= Source[1] /\ crop.ymax <= Source[2]
  /\ crop = NoCrop =>
       \/ 0 \in {Source[1], Source[2], Target[1], Target[2]}
       \/ Target[1] * Source[2] < Target[2] \/ Target[2] * Source[1] < Target[1]

\* In a source of even size, as the sensor's, every edge of a crop lies between two Bayer cells,
\* unless an extent or an offset is a single pixel.
OnBayerGrid ==
  crop # NoCrop /\ Source[1] % 2 = 0 /\ Source[2] % 2 = 0 =>
    \A n \in {Width, Height, crop.xmin, crop.ymin} : n % 2 = 0 \/ n = 1

\* The crop is in the middle, up to the rounding of its offset.
Centred ==
  crop # NoCrop =>
    /\ (Source[1] - crop.xmax) - crop.xmin \in 0 .. 3
    /\ (Source[2] - crop.ymax) - crop.ymin \in 0 .. 3

\* Whatever was asked for and whichever command failed, the sensor's window lies in the frame.
WindowInFrame ==
  /\ affine.x >= 0 /\ affine.w >= 0 /\ affine.x + affine.w <= FrameWidth
  /\ affine.y >= 0 /\ affine.h >= 0 /\ affine.y + affine.h <= FrameHeight
=============================================================================
