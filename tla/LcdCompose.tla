------------------------------- MODULE LcdCompose -------------------------------
(***************************************************************************)
(* How the ESP32-P4 example brings a camera frame to the screen, and the   *)
(* results of the network onto it.  The pixel accelerator scales by        *)
(* sixteenths; what does not fit is cut off on both sides, what is not     *)
(* covered is cleared.  Both axes are treated alike: 1 is across, 2 down.  *)
(* Lines go from point to point with an integer error term, and a frame is *)
(* drawn with its thickness inwards.                                       *)
(***************************************************************************)
EXTENDS Integers, FiniteSets, FiniteSetsExt

CONSTANTS
  Screen,     \* EXAMPLE_LCD_H_RES and EXAMPLE_LCD_V_RES
  ScaleUnit,  \* 16
  Cameras,    \* sizes of camera frames
  Source,     \* the size of the network's input, in which boxes are given
  Mask,       \* the size of a segmentation
  Boxes,      \* what is detected: from and to, for each axis
  Points,     \* ends of lines, and corners of rectangles
  Half,       \* thickness / 2 of a line
  Thickness   \* of a rectangle

ComposeAssumption ==
  /\ \A a \in {1, 2} : Screen[a] \in Nat \ {0} /\ Source[a] \in Nat \ {0} /\ Mask[a] \in Nat \ {0}
  /\ ScaleUnit \in Nat \ {0}
  /\ Points \subseteq Int \X Int /\ Half \in Nat /\ Thickness \in Nat \ {0}

Axes == {1, 2}

VARIABLES
  camera,  \* the size of the frame
  pixels,  \* what each pixel of the framebuffer shows
  info,    \* ai_camera_lcd_compose_info_t, NoInfo before
  box,     \* the box that is drawn
  mark,    \* where it is drawn, NoMark when it is not
  from, to,  \* the line or the rectangle that is drawn
  at, err,   \* the point of a line, and its error term
  written,   \* elements of the framebuffer that are written, by index
  kind,      \* a line or a rectangle
  done

pictureVars == <<camera, pixels, info, box, mark>>
drawVars    == <<from, to, at, err, written, kind, done>>
vars        == <<pictureVars, drawVars>>

NoInfo == [scale |-> 0]
NoMark == [from |-> <<0, 0>>, to |-> <<-1, -1>>]
Pixels == (0 .. Screen[1] - 1) \X (0 .. Screen[2] - 1)

Magnitude(n) == IF n < 0 THEN -n ELSE n

dx == Magnitude(to[1] - from[1])
dy == Magnitude(to[2] - from[2])
sx == IF from[1] < to[1] THEN 1 ELSE -1
sy == IF from[2] < to[2] THEN 1 ELSE -1

\* Its callers draw a rectangle in the picture only, its corners in order.
Drawable == from \in Pixels /\ to \in Pixels /\ from[1] <= to[1] /\ from[2] <= to[2]

\* The framebuffer holds a frame of before, with what was drawn on it.
Init ==
  /\ camera \in Cameras /\ pixels = [p \in Pixels |-> "old"]
  /\ info = NoInfo /\ box \in Boxes /\ mark = NoMark
  /\ from \in Points /\ to \in Points
  /\ \/ kind = "line"
     \/ (kind = "rectangle" /\ Drawable)
  /\ at = from /\ err = dx - dy /\ written = {} /\ done = FALSE

----------------------------------------------------------------------------
CeilDiv(n, d) == (n + d - 1) \div d

\* ppa_scale_numerator_for_fill()
ScaleFor(a) == Max({1, CeilDiv(Screen[a] * ScaleUnit, camera[a])})

\* The larger scale fills the screen in both directions.
Scale == Max({ScaleFor(a) : a \in Axes})

\* ppa_input_extent_for_largest_output()
Block(a) == Min({camera[a], Max({1, ((Screen[a] + 1) * ScaleUnit - 1) \div Scale})})

\* ppa_scaled_extent()
Output(a) == (Block(a) * Scale) \div ScaleUnit

InBlockOffset(a) == (camera[a] - Block(a)) \div 2
OutOffset(a) == (Screen[a] - Output(a)) \div 2

Cleared == \E a \in Axes : OutOffset(a) # 0 \/ Output(a) # Screen[a]

Covered(p) == \A a \in Axes : p[a] \in OutOffset(a) .. OutOffset(a) + Output(a) - 1

\* ai_camera_lcd_compose_frame()
Compose ==
  /\ info = NoInfo
  /\ \A a \in Axes : Output(a) \in 1 .. Screen[a]
  /\ pixels' = [p \in Pixels |-> IF Covered(p) THEN "camera" ELSE IF Cleared THEN "clear" ELSE pixels[p]]
  /\ info' = [scale |-> Scale, in |-> <<Block(1), Block(2)>>, in_offset |-> <<InBlockOffset(1), InBlockOffset(2)>>,
              out |-> <<Output(1), Output(2)>>, out_offset |-> <<OutOffset(1), OutOffset(2)>>]
  /\ UNCHANGED <<camera, box, mark, drawVars>>

----------------------------------------------------------------------------
Clamp(value, low, high) == Max({low, Min({value, high})})

\* A coordinate relative to the part of the camera frame that is shown, in units of 1 / camera.
Shown(a, value) == value * camera[a] - Source[a] * info.in_offset[a]

\* The coordinate as it is, even if it lies outside of what is shown.
MapCoordFree(a, value) ==
  LET unit == Source[a] * info.in[a]
  IN info.out_offset[a] + (2 * Shown(a, value) * (info.out[a] - 1) + unit) \div (2 * unit)

\* map_overlay_coord_with_crop()
MapCoord(a, value) ==
  LET unit == Source[a] * info.in[a]
  IN info.out_offset[a] + (2 * Clamp(Shown(a, value), 0, unit) * (info.out[a] - 1) + unit) \div (2 * unit)

\* A detection that lies outside of what is shown is passed over.
Hidden(b) ==
  \E a \in Axes :
    \/ Shown(a, Max({b.from[a], b.to[a]})) < 0
    \/ Shown(a, Min({b.from[a], b.to[a]})) > Source[a] * info.in[a]

MappedFrom(a) == Min({MapCoord(a, box.from[a]), MapCoord(a, box.to[a])})
MappedTo(a) == Max({MapCoord(a, box.from[a]), MapCoord(a, box.to[a])})

Draw ==
  /\ info # NoInfo /\ mark = NoMark
  /\ mark' = [from |-> <<MappedFrom(1), MappedFrom(2)>>, to |-> <<MappedTo(1), MappedTo(2)>>]
  /\ UNCHANGED <<camera, pixels, info, box, drawVars>>

\* render_detection_overlay()
DrawDetection == info # NoInfo /\ ~Hidden(box) /\ Draw

\* render_pose_overlay(): a pose is drawn at the edge if it lies outside of what is shown.
DrawPose == Draw

\* The next frame, which has the size of this one, comes to the same framebuffer.
NextFrame ==
  /\ info # NoInfo
  /\ pixels' = [p \in Pixels |-> "old"] /\ info' = NoInfo /\ box' \in Boxes /\ mark' = NoMark
  /\ UNCHANGED <<camera, drawVars>>

----------------------------------------------------------------------------
\* The local preview is a program of its own, and shows a part that covers the screen exactly.
Even(extent, least) == IF extent > least THEN extent - (extent % 2) ELSE extent

\* ppa_input_extent_for_exact_output()
ExactBlock(a) ==
  LET least == CeilDiv(Screen[a] * ScaleUnit, Scale)
      most  == ((Screen[a] + 1) * ScaleUnit - 1) \div Scale
  IN Even(Max({Min({most, camera[a]}), least}), least)

ExactOutput(a) == (ExactBlock(a) * Scale) \div ScaleUnit

\* local_camera_frame_operation(): a frame that is larger than the screen is scaled, unless the
\* scaler refuses it, which ends the program; another one is copied.
Preview ==
  /\ info = NoInfo /\ \A a \in Axes : camera[a] > 0
  /\ IF \E a \in Axes : camera[a] > Screen[a]
     THEN /\ \A a \in Axes : ExactOutput(a) <= Screen[a] /\ ExactBlock(a) <= camera[a]
          /\ info' = [scale |-> Scale, in |-> <<ExactBlock(1), ExactBlock(2)>>,
                      in_offset |-> <<(camera[1] - ExactBlock(1)) \div 2, (camera[2] - ExactBlock(2)) \div 2>>,
                      out |-> <<ExactOutput(1), ExactOutput(2)>>, out_offset |-> <<0, 0>>]
     ELSE info' = [scale |-> ScaleUnit, in |-> camera, in_offset |-> <<0, 0>>, out |-> camera, out_offset |-> <<0, 0>>]
  /\ pixels' = [p \in Pixels |-> IF \A a \in Axes : p[a] < info'.out[a] THEN "camera" ELSE pixels[p]]
  /\ UNCHANGED <<camera, box, mark, drawVars>>

----------------------------------------------------------------------------
Element(p) == p[2] * Screen[1] + p[1]

\* Whatever lies outside of the framebuffer is not written.
Write(points) == {Element(p) : p \in points \intersect Pixels}

Square(p) == {<<x, y>> : x \in (p[1] - Half) .. (p[1] + Half), y \in (p[2] - Half) .. (p[2] + Half)}

\* e2 > -dy
Across == 2 * err > -dy

\* e2 < dx
Down == 2 * err < dx

\* draw_line_rgb(), once around its loop
LineStep ==
  /\ kind = "line" /\ ~done
  /\ written' = written \union Write(Square(at))
  /\ IF at = to THEN UNCHANGED <<at, err>>
     ELSE /\ at' = <<at[1] + (IF Across THEN sx ELSE 0), at[2] + (IF Down THEN sy ELSE 0)>>
          /\ err' = err - (IF Across THEN dy ELSE 0) + (IF Down THEN dx ELSE 0)
  /\ done' = (at = to) /\ UNCHANGED <<from, to, kind, pictureVars>>

Clip(n, high) == IF n > high THEN high ELSE n
FromZero(n) == IF n < 0 THEN 0 ELSE n

\* draw_rectangle_rgb()
Rectangle ==
  LET x1 == FromZero(from[1])
      y1 == FromZero(from[2])
      x2 == Clip(to[1], Screen[1] - 1)
      y2 == Clip(to[2], Screen[2] - 1)
      rows    == UNION {{y1 + t, y2 - t} : t \in 0 .. Thickness - 1}
      columns == UNION {{x1 + t, x2 - t} : t \in 0 .. Thickness - 1}
  IN /\ kind = "rectangle" /\ ~done
     /\ written' = Write(((x1 .. x2) \X rows) \union (columns \X (y1 .. y2)))
     /\ done' = TRUE
     /\ UNCHANGED <<from, to, at, err, kind, pictureVars>>

Next == Compose \/ DrawDetection \/ DrawPose \/ NextFrame \/ LineStep \/ Rectangle

Spec == Init /\ [][Next]_vars

----------------------------------------------------------------------------
\* The part of the mask that is shown, in units of 1 / camera.
MaskPart(a) == Max({camera[a], Mask[a] * info.in[a]})

\* render_segmentation_overlay()
MaskCell(a, n) ==
  Min({Mask[a] - 1,
       (Mask[a] * info.in_offset[a] * info.out[a] + n * MaskPart(a)) \div (camera[a] * info.out[a])})

----------------------------------------------------------------------------
\* Nothing of an earlier frame is left beside the picture.
NoOldPixel == info # NoInfo => \A p \in Pixels : pixels[p] # "old"

\* The picture fills the screen up to one step of the scale, and is cut on both sides alike.
FillsScreen ==
  info # NoInfo =>
    \A a \in Axes :
      /\ (Screen[a] - info.out[a]) * ScaleUnit <= info.scale
      /\ (camera[a] - info.in[a]) - 2 * info.in_offset[a] \in {0, 1}

\* No size of a camera is refused for its scale.
EveryFrameShown == info = NoInfo => \A a \in Axes : Output(a) \in 1 .. Screen[a]

\* The preview of a frame that is not smaller than the screen lies in the middle of the frame, and
\* comes to every pixel of the screen and no further.
PreviewFits ==
  (\E a \in Axes : camera[a] > Screen[a]) /\ (\A a \in Axes : camera[a] >= Screen[a]) =>
    /\ \A a \in Axes : ExactBlock(a) <= camera[a] /\ ExactOutput(a) = Screen[a]
    /\ info # NoInfo => \A p \in Pixels : pixels[p] = "camera"

\* A mark is drawn on the picture.
MarkOnPicture ==
  mark # NoMark =>
    \A a \in Axes :
      /\ info.out_offset[a] <= mark.from[a] /\ mark.from[a] <= mark.to[a]
      /\ mark.to[a] < info.out_offset[a] + info.out[a]

\* Where a coordinate is in the camera's frame, relative to what is scaled to the screen.
InFrame(a, value) == value * camera[a] - Source[a] * info.in_offset[a]

IsShown(a, value) == InFrame(a, value) \in 0 .. Source[a] * info.in[a]

\* The place it has on the screen, as the accelerator scales, in units of Source and ScaleUnit.
Place(a, value) == Source[a] * ScaleUnit * info.out_offset[a] + InFrame(a, value) * info.scale

\* A mark is drawn where the camera's picture of the object is, within two and a half pixels.
MarkAtObject ==
  mark # NoMark =>
    \A a \in Axes :
      LET low  == Min({box.from[a], box.to[a]})
          high == Max({box.from[a], box.to[a]})
          Near(n, value) ==
            2 * (n * Source[a] * ScaleUnit - Place(a, value)) \in -5 * Source[a] * ScaleUnit .. 5 * Source[a] * ScaleUnit
      IN /\ IsShown(a, low) => Near(mark.from[a], low)
         /\ IsShown(a, high) => Near(mark.to[a], high)

\* A pixel is coloured by the cell of the mask it shows, or by the next one.
MaskAtObject ==
  info # NoInfo =>
    \A a \in Axes : \A n \in 0 .. info.out[a] - 1 :
      LET unit  == info.scale * camera[a]
          place == Mask[a] * (info.in_offset[a] * info.scale + n * ScaleUnit)
      IN /\ MaskCell(a, n) * unit <= place + unit
         /\ place < (MaskCell(a, n) + 2) * unit

\* The point stays within half a pixel of the line, and between its ends; the error term
\* is what the point is off.
NearLine ==
  LET x == Magnitude(at[1] - from[1])
      y == Magnitude(at[2] - from[2])
  IN /\ x <= dx /\ y <= dy
     /\ 2 * Magnitude(x * dy - y * dx) <= (IF dx > dy THEN dx ELSE dy)
     /\ kind = "line" => err = (dx - dy) - x * dy + y * dx

\* Only pixels near what is drawn are written: of a line, those within its half thickness
\* and half a pixel; of a rectangle, those within it, or within the thickness if it is thinner.
OnlyNear ==
  \A p \in Pixels : Element(p) \in written =>
    IF kind = "rectangle"
    THEN \A a \in {1, 2} : from[a] - Thickness < p[a] /\ p[a] < to[a] + Thickness
    ELSE \E q \in Square(p) :
           2 * Magnitude((q[1] - from[1]) * (to[2] - from[2]) - (q[2] - from[2]) * (to[1] - from[1]))
             <= (IF dx > dy THEN dx ELSE dy)
=============================================================================
