---------------------------- MODULE OverlayTasks ----------------------------
(***************************************************************************)
(* The three tasks of the ESP32-P4 example around the state they share:    *)
(* the metadata task publishes what it made of each frame, the display     *)
(* callback copies it and draws the copy, and the button task announces a  *)
(* model switch.  A mutex guards the state, and whoever does not get it in *)
(* time goes on without.  The segmentation mask is a buffer beside the     *)
(* state that its writer fills without the mutex.                          *)
(*                                                                         *)
(* A result is the number of the frame it was made of, 0 when there is     *)
(* none.  A mask is the frame numbers of its parts.  A section under the   *)
(* mutex is one step unless it reads the mask, which is written without.   *)
(***************************************************************************)
EXTENDS Integers

CONSTANTS
  MaxFrame,     \* bound on the frames read
  Parts,        \* parts the mask is written and copied in
  Threshold,    \* kMetadataDisableThreshold
  Expiry,       \* kAiResultExpiryUs
  MaxTimeouts,  \* bound on the times the mutex is not got in time
  MaxSwitches   \* bound on the announced model switches

TasksAssumption == {Parts, Threshold, Expiry} \subseteq Nat \ {0}

VARIABLES
  mutex,                 \* whether the display callback holds it
  result, summary, age,  \* the result, what summary_line_1 says, the time since the update
  ai_overlay_enabled, zero_header_failures, modal,
  mask,                  \* g_segmentation_mask
  mpc, frame, written,   \* the metadata task: its step, the frame, mask parts written
  dpc, snapshot, copied, \* the display callback: its step, its copy, mask parts copied
  drawn,                 \* the result on the screen, 0 without one
  first_frame_seen, timeouts, switches

shared   == <<result, summary, age, ai_overlay_enabled, zero_header_failures, modal>>
metadata == <<mpc, frame, written, mask>>
display  == <<mutex, dpc, snapshot, copied, drawn, first_frame_seen>>
vars     == <<shared, metadata, display, timeouts, switches>>

\* Messages; a summary above 0 is the one of that frame.
Waiting == -1
Error   == -2
Saving  == -3

NoMask == [i \in 1 .. Parts |-> 0]

\* After ai_camera_multitask_run() has started the workers.
Init ==
  /\ mutex = FALSE
  /\ result = 0 /\ summary = Waiting /\ age = Expiry + 1
  /\ ai_overlay_enabled = TRUE /\ zero_header_failures = 0 /\ modal = FALSE
  /\ mask = NoMask /\ mpc = "wait" /\ frame = 0 /\ written = 0
  /\ dpc = "idle" /\ copied = 0 /\ drawn = 0 /\ first_frame_seen = FALSE
  /\ snapshot = [result |-> 0, summary |-> Waiting, age |-> Expiry + 1, enabled |-> TRUE,
                 mask |-> NoMask]
  /\ timeouts = 0 /\ switches = 0

----------------------------------------------------------------------------
Older(a) == IF a > Expiry THEN a ELSE a + 1

Tick ==
  /\ age' = Older(age) /\ snapshot' = [snapshot EXCEPT !.age = Older(@)]
  /\ UNCHANGED <<result, summary, ai_overlay_enabled, zero_header_failures, modal, metadata,
                 mutex, dpc, copied, drawn, first_frame_seen, timeouts, switches>>

\* Another task kept the mutex for longer than one waits.
TimesOut == timeouts < MaxTimeouts /\ timeouts' = timeouts + 1 /\ UNCHANGED shared

Section == ~mutex /\ UNCHANGED timeouts

----------------------------------------------------------------------------
(* spi_metadata_task()                                                      *)
Arm ==
  /\ mpc = "wait" /\ first_frame_seen /\ mpc' = "read"
  /\ UNCHANGED <<shared, frame, written, mask, display, timeouts, switches>>

\* A frame is read and parsed: it is good, its header is zero, or it is bad otherwise.
Read ==
  /\ mpc = "read" /\ frame < MaxFrame
  /\ frame' = frame + 1 /\ written' = 0
  /\ mpc' \in {"good", "zero", "read"}
  /\ UNCHANGED <<shared, mask, display, timeouts, switches>>

CountZeroHeader ==
  /\ mpc = "zero" /\ mpc' = "read"
  /\ \/ TimesOut
     \/ /\ Section
        /\ zero_header_failures' = zero_header_failures + 1
        /\ IF zero_header_failures' >= Threshold
           THEN ai_overlay_enabled' = FALSE /\ result' = 0 /\ age' = Expiry + 1 /\ summary' = Error
           ELSE UNCHANGED <<ai_overlay_enabled, result, age, summary>>
        /\ UNCHANGED modal
  /\ UNCHANGED <<frame, written, mask, display, switches>>

Recover ==
  /\ mpc = "good" /\ mpc' = "post"
  /\ \/ TimesOut
     \/ /\ Section
        /\ zero_header_failures' = 0 /\ ai_overlay_enabled' = TRUE
        /\ UNCHANGED <<result, summary, age, modal>>
  /\ UNCHANGED <<frame, written, mask, display, switches>>

\* The result is published before its mask is written.
PostprocessLate ==
  /\ mpc = "post"
  /\ \/ written < Parts /\ mask' = [mask EXCEPT ![written + 1] = frame - 1]
        /\ written' = written + 1 /\ UNCHANGED mpc
     \/ written = Parts /\ mpc' = "publish" /\ UNCHANGED <<mask, written>>
  /\ UNCHANGED <<shared, frame, display, timeouts, switches>>

\* imx500_postprocess_*(): the mask is written part by part, and the frame may give nothing.
Postprocess ==
  /\ mpc = "post"
  /\ \/ written < Parts /\ mask' = [mask EXCEPT ![written + 1] = frame]
        /\ written' = written + 1 /\ UNCHANGED mpc
     \/ written = Parts /\ mpc' = "publish" /\ UNCHANGED <<mask, written>>
     \/ written = 0 /\ mpc' = "read" /\ UNCHANGED <<mask, written>>
  /\ UNCHANGED <<shared, frame, display, timeouts, switches>>

Publish ==
  /\ mpc = "publish" /\ mpc' = "read"
  /\ \/ TimesOut
     \/ /\ Section
        /\ result' = frame /\ summary' = frame /\ age' = 0
        /\ UNCHANGED <<ai_overlay_enabled, zero_header_failures, modal>>
  /\ UNCHANGED <<frame, written, mask, display, switches>>

Metadata == Arm \/ Read \/ CountZeroHeader \/ Recover \/ Postprocess \/ Publish

----------------------------------------------------------------------------
(* mipi_display_frame_operation(), from the snapshot on                     *)
Snapshot ==
  /\ dpc = "idle" /\ first_frame_seen' = TRUE
  /\ \/ /\ TimesOut /\ dpc' = "draw" /\ UNCHANGED <<snapshot, mutex>>
     \/ /\ Section /\ mutex' = TRUE /\ dpc' = "copy"
        /\ snapshot' = [snapshot EXCEPT !.result = result, !.summary = summary, !.age = age,
                                        !.enabled = ai_overlay_enabled]
        /\ UNCHANGED shared
  /\ copied' = 0
  /\ UNCHANGED <<metadata, drawn, switches>>

\* The mask, when the segmentation result is there, and then the mutex is given back.
Copy ==
  /\ dpc = "copy"
  /\ IF snapshot.result # 0 /\ copied < Parts
     THEN /\ snapshot' = [snapshot EXCEPT !.mask[copied + 1] = mask[copied + 1]]
          /\ copied' = copied + 1 /\ UNCHANGED <<dpc, mutex>>
     ELSE dpc' = "draw" /\ mutex' = FALSE /\ UNCHANGED <<snapshot, copied>>
  /\ UNCHANGED <<shared, metadata, drawn, first_frame_seen, timeouts, switches>>

\* The time the snapshot was taken does not matter.
IsFreshAlways == snapshot.enabled

IsFresh == snapshot.enabled /\ snapshot.age <= Expiry

\* render_ai_overlay_on_mipi_frame()
Draw ==
  /\ dpc = "draw" /\ dpc' = "idle"
  /\ drawn' = IF IsFresh THEN snapshot.result ELSE 0
  /\ UNCHANGED <<shared, metadata, mutex, snapshot, copied, first_frame_seen, timeouts, switches>>

Display == Snapshot \/ Copy \/ Draw

----------------------------------------------------------------------------
\* switch_to_next_model_and_restart(), as far as the shared state goes, when saving fails.
Announce ==
  /\ switches < MaxSwitches /\ switches' = switches + 1
  /\ \/ TimesOut
     \/ /\ Section /\ modal' = TRUE /\ summary' = Saving
        /\ UNCHANGED <<result, age, ai_overlay_enabled, zero_header_failures>>
  /\ UNCHANGED <<metadata, display>>

Next == Tick \/ Metadata \/ Display \/ Announce

\* The camera goes on giving frames to the display, and no task stops.
Spec ==
  /\ Init /\ [][Next]_vars
  /\ WF_vars(Metadata) /\ WF_vars(Display) /\ WF_vars(Tick)

----------------------------------------------------------------------------

\* The text that is drawn belongs to the result that is drawn, or is a message: however
\* the sections interleave and whichever of them are passed over.
SummaryOfResult ==
  dpc = "draw" /\ snapshot.summary > 0 => snapshot.summary = snapshot.result

\* No part of the mask that is drawn with a result is of an earlier frame than the
\* result.  (It may be of a later one: the mask is written without the mutex.)
MaskNotOlder ==
  dpc = "draw" /\ snapshot.result # 0 =>
    \A i \in 1 .. Parts : snapshot.mask[i] >= snapshot.result

=============================================================================
