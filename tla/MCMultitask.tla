----------------------------- MODULE MCMultitask -----------------------------
(***************************************************************************)
(* The ESP32-P4 example, for TLC: the ring of framebuffers, the tasks      *)
(* around the results, the choice of the model and the camera task are     *)
(* set up, and in a behaviour one of them, part, runs.                     *)
(***************************************************************************)
EXTENDS Integers

VARIABLES
  part,
  shown, queued, refresh_count, busy_until, next_compose, last_presented, ring_pc, buf, screen,
  refreshes, begun, failed_switches, failed, torn,
  mutex, result, summary, age, ai_overlay_enabled, zero_header_failures, modal, mask, mpc, frame,
  written, dpc, snapshot, copied, drawn, first_frame_seen, timeouts, announced,
  stored, pc, active, model, network_info, opened, button, was_pressed, held, presses, switches,
  faults, unread,
  fd, on, queue, filled, content, frames, client, index, video_task_delete, task_pc, looking,
  asked, aborted, late

ringVars    == <<shown, queued, refresh_count, busy_until, next_compose, last_presented, ring_pc,
                 buf, screen, refreshes, begun, failed_switches, failed, torn>>
overlayVars == <<mutex, result, summary, age, ai_overlay_enabled, zero_header_failures, modal,
                 mask, mpc, frame, written, dpc, snapshot, copied, drawn, first_frame_seen,
                 timeouts, announced>>
modelVars   == <<stored, pc, active, model, network_info, opened, button, was_pressed, held,
                 presses, switches, faults, unread>>
videoVars   == <<fd, on, queue, filled, content, frames, client, index, video_task_delete,
                 task_pc, looking, asked, aborted, late>>
vars == <<part, ringVars, overlayVars, modelVars, videoVars>>

-----------------------------------------------------------------------------
\* frames that cannot be composed and a failed model switch; neither; no refresh callback
Ring == INSTANCE DisplayRing WITH
  N <- 3, Counted <- TRUE, FramesPerRefresh <- 1, MaxFailed <- 1, MaxRefresh <- 8,
  MaxSwitches <- 1, pc <- ring_pc, switches <- failed_switches

Paced == INSTANCE DisplayRing WITH
  N <- 3, Counted <- TRUE, FramesPerRefresh <- 1, MaxFailed <- 0, MaxRefresh <- 8,
  MaxSwitches <- 0, pc <- ring_pc, switches <- failed_switches

Uncounted == INSTANCE DisplayRing WITH
  N <- 3, Counted <- FALSE, FramesPerRefresh <- 1, MaxFailed <- 2, MaxRefresh <- 8,
  MaxSwitches <- 1, pc <- ring_pc, switches <- failed_switches

Overlay == INSTANCE OverlayTasks WITH
  MaxFrame <- 4, Parts <- 2, Threshold <- 2, Expiry <- 1, MaxTimeouts <- 1, MaxSwitches <- 1,
  switches <- announced

\* the two boot modes
FlashModel == INSTANCE ModelSelection WITH
  Count <- 3, Default <- 1, Flash <- TRUE, Debounce <- 2, MaxPresses <- 2, MaxFaults <- 3,
  MaxUnread <- 1

DirectModel == INSTANCE ModelSelection WITH
  Count <- 3, Default <- 1, Flash <- FALSE, Debounce <- 2, MaxPresses <- 2, MaxFaults <- 2,
  MaxUnread <- 0

\* a driver that does as it is told, and one whose calls fail
Video == INSTANCE VideoStream WITH
  N <- 3, Patient <- TRUE, Faulty <- FALSE, MaxTasks <- 3, MaxFrames <- 7, pc <- task_pc

FaultyVideo == INSTANCE VideoStream WITH
  N <- 2, Patient <- TRUE, Faulty <- TRUE, MaxTasks <- 3, MaxFrames <- 6, pc <- task_pc

ASSUME /\ Ring!RingAssumption /\ Paced!RingAssumption /\ Uncounted!RingAssumption
       /\ Overlay!TasksAssumption /\ FlashModel!ModelAssumption /\ DirectModel!ModelAssumption
       /\ Video!VideoAssumption /\ FaultyVideo!VideoAssumption

Init ==
  /\ part \in {"ring", "paced", "uncounted", "overlay", "flash", "direct", "video", "faulty"}
  /\ Ring!Init /\ Overlay!Init
  /\ FlashModel!Init /\ (part \notin {"flash", "direct"} => stored = 0)
  /\ IF part = "faulty" THEN FaultyVideo!Init ELSE Video!Init

RingNext ==
  /\ \/ part = "ring" /\ Ring!Next
     \/ part = "paced" /\ Paced!Next
     \/ part = "uncounted" /\ Uncounted!Next
  /\ UNCHANGED <<overlayVars, modelVars, videoVars>>

OverlayNext == part = "overlay" /\ Overlay!Next /\ UNCHANGED <<ringVars, modelVars, videoVars>>

ModelNext ==
  /\ \/ part = "flash" /\ FlashModel!Next
     \/ part = "direct" /\ DirectModel!Next
  /\ UNCHANGED <<ringVars, overlayVars, videoVars>>

VideoNext ==
  /\ \/ part = "video" /\ Video!Next
     \/ part = "faulty" /\ FaultyVideo!Next
  /\ UNCHANGED <<ringVars, overlayVars, modelVars>>

Next == UNCHANGED part /\ (RingNext \/ OverlayNext \/ ModelNext \/ VideoNext)

\* The tasks around the results and the program that chooses the model go on.
Fairness ==
  /\ WF_overlayVars(part = "overlay" /\ Overlay!Metadata)
  /\ WF_overlayVars(part = "overlay" /\ Overlay!Display)
  /\ WF_overlayVars(part = "overlay" /\ Overlay!Tick)
  /\ WF_modelVars(part = "direct" /\ DirectModel!Program)

Spec == Init /\ [][Next]_vars /\ Fairness

-----------------------------------------------------------------------------
\* A framebuffer is written while it is neither on the screen nor the next to come, as long as
\* every frame can be composed; a frame that cannot, or a status screen drawn by another task,
\* costs at most one frame seen half done, and the ring falls into step again.
ComposedUnseen ==
  /\ part = "paced" => Paced!OffScreen
  /\ part = "ring" => Ring!TornOnceEach
  /\ part = "uncounted" => Uncounted!TornOnceEach

\* Text, result and mask that are drawn together belong together: the text is of the result or a
\* message, and no part of the mask is older than the result, however the tasks interleave and
\* whoever goes on without the mutex.
DrawnTogether == part = "overlay" => Overlay!SummaryOfResult /\ Overlay!MaskNotOlder

\* The module runs the model the program takes it to run, with that model's network information,
\* wherever power was lost while the flash was written; one press is one switch at most.
RunsActiveModel ==
  /\ part = "flash" => FlashModel!MatchingPair /\ FlashModel!OnePressOneSwitch
  /\ part = "direct" => DirectModel!MatchingPair /\ DirectModel!OnePressOneSwitch

\* What the display callback looks at is not the driver's meanwhile, over stops and restarts: it
\* stays the frame it was given.  A task ends only if it was asked to, after one more frame at
\* most, and no check of the program fails while the driver does not.
FrameStays ==
  /\ part = "video" =>
       Video!FrameStays /\ Video!EndsIfAsked /\ Video!OneMore /\ Video!NoAbort
  /\ part = "faulty" => FaultyVideo!FrameStays /\ FaultyVideo!EndsIfAsked /\ FaultyVideo!OneMore

\* The screen does not go on showing a result that has expired; and the model that was saved
\* is the one that comes to run, if faults come to an end.
ComesAbout ==
  /\ []<>(part = "overlay" => drawn = 0 \/ age <= 1)
  /\ \A m \in 0 .. 2 : (part = "direct" /\ pc = "restart" /\ stored = m) ~> (pc = "run" /\ active = m)
=============================================================================
