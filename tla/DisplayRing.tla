----------------------------- MODULE DisplayRing -----------------------------
(***************************************************************************)
(* The LCD framebuffers of the ESP32-P4 example.  The video task composes  *)
(* every camera frame in a framebuffer it takes to be off the screen and   *)
(* presents it; the panel goes on showing a framebuffer until the refresh  *)
(* after another is presented, and counts refreshes in a callback.  A      *)
(* failed model switch fills all the framebuffers from another task.       *)
(***************************************************************************)
EXTENDS Integers

CONSTANTS
  N,                   \* EXAMPLE_LCD_BUF_NUM
  Counted,             \* whether the refresh callback could be registered
  FramesPerRefresh,    \* frames the camera begins at most between two refreshes
  MaxFailed,           \* bound on the frames that cannot be composed
  MaxRefresh,          \* bound on the refreshes
  MaxSwitches          \* bound on the failed model switches

RingAssumption == N \in Nat \ {0, 1} /\ FramesPerRefresh \in Nat /\ Counted \in BOOLEAN

Buffers == 0 .. N - 1
Invalid == N

VARIABLES
  shown, queued,     \* the panel: the framebuffer on the screen, and the one from the next refresh on
  refresh_count, busy_until, next_compose, last_presented,
  pc, buf,           \* the video task, and the framebuffer it has selected
  screen,            \* the boot task is filling the framebuffers with its message
  refreshes, begun, switches, failed,  \* what has happened: refreshes, frames begun since the last one,
                                       \* failed switches, frames that could not be composed
  torn               \* frames composed in a framebuffer that was on the screen or next to come

vars == <<shown, queued, refresh_count, busy_until, next_compose, last_presented,
          pc, buf, screen, refreshes, begun, switches, failed, torn>>

\* ensure_lcd_ready()
Init ==
  /\ shown = 0 /\ queued = 0
  /\ refresh_count = 0 /\ busy_until = [b \in Buffers |-> 0]
  /\ next_compose = 1 % N /\ last_presented = 0
  /\ pc = "idle" /\ buf = Invalid /\ screen = FALSE
  /\ refreshes = 0 /\ begun = 0 /\ switches = 0 /\ failed = 0 /\ torn = 0

----------------------------------------------------------------------------
Refresh ==
  /\ refreshes < MaxRefresh /\ refreshes' = refreshes + 1 /\ begun' = 0
  /\ shown' = queued
  /\ refresh_count' = IF Counted THEN refresh_count + 1 ELSE refresh_count
  /\ UNCHANGED <<queued, busy_until, next_compose, last_presented, pc, buf, screen, switches, failed, torn>>

Available(b) == IF Counted THEN refresh_count - busy_until[b] >= 0 ELSE b # last_presented

\* The search goes on from where it was found.
SelectStaying ==
  LET At(i) == (next_compose + i) % N
      tries == {i \in Buffers : Available(At(i))}
      rest  == Buffers \ {last_presented}
  IN /\ UNCHANGED next_compose
     /\ buf' = IF tries # {} THEN At(CHOOSE i \in tries : \A j \in tries : i <= j)
               ELSE CHOOSE b \in rest : \A c \in rest : b <= c

\* The first available one in the ring from next_compose on; else any that was not
\* presented last.
Select ==
  LET At(i) == (next_compose + i) % N
      tries == {i \in Buffers : Available(At(i))}
      first == CHOOSE i \in tries : \A j \in tries : i <= j
      rest  == Buffers \ {last_presented}
  IN IF tries # {}
     THEN buf' = At(first) /\ next_compose' = At(first + 1)
     ELSE /\ buf' = CHOOSE b \in rest : \A c \in rest : b <= c
          /\ UNCHANGED next_compose

\* mipi_display_frame_operation()
BeginFrame ==
  /\ pc = "idle" /\ begun < FramesPerRefresh
  /\ begun' = begun + 1
  /\ Select /\ pc' = "composing"
  /\ torn' = IF buf' \in {shown, queued} THEN torn + 1 ELSE torn
  /\ UNCHANGED <<shown, queued, refresh_count, busy_until, last_presented, screen,
                 refreshes, switches, failed>>

\* The frame is put together, or could not be.
Compose ==
  /\ pc = "composing"
  /\ \/ pc' = "composed" /\ UNCHANGED failed
     \/ failed < MaxFailed /\ failed' = failed + 1 /\ pc' = "idle"
  /\ UNCHANGED <<shown, queued, refresh_count, busy_until, next_compose, last_presented,
                 buf, screen, refreshes, begun, switches, torn>>

BusyUntil == refresh_count + 2

MarkBusy ==
  /\ pc = "composed" /\ pc' = "marked"
  /\ busy_until' = IF Counted THEN [busy_until EXCEPT ![buf] = BusyUntil] ELSE busy_until
  /\ UNCHANGED <<shown, queued, refresh_count, next_compose, last_presented, buf, screen,
                 refreshes, begun, switches, failed, torn>>

Present ==
  /\ pc = "marked" /\ pc' = "idle"
  /\ queued' = buf /\ last_presented' = buf
  /\ UNCHANGED <<shown, refresh_count, busy_until, next_compose, buf, screen,
                 refreshes, begun, switches, failed, torn>>

\* imx500_present_status_screen(), in the boot task, with the frames going on.
StatusScreen ==
  \/ /\ ~screen /\ switches < MaxSwitches
     /\ screen' = TRUE /\ switches' = switches + 1 /\ UNCHANGED queued
  \/ /\ screen
     /\ screen' = FALSE /\ queued' = 0 /\ UNCHANGED switches

Switch ==
  /\ StatusScreen
  /\ UNCHANGED <<shown, refresh_count, busy_until, next_compose, last_presented, pc, buf,
                 refreshes, begun, failed, torn>>

Next == Refresh \/ BeginFrame \/ Compose \/ MarkBusy \/ Present \/ Switch

Spec == Init /\ [][Next]_vars

----------------------------------------------------------------------------

Written(b) == (pc # "idle" /\ buf = b) \/ screen

\* Overlays are completed off-screen: the framebuffer being written is neither the one
\* on the screen nor the one that comes next.
OffScreen == \A b \in Buffers : Written(b) => b \notin {shown, queued}

\* A frame that cannot be composed, or a status screen, does not put the ring out of
\* step for good: each costs at most one frame composed where it is seen.
TornOnceEach == torn <= failed + switches
=============================================================================
