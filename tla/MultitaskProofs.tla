---------------------------- MODULE MultitaskProofs ---------------------------
(***************************************************************************)
(* Theorems about the ESP32-P4 example: about each of its components, for  *)
(* all values of its constants, and about the components as the runs set   *)
(* them up.                                                                *)
(***************************************************************************)
EXTENDS MCMultitask, Sequences, TLAPS

-----------------------------------------------------------------------------
(* The choice of the model                                                  *)

ModelOf(count, default, flash, debounce, most_presses, most_faults, most_unread) ==
  INSTANCE ModelSelection WITH
    Count <- count, Default <- default, Flash <- flash, Debounce <- debounce,
    MaxPresses <- most_presses, MaxFaults <- most_faults, MaxUnread <- most_unread

\* A slot that the start has passed is the active model's: in boot mode FLASH it has been written
\* since the program began, in boot mode DIRECT it is not used.
SlotInv(flash) ==
  /\ pc \in {"write_model", "writing_model", "write_info", "writing_info"} => flash
  /\ pc \in {"write_info", "writing_info"} => model = active
  /\ flash /\ pc = "open" => model = active /\ network_info = active
  /\ pc \in {"run", "save", "commit", "restart"} => opened = <<active, active>>

\* Every press is used once: for a switch that was made, one being saved, or the button that is
\* down or was last seen down.
Used == IF pc \in {"save", "commit"} THEN 1 ELSE 0
Seen == IF button \/ was_pressed THEN 1 ELSE 0

PressInv ==
  /\ presses \in Nat /\ switches \in Nat /\ button \in BOOLEAN /\ was_pressed \in BOOLEAN
  /\ pc \in {"save", "commit"} => ~was_pressed
  /\ switches + Used + Seen <= presses

ModelInv(flash) == SlotInv(flash) /\ PressInv

LEMMA ModelInit ==
  ASSUME NEW count, NEW default, NEW flash \in BOOLEAN, NEW debounce, NEW mp, NEW mf, NEW mu,
         ModelOf(count, default, flash, debounce, mp, mf, mu)!Init
  PROVE  ModelInv(flash)
<1>1. /\ pc = "select" /\ button = FALSE /\ was_pressed = FALSE
      /\ presses = 0 /\ switches = 0
  BY DEF ModelOf!Init
<1>2. Used = 0 /\ Seen = 0
  BY <1>1 DEF Used, Seen
<1>3. button \in BOOLEAN /\ was_pressed \in BOOLEAN
  BY <1>1
<1>4. switches + Used + Seen <= presses /\ presses \in Nat /\ switches \in Nat
  BY <1>1, <1>2
<1>5. PressInv
  BY <1>1, <1>3, <1>4 DEF PressInv
<1>. QED
  BY <1>1, <1>5 DEF ModelInv, SlotInv

LEMMA ModelSlots ==
  ASSUME NEW count, NEW default, NEW flash \in BOOLEAN, NEW debounce, NEW mp, NEW mf, NEW mu,
         ModelInv(flash), [ModelOf(count, default, flash, debounce, mp, mf, mu)!Next]_modelVars
  PROVE  SlotInv(flash)'
<1>1. CASE UNCHANGED modelVars
  BY <1>1 DEF ModelInv, SlotInv, modelVars
<1>2. CASE ModelOf(count, default, flash, debounce, mp, mf, mu)!Program
  BY <1>2 DEF ModelOf!Program, ModelOf!SelectActiveModel, ModelOf!ProgramFlashAssets,
    ModelOf!WriteSlot, ModelOf!OpenStream, ModelOf!PollButton, ModelOf!SetIndex, ModelOf!Commit,
    ModelOf!Restart, ModelOf!nvs, ModelOf!module, ModelOf!boot, ModelOf!bounds, ModelInv, SlotInv
<1>3. CASE ModelOf(count, default, flash, debounce, mp, mf, mu)!StartFails \/
           ModelOf(count, default, flash, debounce, mp, mf, mu)!SaveFails \/
           ModelOf(count, default, flash, debounce, mp, mf, mu)!PowerCut \/
           ModelOf(count, default, flash, debounce, mp, mf, mu)!PressOrRelease
  BY <1>3 DEF ModelOf!StartFails, ModelOf!SaveFails, ModelOf!PowerCut, ModelOf!PressOrRelease,
    ModelOf!Fault, ModelOf!nvs, ModelOf!module, ModelOf!boot, ModelOf!bounds, ModelInv, SlotInv
<1>. QED
  BY <1>1, <1>2, <1>3 DEF ModelOf!Next

LEMMA ModelPresses ==
  ASSUME NEW count, NEW default, NEW flash \in BOOLEAN, NEW debounce, NEW mp, NEW mf, NEW mu,
         ModelInv(flash), [ModelOf(count, default, flash, debounce, mp, mf, mu)!Next]_modelVars
  PROVE  PressInv'
<1>1. CASE UNCHANGED modelVars
  BY <1>1 DEF ModelInv, PressInv, Used, Seen, modelVars
<1>2. CASE ModelOf(count, default, flash, debounce, mp, mf, mu)!SelectActiveModel
  <2>1. /\ pc = "select" /\ pc' \in {"write_model", "open"} /\ was_pressed' = FALSE
        /\ UNCHANGED <<button, presses, switches>>
    BY <1>2 DEF ModelOf!SelectActiveModel
  <2>2. button \in BOOLEAN /\ was_pressed \in BOOLEAN
    BY DEF ModelInv, PressInv
  <2>3. presses \in Nat /\ switches \in Nat /\ switches + Used + Seen <= presses
    BY DEF ModelInv, PressInv
  <2>4. (switches + Used + Seen <= presses)'
    BY <2>1, <2>3 DEF Used, Seen
  <2>. QED
    BY <2>1, <2>2, <2>3, <2>4 DEF PressInv
<1>3. CASE ModelOf(count, default, flash, debounce, mp, mf, mu)!ProgramFlashAssets
  BY <1>3 DEF ModelOf!ProgramFlashAssets, ModelOf!WriteSlot, ModelOf!nvs, ModelOf!boot,
    ModelOf!bounds, ModelInv, PressInv, Used, Seen
<1>4. CASE ModelOf(count, default, flash, debounce, mp, mf, mu)!OpenStream \/
           ModelOf(count, default, flash, debounce, mp, mf, mu)!SetIndex \/
           ModelOf(count, default, flash, debounce, mp, mf, mu)!Restart
  BY <1>4 DEF ModelOf!OpenStream, ModelOf!SetIndex, ModelOf!Restart, ModelOf!nvs, ModelOf!boot,
    ModelOf!bounds, ModelInv, PressInv, Used, Seen
<1>5. CASE ModelOf(count, default, flash, debounce, mp, mf, mu)!PollButton
  BY <1>5 DEF ModelOf!PollButton, ModelOf!LongEnough, ModelOf!nvs, ModelOf!bounds,
    ModelInv, PressInv, Used, Seen
<1>6. CASE ModelOf(count, default, flash, debounce, mp, mf, mu)!Commit
  BY <1>6 DEF ModelOf!Commit, ModelOf!boot, ModelInv, PressInv, Used, Seen
<1>7. CASE ModelOf(count, default, flash, debounce, mp, mf, mu)!PressOrRelease
  BY <1>7 DEF ModelOf!PressOrRelease, ModelOf!nvs, ModelInv, PressInv, Used, Seen
<1>8. CASE ModelOf(count, default, flash, debounce, mp, mf, mu)!StartFails \/
           ModelOf(count, default, flash, debounce, mp, mf, mu)!SaveFails \/
           ModelOf(count, default, flash, debounce, mp, mf, mu)!PowerCut
  BY <1>8 DEF ModelOf!StartFails, ModelOf!SaveFails, ModelOf!PowerCut, ModelOf!Fault,
    ModelOf!nvs, ModelOf!boot, ModelInv, PressInv, Used, Seen
<1>. QED
  BY <1>1, <1>2, <1>3, <1>4, <1>5, <1>6, <1>7, <1>8 DEF ModelOf!Next, ModelOf!Program

\* The start, in either boot mode and whatever fails or loses power on the way, ends with the
\* module opened with the active model and that model's network info; and a press of the
\* button, however long, is at most one switch (select_active_model(), program_flash_assets(),
\* open_imx500_stream(), boot_button_task()).
THEOREM ModelIsActive ==
  ASSUME NEW count, NEW default, NEW flash \in BOOLEAN, NEW debounce, NEW mp, NEW mf, NEW mu
  PROVE  ModelOf(count, default, flash, debounce, mp, mf, mu)!Spec =>
           [](/\ ModelOf(count, default, flash, debounce, mp, mf, mu)!MatchingPair
              /\ ModelOf(count, default, flash, debounce, mp, mf, mu)!OnePressOneSwitch)
<1>1. ModelOf(count, default, flash, debounce, mp, mf, mu)!Init => ModelInv(flash)
  BY ModelInit
<1>2. ModelInv(flash) /\ [ModelOf(count, default, flash, debounce, mp, mf, mu)!Next]_modelVars
        => ModelInv(flash)'
  BY ModelSlots, ModelPresses DEF ModelInv
<1>3. ModelInv(flash) => /\ ModelOf(count, default, flash, debounce, mp, mf, mu)!MatchingPair
                         /\ ModelOf(count, default, flash, debounce, mp, mf, mu)!OnePressOneSwitch
  BY DEF ModelInv, SlotInv, PressInv, Used, Seen, ModelOf!MatchingPair, ModelOf!OnePressOneSwitch
<1>4. ModelInv(flash) /\ UNCHANGED ModelOf(count, default, flash, debounce, mp, mf, mu)!vars
        => ModelInv(flash)'
  BY DEF ModelOf!vars, ModelOf!nvs, ModelOf!module, ModelOf!boot, ModelOf!bounds,
    ModelInv, SlotInv, PressInv, Used, Seen
<1>. QED
  BY <1>1, <1>2, <1>3, <1>4, PTL DEF ModelOf!Spec

-----------------------------------------------------------------------------
(* The tasks around the results                                             *)

OverlayOf(last, parts, threshold, expiry, most_timeouts, most_switches) ==
  INSTANCE OverlayTasks WITH
    MaxFrame <- last, Parts <- parts, Threshold <- threshold, Expiry <- expiry,
    MaxTimeouts <- most_timeouts, MaxSwitches <- most_switches, switches <- announced

\* The text is of the result or a message, in the shared state and in the copy.
SummaryInv ==
  /\ summary \in Int /\ snapshot.summary \in Int
  /\ summary > 0 => summary = result
  /\ snapshot.summary > 0 => snapshot.summary = snapshot.result

\* The mask only gets newer: its parts are of frames that were read, a result's parts are
\* written before the result is published, and those that are copied come after the result.
MaskInv(parts) ==
  /\ frame \in Nat /\ result \in 0 .. frame /\ written \in 0 .. parts /\ copied \in 0 .. parts
  /\ mask \in [1 .. parts -> 0 .. frame]
  /\ mpc = "good" => written = 0
  /\ mpc \in {"post", "publish"} => \A i \in 1 .. written : mask[i] = frame
  /\ mpc = "publish" => written = parts
  /\ \A i \in 1 .. parts : result <= mask[i]
  /\ snapshot = [result |-> snapshot.result, summary |-> snapshot.summary, age |-> snapshot.age,
                 enabled |-> snapshot.enabled, mask |-> snapshot.mask]
  /\ snapshot.result \in 0 .. frame /\ snapshot.mask \in [1 .. parts -> 0 .. frame]
  /\ \A i \in 1 .. parts : snapshot.result <= mask[i]
  /\ dpc = "copy" => \A i \in 1 .. copied : snapshot.result <= snapshot.mask[i]
  /\ dpc # "copy" => \A i \in 1 .. parts : snapshot.result <= snapshot.mask[i]

OverlayInv(parts) == SummaryInv /\ MaskInv(parts)

LEMMA OverlayInit ==
  ASSUME NEW last, NEW parts \in Nat \ {0}, NEW threshold \in Nat \ {0}, NEW expiry \in Nat \ {0},
         NEW mt, NEW ms, OverlayOf(last, parts, threshold, expiry, mt, ms)!Init
  PROVE  OverlayInv(parts)
BY DEF OverlayOf!Init, OverlayOf!NoMask, OverlayOf!Waiting, OverlayInv, SummaryInv, MaskInv

LEMMA OverlayStep ==
  ASSUME NEW last, NEW parts \in Nat \ {0}, NEW threshold \in Nat \ {0}, NEW expiry \in Nat \ {0},
         NEW mt, NEW ms, OverlayInv(parts),
         [OverlayOf(last, parts, threshold, expiry, mt, ms)!Next]_overlayVars
  PROVE  OverlayInv(parts)'
<1>. USE DEF OverlayOf!TimesOut, OverlayOf!Section, OverlayOf!shared, OverlayOf!metadata,
  OverlayOf!display
<1>1. CASE UNCHANGED overlayVars
  BY <1>1 DEF overlayVars, OverlayInv, SummaryInv, MaskInv
<1>2. CASE OverlayOf(last, parts, threshold, expiry, mt, ms)!Tick
  BY <1>2 DEF OverlayOf!Tick, OverlayOf!Older, OverlayInv, SummaryInv, MaskInv
<1>3. CASE OverlayOf(last, parts, threshold, expiry, mt, ms)!Arm
  BY <1>3 DEF OverlayOf!Arm, OverlayInv, SummaryInv, MaskInv
<1>4. CASE OverlayOf(last, parts, threshold, expiry, mt, ms)!Read
  BY <1>4 DEF OverlayOf!Read, OverlayInv, SummaryInv, MaskInv
<1>5. CASE OverlayOf(last, parts, threshold, expiry, mt, ms)!CountZeroHeader
  BY <1>5 DEF OverlayOf!CountZeroHeader, OverlayOf!Error, OverlayInv, SummaryInv, MaskInv
<1>6. CASE OverlayOf(last, parts, threshold, expiry, mt, ms)!Recover
  BY <1>6 DEF OverlayOf!Recover, OverlayInv, SummaryInv, MaskInv
<1>7. CASE OverlayOf(last, parts, threshold, expiry, mt, ms)!Postprocess
  <2>1. UNCHANGED <<result, summary, frame, snapshot, copied, dpc>>
    BY <1>7 DEF OverlayOf!Postprocess
  <2>2. CASE written < parts /\ mask' = [mask EXCEPT ![written + 1] = frame]
             /\ written' = written + 1 /\ mpc' = mpc /\ mpc = "post"
    <3>1. written + 1 \in 1 .. parts /\ written' \in 0 .. parts
      BY <2>2 DEF OverlayInv, MaskInv
    <3>2. mask' \in [1 .. parts -> 0 .. frame] /\ \A i \in 1 .. parts : mask[i] <= mask'[i]
      BY <2>2, <3>1 DEF OverlayInv, MaskInv
    <3>3. \A i \in 1 .. written' : mask'[i] = frame
      BY <2>2, <3>1 DEF OverlayInv, MaskInv
    <3>4. \A i \in 1 .. parts : result <= mask'[i] /\ snapshot.result <= mask'[i]
      BY <3>2 DEF OverlayInv, MaskInv
    <3>. QED
      BY <2>1, <2>2, <3>1, <3>2, <3>3, <3>4 DEF OverlayInv, SummaryInv, MaskInv
  <2>3. CASE mpc' \in {"publish", "read"} /\ UNCHANGED <<mask, written>> /\ mpc = "post"
             /\ (mpc' = "publish" => written = parts)
    BY <2>1, <2>3 DEF OverlayInv, SummaryInv, MaskInv
  <2>. QED
    BY <1>7, <2>2, <2>3 DEF OverlayOf!Postprocess
<1>8. CASE OverlayOf(last, parts, threshold, expiry, mt, ms)!Publish
  BY <1>8 DEF OverlayOf!Publish, OverlayInv, SummaryInv, MaskInv
<1>9. CASE OverlayOf(last, parts, threshold, expiry, mt, ms)!Snapshot
  <2>1. UNCHANGED <<result, summary, frame, written, mask, mpc>> /\ copied' = 0 /\ dpc = "idle"
    BY <1>9 DEF OverlayOf!Snapshot
  <2>2. CASE UNCHANGED snapshot /\ dpc' = "draw"
    BY <2>1, <2>2 DEF OverlayInv, SummaryInv, MaskInv
  <2>3. CASE /\ snapshot' = [snapshot EXCEPT !.result = result, !.summary = summary, !.age = age,
                                             !.enabled = ai_overlay_enabled]
             /\ dpc' = "copy"
    <3>1. /\ snapshot'.result = result /\ snapshot'.summary = summary
          /\ snapshot'.mask = snapshot.mask
          /\ snapshot' = [result |-> snapshot'.result, summary |-> snapshot'.summary,
                          age |-> snapshot'.age, enabled |-> snapshot'.enabled,
                          mask |-> snapshot'.mask]
      BY <2>3 DEF OverlayInv, MaskInv
    <3>2. \A i \in 1 .. copied' : FALSE
      BY <2>1
    <3>. QED
      BY <2>1, <2>3, <3>1, <3>2 DEF OverlayInv, SummaryInv, MaskInv
  <2>. QED
    BY <1>9, <2>2, <2>3 DEF OverlayOf!Snapshot
<1>10. CASE OverlayOf(last, parts, threshold, expiry, mt, ms)!Copy
  <2>1. UNCHANGED <<result, summary, frame, written, mask, mpc>> /\ dpc = "copy"
    BY <1>10 DEF OverlayOf!Copy
  <2>2. CASE /\ copied < parts /\ copied' = copied + 1 /\ UNCHANGED dpc
             /\ snapshot' = [snapshot EXCEPT !.mask[copied + 1] = mask[copied + 1]]
    <3>1. copied + 1 \in 1 .. parts /\ copied' \in 0 .. parts
      BY <2>2 DEF OverlayInv, MaskInv
    <3>2. /\ snapshot'.result = snapshot.result /\ snapshot'.summary = snapshot.summary
          /\ snapshot'.mask = [snapshot.mask EXCEPT ![copied + 1] = mask[copied + 1]]
          /\ snapshot' = [result |-> snapshot'.result, summary |-> snapshot'.summary,
                          age |-> snapshot'.age, enabled |-> snapshot'.enabled,
                          mask |-> snapshot'.mask]
      BY <2>2 DEF OverlayInv, MaskInv
    <3>3. snapshot'.mask \in [1 .. parts -> 0 .. frame]
      BY <3>1, <3>2 DEF OverlayInv, MaskInv
    <3>4. \A i \in 1 .. copied' : snapshot.result <= snapshot'.mask[i]
      BY <2>1, <2>2, <3>1, <3>2 DEF OverlayInv, MaskInv
    <3>. QED
      BY <2>1, <2>2, <3>1, <3>2, <3>3, <3>4 DEF OverlayInv, SummaryInv, MaskInv
  <2>3. CASE ~(snapshot.result # 0 /\ copied < parts) /\ dpc' = "draw" /\ UNCHANGED <<snapshot, copied>>
    <3>1. \A i \in 1 .. parts : snapshot.result <= snapshot.mask[i]
      BY <2>1, <2>3 DEF OverlayInv, MaskInv
    <3>. QED
      BY <2>1, <2>3, <3>1 DEF OverlayInv, SummaryInv, MaskInv
  <2>. QED
    BY <1>10, <2>2, <2>3 DEF OverlayOf!Copy
<1>11. CASE OverlayOf(last, parts, threshold, expiry, mt, ms)!Draw
  BY <1>11 DEF OverlayOf!Draw, OverlayInv, SummaryInv, MaskInv
<1>12. CASE OverlayOf(last, parts, threshold, expiry, mt, ms)!Announce
  BY <1>12 DEF OverlayOf!Announce, OverlayOf!Saving, OverlayInv, SummaryInv, MaskInv
<1>. QED
  BY <1>1, <1>2, <1>3, <1>4, <1>5, <1>6, <1>7, <1>8, <1>9, <1>10, <1>11, <1>12
    DEF OverlayOf!Next, OverlayOf!Metadata, OverlayOf!Display

\* However the metadata task, the display callback and the button task interleave, and whoever
\* goes on without the mutex, the text that is drawn is of the result that is drawn or a message,
\* and no part of the mask drawn with a result is older than the result.
THEOREM OverlayIsOfOneResult ==
  ASSUME NEW last, NEW parts \in Nat \ {0}, NEW threshold \in Nat \ {0}, NEW expiry \in Nat \ {0},
         NEW mt, NEW ms
  PROVE  OverlayOf(last, parts, threshold, expiry, mt, ms)!Spec =>
           [](/\ OverlayOf(last, parts, threshold, expiry, mt, ms)!SummaryOfResult
              /\ OverlayOf(last, parts, threshold, expiry, mt, ms)!MaskNotOlder)
<1>1. OverlayOf(last, parts, threshold, expiry, mt, ms)!Init => OverlayInv(parts)
  BY OverlayInit
<1>2. OverlayInv(parts) /\ [OverlayOf(last, parts, threshold, expiry, mt, ms)!Next]_overlayVars
        => OverlayInv(parts)'
  BY OverlayStep
<1>3. OverlayInv(parts) /\ UNCHANGED OverlayOf(last, parts, threshold, expiry, mt, ms)!vars
        => OverlayInv(parts)'
  BY DEF OverlayOf!vars, OverlayOf!shared, OverlayOf!metadata, OverlayOf!display,
    OverlayInv, SummaryInv, MaskInv
<1>4. OverlayInv(parts) =>
        /\ OverlayOf(last, parts, threshold, expiry, mt, ms)!SummaryOfResult
        /\ OverlayOf(last, parts, threshold, expiry, mt, ms)!MaskNotOlder
  BY DEF OverlayInv, SummaryInv, MaskInv, OverlayOf!SummaryOfResult, OverlayOf!MaskNotOlder
<1>. QED
  BY <1>1, <1>2, <1>3, <1>4, PTL DEF OverlayOf!Spec

-----------------------------------------------------------------------------
(* The camera task                                                          *)

VideoOf(n, patient, faulty, tasks, last) == INSTANCE VideoStream WITH
  N <- n, Patient <- patient, Faulty <- faulty, MaxTasks <- tasks, MaxFrames <- last, pc <- task_pc

Running == {t \in DOMAIN task_pc : task_pc[t] \notin {"none", "ended"}}

VideoTyped(n, tasks) ==
  /\ queue \in Seq(0 .. n - 1) /\ filled \in Seq(0 .. n - 1)
  /\ content \in [0 .. n - 1 -> Nat] /\ frames \in Nat /\ index \in 0 .. n - 1
  /\ task_pc \in [1 .. tasks -> {"none", "receive", "operate", "free", "check", "ended"}]
  /\ looking \in [1 .. tasks -> [buffer : -1 .. n - 1, frame : Nat]]
  /\ client \in {"none", "open", "buffers", "started", "failed"}
  /\ late \in Nat /\ asked \subseteq 1 .. tasks

\* A buffer is queued or filled, and once.
Waits(b) == \E i \in DOMAIN queue : queue[i] = b
Taken(b) == \E i \in DOMAIN filled : filled[i] = b

BuffersInv ==
  /\ \A i, j \in DOMAIN queue : queue[i] = queue[j] => i = j
  /\ \A i, j \in DOMAIN filled : filled[i] = filled[j] => i = j
  /\ \A i \in DOMAIN queue, j \in DOMAIN filled : queue[i] # filled[j]

\* One task runs at a time, and none before the client has started one; the buffer it has taken
\* is neither queued nor filled, and what the callback looks at is that buffer.
HoldInv(tasks) ==
  /\ \A s, t \in Running : s = t
  /\ client \in {"none", "open", "buffers"} => Running = {}
  /\ \A t \in Running : task_pc[t] \in {"operate", "free"} => ~Waits(index) /\ ~Taken(index)
  /\ \A t \in 1 .. tasks : looking[t].buffer # -1 \/ looking[t].frame # 0 =>
       /\ task_pc[t] = "operate"
       /\ looking[t].buffer = index /\ looking[t].frame = content[index]

\* A turn in which the callback has not begun.
BeforeLook(t) ==
  task_pc[t] = "receive" \/ (task_pc[t] = "operate" /\ looking[t] = [buffer |-> -1, frame |-> 0])

\* The wish to stop is of the task that runs, and goes with it.
StopInv(tasks) ==
  /\ video_task_delete => Running # {}
  /\ \A t \in Running : t \in asked <=> video_task_delete
  /\ \A t \in 1 .. tasks : task_pc[t] = "none" => t \notin asked
  /\ \A t \in 1 .. tasks : task_pc[t] = "ended" => t \in asked
  /\ late <= 1
  /\ \A t \in Running : t \in asked /\ BeforeLook(t) => late = 0

\* With a driver that does as it is told the device is open once the client has opened it, and
\* streams while a task runs.
SoundInv ==
  /\ ~aborted
  /\ client \in {"none", "open", "buffers", "started"}
  /\ client # "none" => fd
  /\ on => Running # {}

VideoInv(n, faulty, tasks) ==
  /\ VideoTyped(n, tasks) /\ BuffersInv /\ HoldInv(tasks) /\ StopInv(tasks)
  /\ ~faulty => SoundInv

\* The buffers as they are requested: each is queued once.
LEMMA AllQueued ==
  ASSUME NEW n \in Nat
  PROVE  /\ [i \in 1 .. n |-> i - 1] \in Seq(0 .. n - 1)
         /\ DOMAIN [i \in 1 .. n |-> i - 1] = 1 .. n
<1>. DEFINE all == [i \in 1 .. n |-> i - 1]
<1>1. all \in [1 .. n -> 0 .. n - 1]
  OBVIOUS
<1>. QED
  BY <1>1

\* What is left of a sequence behind its head, and with an element more.
LEMMA TailFacts ==
  ASSUME NEW S, NEW q \in Seq(S), q # <<>>
  PROVE  /\ Head(q) = q[1] /\ q[1] \in S /\ 1 \in DOMAIN q /\ Tail(q) \in Seq(S)
         /\ \A i \in DOMAIN Tail(q) : Tail(q)[i] = q[i + 1]
         /\ \A i \in DOMAIN Tail(q) : i \in Int /\ i + 1 \in DOMAIN q /\ i + 1 # 1
<1>1. Len(q) \in Nat /\ Len(q) # 0 /\ DOMAIN q = 1 .. Len(q)
  OBVIOUS
<1>2. Head(q) = q[1] /\ q[1] \in S /\ 1 \in DOMAIN q
  BY <1>1
<1>3. Tail(q) \in Seq(S) /\ DOMAIN Tail(q) = 1 .. Len(q) - 1
  BY <1>1
<1>4. \A i \in DOMAIN Tail(q) : Tail(q)[i] = q[i + 1]
  BY <1>1, <1>3
<1>5. \A i \in DOMAIN Tail(q) : i \in Int /\ i + 1 \in DOMAIN q /\ i + 1 # 1
  BY <1>1, <1>3
<1>. QED
  BY <1>2, <1>3, <1>4, <1>5, Zenon

LEMMA AppendFacts ==
  ASSUME NEW S, NEW q \in Seq(S), NEW e \in S
  PROVE  /\ Append(q, e) \in Seq(S)
         /\ \A i \in DOMAIN Append(q, e) :
              \/ i \in DOMAIN q /\ Append(q, e)[i] = q[i]
              \/ i = Len(q) + 1 /\ Append(q, e)[i] = e
<1>1. Len(q) \in Nat /\ DOMAIN q = 1 .. Len(q)
  OBVIOUS
<1>2. Append(q, e) \in Seq(S) /\ DOMAIN Append(q, e) = 1 .. Len(q) + 1
  BY <1>1
<1>3. \A i \in DOMAIN Append(q, e) : i \in DOMAIN q \/ i = Len(q) + 1
  BY <1>1, <1>2
<1>4. \A i \in DOMAIN q : Append(q, e)[i] = q[i]
  BY <1>1
<1>5. Append(q, e)[Len(q) + 1] = e
  BY <1>1
<1>6. ASSUME NEW i \in DOMAIN Append(q, e)
      PROVE  (i \in DOMAIN q /\ Append(q, e)[i] = q[i]) \/ (i = Len(q) + 1 /\ Append(q, e)[i] = e)
  <2>1. CASE i \in DOMAIN q
    BY <1>4, <2>1, Zenon
  <2>2. CASE i = Len(q) + 1
    BY <1>5, <2>2, Zenon
  <2>. QED
    BY <1>3, <2>1, <2>2, Zenon
<1>. QED
  BY <1>2, <1>6, Zenon

\* What the driver holds of the buffers, new or not.
BuffersFit(n, b) ==
  /\ b.queue \in Seq(0 .. n - 1) /\ b.filled \in Seq(0 .. n - 1)
  /\ queue' = b.queue /\ filled' = b.filled => BuffersInv'

LEMMA BuffersRequested ==
  ASSUME NEW n \in Nat \ {0}, NEW patient, patient = TRUE, NEW faulty \in BOOLEAN, NEW tasks \in Nat,
         NEW last \in Nat, VideoInv(n, faulty, tasks), NEW b,
         b \in {VideoOf(n, patient, faulty, tasks, last)!Anew, VideoOf(n, patient, faulty, tasks, last)!Same}
  PROVE  BuffersFit(n, b)
<1>1. CASE b = VideoOf(n, patient, faulty, tasks, last)!Anew
  <2>1. /\ b.queue = [i \in 1 .. n |-> i - 1] /\ b.filled = <<>>
        /\ b.queue \in Seq(0 .. n - 1) /\ DOMAIN b.queue = 1 .. n /\ DOMAIN b.filled = {}
    BY <1>1, AllQueued DEF VideoOf!Anew
  <2>. QED
    BY <2>1 DEF BuffersFit, BuffersInv
<1>2. CASE b = VideoOf(n, patient, faulty, tasks, last)!Same
  BY <1>2 DEF VideoInv, VideoTyped, BuffersInv, BuffersFit, VideoOf!Same
<1>. QED
  BY <1>1, <1>2

\* Where the buffers are when a task is started, or could not be.
LEMMA BuffersStarted ==
  ASSUME NEW n \in Nat \ {0}, NEW patient, patient = TRUE, NEW faulty \in BOOLEAN, NEW tasks \in Nat,
         NEW last \in Nat, VideoInv(n, faulty, tasks), NEW b, BuffersFit(n, b),
         VideoOf(n, patient, faulty, tasks, last)!StartTask(b)
  PROVE  queue' \in Seq(0 .. n - 1) /\ filled' \in Seq(0 .. n - 1) /\ BuffersInv'
<1>1. CASE queue' = b.queue /\ filled' = b.filled
  BY <1>1 DEF BuffersFit
<1>2. CASE queue' = <<>> /\ filled' = <<>>
  BY <1>2 DEF BuffersInv
<1>. QED
  BY <1>1, <1>2 DEF VideoOf!StartTask, VideoOf!Holds

LEMMA VideoInit ==
  ASSUME NEW n \in Nat \ {0}, NEW patient, patient = TRUE, NEW faulty \in BOOLEAN, NEW tasks \in Nat,
         NEW last \in Nat, VideoOf(n, patient, faulty, tasks, last)!Init
  PROVE  VideoInv(n, faulty, tasks)
<1>. USE DEF VideoOf!Init, VideoOf!Buffers,
  VideoOf!record, VideoOf!tasks, VideoOf!driver, VideoOf!Tasks, VideoOf!Live, VideoOf!Nothing
<1>1. VideoTyped(n, tasks)
  BY DEF VideoTyped
<1>2. BuffersInv
  BY DEF VideoTyped, BuffersInv, HoldInv, Running, Waits, Taken
<1>3. HoldInv(tasks)
  BY DEF VideoTyped, BuffersInv, HoldInv, Running, Waits, Taken
<1>4. StopInv(tasks)
  BY DEF VideoTyped, HoldInv, StopInv, Running, BeforeLook
<1>5. ~faulty => SoundInv
  BY DEF VideoTyped, HoldInv, SoundInv, Running, Waits, Taken, StopInv
<1>. QED
  BY <1>1, <1>2, <1>3, <1>4, <1>5 DEF VideoInv

LEMMA VideoOpen ==
  ASSUME NEW n \in Nat \ {0}, NEW patient, patient = TRUE, NEW faulty \in BOOLEAN, NEW tasks \in Nat,
         NEW last \in Nat, VideoInv(n, faulty, tasks),
         VideoOf(n, patient, faulty, tasks, last)!Open
  PROVE  VideoInv(n, faulty, tasks)'
<1>. USE DEF VideoOf!Open,
  VideoOf!record, VideoOf!tasks, VideoOf!driver, VideoOf!Tasks, VideoOf!Live, VideoOf!Nothing
<1>1. VideoTyped(n, tasks)'
  BY DEF VideoInv, VideoTyped
<1>2. BuffersInv'
  BY DEF VideoInv, VideoTyped, BuffersInv, HoldInv, Running, Waits, Taken
<1>3. HoldInv(tasks)'
  BY DEF VideoInv, VideoTyped, BuffersInv, HoldInv, Running, Waits, Taken
<1>4. StopInv(tasks)'
  BY DEF VideoInv, VideoTyped, HoldInv, StopInv, Running, BeforeLook
<1>5. ~faulty => SoundInv'
  BY DEF VideoInv, VideoTyped, HoldInv, SoundInv, Running, Waits, Taken, StopInv
<1>. QED
  BY <1>1, <1>2, <1>3, <1>4, <1>5 DEF VideoInv

LEMMA VideoSetBufs ==
  ASSUME NEW n \in Nat \ {0}, NEW patient, patient = TRUE, NEW faulty \in BOOLEAN, NEW tasks \in Nat,
         NEW last \in Nat, VideoInv(n, faulty, tasks),
         VideoOf(n, patient, faulty, tasks, last)!SetBufs
  PROVE  VideoInv(n, faulty, tasks)'
<1>. USE DEF VideoOf!SetBufs, VideoOf!RequestBuffers, VideoOf!Holds,
  VideoOf!record, VideoOf!tasks, VideoOf!driver, VideoOf!Tasks, VideoOf!Live, VideoOf!Nothing
<1>a. queue' \in Seq(0 .. n - 1) /\ filled' \in Seq(0 .. n - 1) /\ BuffersInv'
  <2>1. PICK b \in {VideoOf(n, patient, faulty, tasks, last)!Anew, VideoOf(n, patient, faulty, tasks, last)!Same} :
          queue' = b.queue /\ filled' = b.filled
    OBVIOUS
  <2>2. BuffersFit(n, b)
    BY BuffersRequested
  <2>. QED
    BY <2>1, <2>2 DEF BuffersFit
<1>1. VideoTyped(n, tasks)'
  BY <1>a DEF VideoInv, VideoTyped
<1>2. BuffersInv'
  BY <1>a
<1>3. HoldInv(tasks)'
  BY DEF VideoInv, VideoTyped, BuffersInv, HoldInv, Running, Waits, Taken
<1>4. StopInv(tasks)'
  BY DEF VideoInv, VideoTyped, HoldInv, StopInv, Running, BeforeLook
<1>5. ~faulty => SoundInv'
  BY DEF VideoInv, VideoTyped, HoldInv, SoundInv, Running, Waits, Taken, StopInv
<1>. QED
  BY <1>1, <1>2, <1>3, <1>4, <1>5 DEF VideoInv

LEMMA VideoStart ==
  ASSUME NEW n \in Nat \ {0}, NEW patient, patient = TRUE, NEW faulty \in BOOLEAN, NEW tasks \in Nat,
         NEW last \in Nat, VideoInv(n, faulty, tasks),
         VideoOf(n, patient, faulty, tasks, last)!Start
  PROVE  VideoInv(n, faulty, tasks)'
<1>a. queue' \in Seq(0 .. n - 1) /\ filled' \in Seq(0 .. n - 1) /\ BuffersInv'
  <2>1. VideoOf(n, patient, faulty, tasks, last)!StartTask(VideoOf(n, patient, faulty, tasks, last)!Same)
    BY DEF VideoOf!Start
  <2>2. BuffersFit(n, VideoOf(n, patient, faulty, tasks, last)!Same)
    BY BuffersRequested
  <2>. QED
    BY <2>1, <2>2, BuffersStarted
<1>b. \/ UNCHANGED task_pc
      \/ \E t \in 1 .. tasks : /\ task_pc[t] = "none" /\ \A s \in 1 .. tasks : s < t => task_pc[s] # "none"
                               /\ task_pc' = [task_pc EXCEPT ![t] = "receive"]
  BY DEF VideoOf!Start, VideoOf!StartTask, VideoOf!Tasks
<1>. USE DEF VideoOf!Start, VideoOf!StartTask,
  VideoOf!record, VideoOf!tasks, VideoOf!driver, VideoOf!Tasks, VideoOf!Live, VideoOf!Nothing
<1>1. VideoTyped(n, tasks)'
  BY <1>a DEF VideoInv, VideoTyped
<1>2. BuffersInv'
  BY <1>a
<1>3. HoldInv(tasks)'
  <2>1. Running = {}
    BY DEF VideoInv, HoldInv
  <2>2. Running' = {} \/ \E t \in 1 .. tasks : Running' = {t} /\ task_pc'[t] = "receive"
    <3>1. CASE UNCHANGED task_pc
      BY <2>1, <3>1 DEF Running
    <3>2. ASSUME NEW t \in 1 .. tasks, task_pc' = [task_pc EXCEPT ![t] = "receive"]
          PROVE  Running' = {t} /\ task_pc'[t] = "receive"
      BY <2>1, <3>2 DEF VideoInv, VideoTyped, Running
    <3>. QED
      BY <1>b, <3>1, <3>2
  <2>3. \A t \in 1 .. tasks : task_pc[t] # "operate"
    BY <2>1 DEF VideoInv, VideoTyped, Running
  <2>. QED
    BY <2>2, <2>3 DEF VideoInv, VideoTyped, HoldInv
<1>4. StopInv(tasks)'
  <2>1. UNCHANGED <<video_task_delete, asked, late>>
    OBVIOUS
  <2>2. CASE UNCHANGED task_pc
    BY <2>1, <2>2 DEF VideoInv, VideoTyped, StopInv, Running, BeforeLook
  <2>3. ASSUME NEW t \in 1 .. tasks, task_pc[t] = "none", task_pc' = [task_pc EXCEPT ![t] = "receive"]
        PROVE  StopInv(tasks)'
    <3>1. \A s \in 1 .. tasks : task_pc'[s] = IF s = t THEN "receive" ELSE task_pc[s]
      BY <2>3 DEF VideoInv, VideoTyped
    <3>2. Running = {} /\ ~video_task_delete
      BY DEF VideoInv, HoldInv, StopInv
    <3>3. Running' = {t}
      BY <2>3, <3>1, <3>2 DEF VideoInv, VideoTyped, Running
    <3>4. t \notin asked /\ late <= 1
      BY <2>3 DEF VideoInv, StopInv
    <3>. QED
      <4>1. \A s \in 1 .. tasks : (task_pc'[s] = "none" => s \notin asked') /\ (task_pc'[s] = "ended" => s \in asked')
        BY <2>1, <3>1 DEF VideoInv, StopInv
      <4>2. ~video_task_delete' /\ t \notin asked' /\ late' <= 1
        BY <2>1, <3>2, <3>4
      <4>. QED
        BY <3>3, <4>1, <4>2 DEF StopInv
  <2>. QED
    BY <1>b, <2>2, <2>3
<1>5. ~faulty => SoundInv'
  <2>. SUFFICES ASSUME ~faulty PROVE SoundInv'
    OBVIOUS
  <2>1. fd /\ ~aborted
    BY DEF VideoInv, SoundInv
  <2>2. fd' /\ ~aborted' /\ client' = "started"
    BY <2>1
  <2>3. \E t \in 1 .. tasks : task_pc' = [task_pc EXCEPT ![t] = "receive"]
    OBVIOUS
  <2>4. Running' # {}
    BY <2>3 DEF VideoInv, VideoTyped, Running
  <2>. QED
    BY <2>2, <2>4 DEF SoundInv
<1>. QED
  BY <1>1, <1>2, <1>3, <1>4, <1>5 DEF VideoInv

LEMMA VideoStop ==
  ASSUME NEW n \in Nat \ {0}, NEW patient, patient = TRUE, NEW faulty \in BOOLEAN, NEW tasks \in Nat,
         NEW last \in Nat, VideoInv(n, faulty, tasks),
         VideoOf(n, patient, faulty, tasks, last)!Stop
  PROVE  VideoInv(n, faulty, tasks)'
<1>. USE DEF VideoOf!Stop,
  VideoOf!record, VideoOf!tasks, VideoOf!driver, VideoOf!Tasks, VideoOf!Live, VideoOf!Nothing
<1>1. VideoTyped(n, tasks)'
  BY DEF VideoInv, VideoTyped
<1>2. BuffersInv'
  BY DEF VideoInv, VideoTyped, BuffersInv, HoldInv, Running, Waits, Taken
<1>3. HoldInv(tasks)'
  BY DEF VideoInv, VideoTyped, BuffersInv, HoldInv, Running, Waits, Taken
<1>4. StopInv(tasks)'
  BY DEF VideoInv, VideoTyped, HoldInv, StopInv, Running, BeforeLook
<1>5. ~faulty => SoundInv'
  BY DEF VideoInv, VideoTyped, HoldInv, SoundInv, Running, Waits, Taken, StopInv
<1>. QED
  BY <1>1, <1>2, <1>3, <1>4, <1>5 DEF VideoInv

LEMMA VideoRestart ==
  ASSUME NEW n \in Nat \ {0}, NEW patient, patient = TRUE, NEW faulty \in BOOLEAN, NEW tasks \in Nat,
         NEW last \in Nat, VideoInv(n, faulty, tasks),
         VideoOf(n, patient, faulty, tasks, last)!Restart
  PROVE  VideoInv(n, faulty, tasks)'
<1>. DEFINE anew == VideoOf(n, patient, faulty, tasks, last)!Anew
            same == VideoOf(n, patient, faulty, tasks, last)!Same
<1>p. PICK b \in {anew, same} : VideoOf(n, patient, faulty, tasks, last)!RequestBuffers(b) /\ VideoOf(n, patient, faulty, tasks, last)!StartTask(b)
  BY DEF VideoOf!Restart
<1>q. queue' \in Seq(0 .. n - 1) /\ filled' \in Seq(0 .. n - 1) /\ BuffersInv'
  <2>1. BuffersFit(n, b)
    BY BuffersRequested
  <2>. QED
    BY <1>p, <2>1, BuffersStarted
<1>. USE DEF VideoOf!Restart, VideoOf!RequestBuffers, VideoOf!StartTask,
  VideoOf!record, VideoOf!tasks, VideoOf!driver, VideoOf!Tasks, VideoOf!Live, VideoOf!Nothing
<1>a. Running = {}
  BY DEF VideoInv, VideoTyped, Running
<1>b. \/ Running' = {}
      \/ \E t \in 1 .. tasks : /\ Running' = {t} /\ task_pc[t] = "none"
                               /\ task_pc' = [task_pc EXCEPT ![t] = "receive"]
  <2>1. CASE UNCHANGED task_pc
    BY <1>a, <2>1 DEF Running
  <2>2. ASSUME NEW t \in 1 .. tasks, task_pc' = [task_pc EXCEPT ![t] = "receive"]
        PROVE  Running' = {t}
    BY <1>a, <2>2 DEF VideoInv, VideoTyped, Running
  <2>. QED
    BY <2>1, <2>2
<1>f. \/ UNCHANGED task_pc
      \/ \E t \in 1 .. tasks : task_pc[t] = "none" /\ task_pc' = [task_pc EXCEPT ![t] = "receive"]
  BY <1>p
<1>c. \A t \in 1 .. tasks : task_pc[t] # "operate"
  BY <1>a DEF VideoInv, VideoTyped, Running
<1>d. /\ queue' \in Seq(0 .. n - 1) /\ filled' \in Seq(0 .. n - 1) /\ BuffersInv'
      /\ client' \in {"started", "failed"}
      /\ UNCHANGED <<content, frames, index, video_task_delete, looking, asked, aborted, late>>
  BY <1>p, <1>q
<1>e. task_pc' \in [1 .. tasks -> {"none", "receive", "operate", "free", "check", "ended"}]
  BY DEF VideoInv, VideoTyped
<1>1. VideoTyped(n, tasks)'
  BY <1>d, <1>e DEF VideoInv, VideoTyped
<1>2. BuffersInv'
  BY <1>d
<1>3. HoldInv(tasks)'
  <2>1. \A t \in Running' : task_pc'[t] = "receive"
    <3>1. ASSUME NEW t \in 1 .. tasks, Running' = {t}, task_pc' = [task_pc EXCEPT ![t] = "receive"]
          PROVE  task_pc'[t] = "receive"
      BY <3>1 DEF VideoInv, VideoTyped
    <3>2. CASE Running' = {}
      BY <3>2
    <3>3. CASE \E t \in 1 .. tasks : Running' = {t} /\ task_pc' = [task_pc EXCEPT ![t] = "receive"]
      <4>1. PICK t \in 1 .. tasks : Running' = {t} /\ task_pc' = [task_pc EXCEPT ![t] = "receive"]
        BY <3>3
      <4>2. task_pc'[t] = "receive"
        BY <3>1, <4>1
      <4>. QED
        BY <4>1, <4>2
    <3>. QED
      BY <1>b, <3>2, <3>3
  <2>2. \A s, t \in Running' : s = t
    BY <1>b
  <2>3. \A t \in 1 .. tasks : looking[t].buffer = -1 /\ looking[t].frame = 0
    BY <1>c DEF VideoInv, HoldInv
  <2>. QED
    BY <1>d, <2>1, <2>2, <2>3 DEF HoldInv
<1>4. StopInv(tasks)'
  <2>1. UNCHANGED <<video_task_delete, asked, late>>
    OBVIOUS
  <2>2. CASE UNCHANGED task_pc
    BY <2>1, <2>2 DEF VideoInv, VideoTyped, StopInv, Running, BeforeLook
  <2>3. ASSUME NEW t \in 1 .. tasks, task_pc[t] = "none", task_pc' = [task_pc EXCEPT ![t] = "receive"]
        PROVE  StopInv(tasks)'
    <3>1. \A s \in 1 .. tasks : task_pc'[s] = IF s = t THEN "receive" ELSE task_pc[s]
      BY <2>3 DEF VideoInv, VideoTyped
    <3>. QED
      BY <2>1, <2>3, <3>1 DEF VideoInv, VideoTyped, StopInv, Running, BeforeLook
  <2>. QED
    BY <1>f, <2>2, <2>3
<1>5. ~faulty => SoundInv'
  <2>. SUFFICES ASSUME ~faulty PROVE SoundInv'
    OBVIOUS
  <2>1. ~on /\ fd /\ ~aborted
    BY <1>a DEF VideoInv, SoundInv
  <2>2. fd'
    BY <2>1
  <2>3. on' /\ client' = "started"
    BY <2>2
  <2>4. ~aborted'
    BY <2>1
  <2>5. Running' # {}
    BY <1>a DEF VideoInv, VideoTyped, Running
  <2>. QED
    BY <2>2, <2>3, <2>4, <2>5 DEF SoundInv
<1>. QED
  BY <1>1, <1>2, <1>3, <1>4, <1>5 DEF VideoInv

LEMMA VideoFill ==
  ASSUME NEW n \in Nat \ {0}, NEW patient, patient = TRUE, NEW faulty \in BOOLEAN, NEW tasks \in Nat,
         NEW last \in Nat, VideoInv(n, faulty, tasks),
         VideoOf(n, patient, faulty, tasks, last)!Fill
  PROVE  VideoInv(n, faulty, tasks)'
<1>. USE DEF VideoOf!Fill,
  VideoOf!record, VideoOf!tasks, VideoOf!driver, VideoOf!Tasks, VideoOf!Live, VideoOf!Nothing
<1>a. /\ Len(queue) > 0 /\ Head(queue) = queue[1] /\ queue[1] \in 0 .. n - 1
      /\ DOMAIN queue = 1 .. Len(queue) /\ Len(queue) \in Nat
      /\ DOMAIN filled = 1 .. Len(filled) /\ Len(filled) \in Nat
  BY DEF VideoInv, VideoTyped
<1>p. queue \in Seq(0 .. n - 1) /\ filled \in Seq(0 .. n - 1)
  BY DEF VideoInv, VideoTyped
<1>q. queue' = Tail(queue) /\ filled' = Append(filled, queue[1])
  BY <1>a
<1>b. /\ queue' \in Seq(0 .. n - 1) /\ filled' \in Seq(0 .. n - 1)
      /\ DOMAIN queue' = 1 .. Len(queue) - 1 /\ DOMAIN filled' = 1 .. Len(filled) + 1
  BY <1>a, <1>p, <1>q
<1>r. \A i \in DOMAIN queue' : queue'[i] = queue[i + 1] /\ i + 1 \in DOMAIN queue
  BY <1>a, <1>p, <1>q
<1>s. /\ \A i \in DOMAIN filled : filled'[i] = filled[i]
      /\ filled'[Len(filled) + 1] = queue[1]
  BY <1>a, <1>p, <1>q
<1>c. /\ \A i \in DOMAIN queue' : queue'[i] = queue[i + 1] /\ i + 1 \in DOMAIN queue
      /\ \A i \in DOMAIN filled : filled'[i] = filled[i]
      /\ filled'[Len(filled) + 1] = queue[1]
  BY <1>r, <1>s
<1>1. VideoTyped(n, tasks)'
  <2>1. content' \in [0 .. n - 1 -> Nat] /\ frames' \in Nat
    BY <1>a DEF VideoInv, VideoTyped
  <2>. QED
    BY <1>b, <2>1 DEF VideoInv, VideoTyped
<1>2. BuffersInv'
  <2>1. \A i, j \in DOMAIN queue' : queue'[i] = queue'[j] => i = j
    BY <1>a, <1>b, <1>c DEF VideoInv, BuffersInv
  <2>2. \A i \in DOMAIN filled' : i \in DOMAIN filled \/ i = Len(filled) + 1
    BY <1>a, <1>b
  <2>3. \A i, j \in DOMAIN filled' : filled'[i] = filled'[j] => i = j
    BY <1>a, <1>c, <2>2 DEF VideoInv, BuffersInv
  <2>4. \A i \in DOMAIN queue' : i + 1 # 1
    BY <1>a, <1>b
  <2>5. \A i \in DOMAIN queue', j \in DOMAIN filled' : queue'[i] # filled'[j]
    BY <1>a, <1>c, <2>2, <2>4 DEF VideoInv, BuffersInv
  <2>. QED
    BY <2>1, <2>3, <2>5 DEF BuffersInv
<1>3. HoldInv(tasks)'
  <2>7. \A i \in DOMAIN filled' : i \in DOMAIN filled \/ i = Len(filled) + 1
    BY <1>a, <1>b
  <2>8. \A b : Waits(b)' => Waits(b)
    BY <1>c DEF Waits
  <2>9. \A b : Taken(b)' => Waits(b) \/ Taken(b)
    BY <1>a, <1>c, <2>7 DEF Waits, Taken
  <2>1. \A b : (Waits(b)' \/ Taken(b)') => Waits(b) \/ Taken(b)
    BY <2>8, <2>9
  <2>2. Waits(queue[1])
    BY <1>a DEF Waits
  <2>3. UNCHANGED <<Running, task_pc, client, looking, index>>
    BY DEF Running
  <2>4. \A t \in 1 .. tasks : task_pc[t] = "operate" => t \in Running
    BY DEF VideoInv, VideoTyped, Running
  <2>5. \A b \in 0 .. n - 1 : b # queue[1] => content'[b] = content[b]
    BY <1>a DEF VideoInv, VideoTyped
  <2>6. ASSUME NEW t \in 1 .. tasks, task_pc[t] = "operate" PROVE content'[index] = content[index]
    BY <2>2, <2>4, <2>5, <2>6 DEF VideoInv, VideoTyped, HoldInv
  <2>. QED
    BY <2>1, <2>3, <2>6 DEF VideoInv, HoldInv
<1>4. StopInv(tasks)'
  BY DEF VideoInv, VideoTyped, HoldInv, StopInv, Running, BeforeLook
<1>5. ~faulty => SoundInv'
  BY DEF VideoInv, VideoTyped, HoldInv, SoundInv, Running, Waits, Taken, StopInv
<1>. QED
  BY <1>1, <1>2, <1>3, <1>4, <1>5 DEF VideoInv

LEMMA VideoReceive ==
  ASSUME NEW n \in Nat \ {0}, NEW patient, patient = TRUE, NEW faulty \in BOOLEAN, NEW tasks \in Nat,
         NEW last \in Nat, VideoInv(n, faulty, tasks),
         NEW t \in 1 .. tasks,
         VideoOf(n, patient, faulty, tasks, last)!Receive(t)
  PROVE  VideoInv(n, faulty, tasks)'
<1>. USE DEF VideoOf!Receive, VideoOf!After, VideoOf!Range,
  VideoOf!record, VideoOf!tasks, VideoOf!driver, VideoOf!Tasks, VideoOf!Live, VideoOf!Nothing
<1>a. /\ t \in Running /\ \A s \in Running : s = t
      /\ task_pc \in [1 .. tasks -> {"none", "receive", "operate", "free", "check", "ended"}]
  BY DEF VideoInv, VideoTyped, HoldInv, Running
<1>b. \/ UNCHANGED task_pc
      \/ \E x \in {"receive", "operate", "free", "check"} : task_pc' = [task_pc EXCEPT ![t] = x]
  OBVIOUS
<1>c. Running' = Running
  <2>1. CASE UNCHANGED task_pc
    BY <2>1 DEF Running
  <2>2. ASSUME NEW x \in {"receive", "operate", "free", "check"},
               task_pc' = [task_pc EXCEPT ![t] = x]
        PROVE  Running' = Running
    BY <1>a, <2>2 DEF Running
  <2>. QED
    BY <1>b, <2>1, <2>2
<1>d. \A s \in 1 .. tasks : looking[s].buffer = -1 /\ looking[s].frame = 0
  BY <1>a DEF VideoInv, HoldInv, Running
<1>e. \/ UNCHANGED <<filled, task_pc>> /\ index' \in {0, index} /\ (~fd \/ UNCHANGED aborted)
      \/ /\ UNCHANGED aborted /\ filled # <<>> /\ index' = Head(filled) /\ filled' = Tail(filled)
         /\ task_pc' = [task_pc EXCEPT ![t] = "operate"]
  OBVIOUS
<1>f. filled # <<>> =>
        /\ Head(filled) = filled[1] /\ filled[1] \in 0 .. n - 1
        /\ 1 \in DOMAIN filled /\ Tail(filled) \in Seq(0 .. n - 1)
        /\ \A i \in DOMAIN Tail(filled) : Tail(filled)[i] = filled[i + 1]
        /\ \A i \in DOMAIN Tail(filled) : i \in Int /\ i + 1 \in DOMAIN filled /\ i + 1 # 1
  <2>1. filled \in Seq(0 .. n - 1)
    BY DEF VideoInv, VideoTyped
  <2>. QED
    BY <2>1, TailFacts
<1>g. UNCHANGED <<fd, on, queue, content, frames, client, video_task_delete, looking, asked, late>>
  OBVIOUS
<1>1. VideoTyped(n, tasks)'
  <2>1. /\ queue \in Seq(0 .. n - 1) /\ filled \in Seq(0 .. n - 1)
        /\ index \in 0 .. n - 1 /\ 0 \in 0 .. n - 1
    BY DEF VideoInv, VideoTyped
  <2>2. index' \in 0 .. n - 1 /\ filled' \in Seq(0 .. n - 1)
    BY <1>e, <1>f, <2>1
  <2>3. task_pc' \in [1 .. tasks -> {"none", "receive", "operate", "free", "check", "ended"}]
    BY <1>a, <1>e
  <2>. QED
    BY <1>g, <2>1, <2>2, <2>3 DEF VideoInv, VideoTyped
<1>2. BuffersInv'
  <2>1. CASE UNCHANGED filled
    BY <1>g, <2>1 DEF VideoInv, BuffersInv
  <2>2. CASE filled # <<>> /\ filled' = Tail(filled)
    <3>1. \A i, j \in DOMAIN filled' : filled'[i] = filled'[j] => i = j
      BY <1>f, <2>2 DEF VideoInv, BuffersInv
    <3>2. \A i \in DOMAIN queue, j \in DOMAIN filled' : queue[i] # filled'[j]
      BY <1>f, <2>2 DEF VideoInv, BuffersInv
    <3>. QED
      BY <1>g, <3>1, <3>2 DEF VideoInv, BuffersInv
  <2>. QED
    BY <1>e, <2>1, <2>2
<1>3. HoldInv(tasks)'
  <2>1. CASE UNCHANGED <<filled, task_pc>>
    BY <1>a, <1>c, <1>d, <1>g, <2>1 DEF VideoInv, HoldInv
  <2>2. CASE /\ filled # <<>> /\ index' = Head(filled) /\ filled' = Tail(filled)
             /\ task_pc' = [task_pc EXCEPT ![t] = "operate"]
    <3>1. ~Waits(index)' /\ ~Taken(index)'
      BY <1>f, <1>g, <2>2 DEF VideoInv, BuffersInv, Waits, Taken
    <3>. QED
      BY <1>a, <1>c, <1>d, <1>g, <2>2, <3>1 DEF VideoInv, HoldInv
  <2>. QED
    BY <1>e, <2>1, <2>2
<1>4. StopInv(tasks)'
  <2>1. task_pc'[t] \in {"receive", "operate"} /\ \A s \in 1 .. tasks : s # t => task_pc'[s] = task_pc[s]
    BY <1>a, <1>e
  <2>2. t \in asked => late = 0
    BY <1>a DEF VideoInv, StopInv, BeforeLook
  <2>3. \A s \in 1 .. tasks : task_pc'[s] \in {"none", "ended"} => task_pc[s] = task_pc'[s]
    BY <2>1
  <2>. QED
    BY <1>a, <1>c, <1>g, <2>2, <2>3 DEF VideoInv, StopInv
<1>5. ~faulty => SoundInv'
  <2>1. ~faulty => fd
    BY <1>a DEF VideoInv, SoundInv, HoldInv
  <2>. QED
    BY <1>c, <1>e, <1>g, <2>1 DEF VideoInv, SoundInv
<1>. QED
  BY <1>1, <1>2, <1>3, <1>4, <1>5 DEF VideoInv

LEMMA VideoOperate ==
  ASSUME NEW n \in Nat \ {0}, NEW patient, patient = TRUE, NEW faulty \in BOOLEAN, NEW tasks \in Nat,
         NEW last \in Nat, VideoInv(n, faulty, tasks),
         NEW t \in 1 .. tasks,
         VideoOf(n, patient, faulty, tasks, last)!Operate(t)
  PROVE  VideoInv(n, faulty, tasks)'
<1>. USE DEF VideoOf!Operate, VideoOf!After, VideoOf!Range,
  VideoOf!record, VideoOf!tasks, VideoOf!driver, VideoOf!Tasks, VideoOf!Live, VideoOf!Nothing
<1>a. /\ t \in Running /\ \A s \in Running : s = t
      /\ task_pc \in [1 .. tasks -> {"none", "receive", "operate", "free", "check", "ended"}]
  BY DEF VideoInv, VideoTyped, HoldInv, Running
<1>b. \/ UNCHANGED task_pc
      \/ \E x \in {"receive", "operate", "free", "check"} : task_pc' = [task_pc EXCEPT ![t] = x]
  OBVIOUS
<1>c. Running' = Running
  <2>1. CASE UNCHANGED task_pc
    BY <2>1 DEF Running
  <2>2. ASSUME NEW x \in {"receive", "operate", "free", "check"},
               task_pc' = [task_pc EXCEPT ![t] = x]
        PROVE  Running' = Running
    BY <1>a, <2>2 DEF Running
  <2>. QED
    BY <1>b, <2>1, <2>2
<1>d. \A s \in 1 .. tasks : s # t => looking[s].buffer = -1 /\ looking[s].frame = 0
  BY <1>a DEF VideoInv, HoldInv, Running
<1>e. \/ /\ looking[t] = [buffer |-> -1, frame |-> 0] /\ UNCHANGED task_pc
         /\ looking' = [looking EXCEPT ![t] = [buffer |-> index, frame |-> content[index]]]
         /\ late' = IF t \in asked THEN late + 1 ELSE 0
      \/ /\ looking[t] # [buffer |-> -1, frame |-> 0] /\ UNCHANGED late
         /\ looking' = [looking EXCEPT ![t] = [buffer |-> -1, frame |-> 0]]
         /\ task_pc' = [task_pc EXCEPT ![t] = "free"]
  OBVIOUS
<1>g. UNCHANGED <<fd, on, queue, filled, content, frames, client, index, video_task_delete, asked, aborted>>
  OBVIOUS
<1>h. looking \in [1 .. tasks -> [buffer : -1 .. n - 1, frame : Nat]]
      /\ index \in 0 .. n - 1 /\ content[index] \in Nat /\ late \in Nat
  BY DEF VideoInv, VideoTyped
<1>1. VideoTyped(n, tasks)'
  <2>1. [buffer |-> index, frame |-> content[index]] \in [buffer : -1 .. n - 1, frame : Nat]
        /\ [buffer |-> -1, frame |-> 0] \in [buffer : -1 .. n - 1, frame : Nat]
    BY <1>h
  <2>2. looking' \in [1 .. tasks -> [buffer : -1 .. n - 1, frame : Nat]]
    BY <1>e, <1>h, <2>1
  <2>3. late' \in Nat
    BY <1>e, <1>h
  <2>4. task_pc' \in [1 .. tasks -> {"none", "receive", "operate", "free", "check", "ended"}]
    BY <1>a, <1>e
  <2>. QED
    BY <1>g, <2>2, <2>3, <2>4 DEF VideoInv, VideoTyped
<1>2. BuffersInv'
  BY <1>g DEF VideoInv, BuffersInv
<1>3. HoldInv(tasks)'
  <2>1. \A s \in Running' : task_pc'[s] \in {"operate", "free"} => task_pc[s] = "operate"
    BY <1>a, <1>c, <1>e
  <2>2. \A s \in 1 .. tasks : s # t => looking'[s] = looking[s]
    BY <1>e, <1>h
  <2>3. looking'[t].buffer # -1 \/ looking'[t].frame # 0 =>
          /\ task_pc'[t] = "operate"
          /\ looking'[t].buffer = index' /\ looking'[t].frame = content'[index']
    BY <1>e, <1>g, <1>h
  <2>4. \A s \in Running' : task_pc'[s] \in {"operate", "free"} => ~Waits(index)' /\ ~Taken(index)'
    BY <1>c, <1>g, <2>1 DEF VideoInv, HoldInv, Waits, Taken
  <2>. QED
    BY <1>a, <1>c, <1>d, <1>g, <2>2, <2>3, <2>4 DEF VideoInv, HoldInv
<1>4. StopInv(tasks)'
  <2>1. \A s \in 1 .. tasks : task_pc'[s] \in {"none", "ended"} => task_pc[s] = task_pc'[s]
    BY <1>a, <1>e
  <2>2. CASE /\ looking[t] = [buffer |-> -1, frame |-> 0] /\ UNCHANGED task_pc
             /\ looking' = [looking EXCEPT ![t] = [buffer |-> index, frame |-> content[index]]]
             /\ late' = IF t \in asked THEN late + 1 ELSE 0
    <3>1. t \in asked => late = 0
      BY <1>a, <2>2 DEF VideoInv, StopInv, BeforeLook
    <3>2. late' <= 1
      BY <2>2, <3>1
    <3>3. ~BeforeLook(t)'
      BY <1>a, <1>h, <2>2 DEF BeforeLook
    <3>. QED
      BY <1>a, <1>c, <1>g, <2>1, <2>2, <3>2, <3>3 DEF VideoInv, StopInv
  <2>3. CASE UNCHANGED late /\ task_pc' = [task_pc EXCEPT ![t] = "free"]
    <3>1. ~BeforeLook(t)'
      BY <1>a, <2>3 DEF BeforeLook
    <3>. QED
      BY <1>a, <1>c, <1>g, <2>1, <2>3, <3>1 DEF VideoInv, StopInv
  <2>. QED
    BY <1>e, <2>2, <2>3
<1>5. ~faulty => SoundInv'
  BY <1>c, <1>g DEF VideoInv, SoundInv
<1>. QED
  BY <1>1, <1>2, <1>3, <1>4, <1>5 DEF VideoInv

LEMMA VideoFree ==
  ASSUME NEW n \in Nat \ {0}, NEW patient, patient = TRUE, NEW faulty \in BOOLEAN, NEW tasks \in Nat,
         NEW last \in Nat, VideoInv(n, faulty, tasks),
         NEW t \in 1 .. tasks,
         VideoOf(n, patient, faulty, tasks, last)!Free(t)
  PROVE  VideoInv(n, faulty, tasks)'
<1>. USE DEF VideoOf!Free, VideoOf!After, VideoOf!Range,
  VideoOf!record, VideoOf!tasks, VideoOf!driver, VideoOf!Tasks, VideoOf!Live, VideoOf!Nothing
<1>a. /\ t \in Running /\ \A s \in Running : s = t
      /\ task_pc \in [1 .. tasks -> {"none", "receive", "operate", "free", "check", "ended"}]
  BY DEF VideoInv, VideoTyped, HoldInv, Running
<1>b. \/ UNCHANGED task_pc
      \/ \E x \in {"receive", "operate", "free", "check"} : task_pc' = [task_pc EXCEPT ![t] = x]
  OBVIOUS
<1>c. Running' = Running
  <2>1. CASE UNCHANGED task_pc
    BY <2>1 DEF Running
  <2>2. ASSUME NEW x \in {"receive", "operate", "free", "check"},
               task_pc' = [task_pc EXCEPT ![t] = x]
        PROVE  Running' = Running
    BY <1>a, <2>2 DEF Running
  <2>. QED
    BY <1>b, <2>1, <2>2
<1>d. \A s \in 1 .. tasks : looking[s].buffer = -1 /\ looking[s].frame = 0
  BY <1>a DEF VideoInv, HoldInv, Running
<1>e. \/ (~fd \/ Waits(index) \/ Taken(index)) /\ aborted' /\ UNCHANGED <<queue, task_pc>>
      \/ /\ ~Waits(index) /\ ~Taken(index) /\ UNCHANGED aborted
         /\ queue' = Append(queue, index) /\ task_pc' = [task_pc EXCEPT ![t] = "check"]
  BY DEF Waits, Taken
<1>f. /\ queue \in Seq(0 .. n - 1) /\ index \in 0 .. n - 1 /\ DOMAIN queue = 1 .. Len(queue)
      /\ Append(queue, index) \in Seq(0 .. n - 1)
      /\ \A i \in DOMAIN Append(queue, index) :
           \/ i \in DOMAIN queue /\ Append(queue, index)[i] = queue[i]
           \/ i = Len(queue) + 1 /\ Append(queue, index)[i] = index
  <2>1. queue \in Seq(0 .. n - 1) /\ index \in 0 .. n - 1
    BY DEF VideoInv, VideoTyped
  <2>. QED
    BY <2>1, AppendFacts
<1>g. UNCHANGED <<fd, on, filled, content, frames, client, index, video_task_delete, looking, asked, late>>
  OBVIOUS
<1>1. VideoTyped(n, tasks)'
  BY <1>a, <1>e, <1>f, <1>g DEF VideoInv, VideoTyped
<1>2. BuffersInv'
  <2>1. CASE UNCHANGED queue
    BY <1>g, <2>1 DEF VideoInv, BuffersInv
  <2>2. CASE ~Waits(index) /\ ~Taken(index) /\ queue' = Append(queue, index)
    <3>a. \A i \in DOMAIN queue' :
            \/ i \in DOMAIN queue /\ queue'[i] = queue[i]
            \/ i = Len(queue) + 1 /\ queue'[i] = index
      BY <1>f, <2>2, Zenon
    <3>b. /\ \A i \in DOMAIN queue : queue[i] # index
          /\ \A j \in DOMAIN filled : filled[j] # index
      BY <2>2, Zenon DEF Waits, Taken
    <3>c. /\ \A i, j \in DOMAIN queue : queue[i] = queue[j] => i = j
          /\ \A i \in DOMAIN queue, j \in DOMAIN filled : queue[i] # filled[j]
      BY DEF VideoInv, BuffersInv
    <3>1. \A i, j \in DOMAIN queue' : queue'[i] = queue'[j] => i = j
      BY <3>a, <3>b, <3>c, Zenon
    <3>2. \A i \in DOMAIN queue', j \in DOMAIN filled : queue'[i] # filled[j]
      BY <3>a, <3>b, <3>c, Zenon
    <3>. QED
      BY <1>g, <3>1, <3>2 DEF VideoInv, BuffersInv
  <2>. QED
    BY <1>e, <2>1, <2>2
<1>3. HoldInv(tasks)'
  <2>1. CASE UNCHANGED <<queue, task_pc>>
    BY <1>c, <1>g, <2>1 DEF VideoInv, HoldInv, Waits, Taken
  <2>2. CASE task_pc' = [task_pc EXCEPT ![t] = "check"]
    BY <1>a, <1>c, <1>d, <1>g, <2>2 DEF VideoInv, HoldInv
  <2>. QED
    BY <1>e, <2>1, <2>2
<1>4. StopInv(tasks)'
  <2>1. \A s \in 1 .. tasks : task_pc'[s] \in {"none", "ended"} => task_pc[s] = task_pc'[s]
    BY <1>a, <1>e
  <2>2. ~BeforeLook(t)'
    BY <1>a, <1>e DEF BeforeLook
  <2>. QED
    BY <1>a, <1>c, <1>g, <2>1, <2>2 DEF VideoInv, StopInv
<1>5. ~faulty => SoundInv'
  <2>1. ~Waits(index) /\ ~Taken(index)
    BY <1>a DEF VideoInv, HoldInv
  <2>2. ~faulty => fd
    BY <1>a DEF VideoInv, SoundInv, HoldInv
  <2>. QED
    BY <1>c, <1>e, <1>g, <2>1, <2>2 DEF VideoInv, SoundInv
<1>. QED
  BY <1>1, <1>2, <1>3, <1>4, <1>5 DEF VideoInv

LEMMA VideoCheck ==
  ASSUME NEW n \in Nat \ {0}, NEW patient, patient = TRUE, NEW faulty \in BOOLEAN, NEW tasks \in Nat,
         NEW last \in Nat, VideoInv(n, faulty, tasks),
         NEW t \in 1 .. tasks,
         VideoOf(n, patient, faulty, tasks, last)!Check(t)
  PROVE  VideoInv(n, faulty, tasks)'
<1>. USE DEF VideoOf!Check, VideoOf!After, VideoOf!Range,
  VideoOf!record, VideoOf!tasks, VideoOf!driver, VideoOf!Tasks, VideoOf!Live, VideoOf!Nothing
<1>a. /\ t \in Running /\ \A s \in Running : s = t
      /\ task_pc \in [1 .. tasks -> {"none", "receive", "operate", "free", "check", "ended"}]
  BY DEF VideoInv, VideoTyped, HoldInv, Running
<1>d. \A s \in 1 .. tasks : looking[s].buffer = -1 /\ looking[s].frame = 0
  BY <1>a DEF VideoInv, HoldInv, Running
<1>e. \/ /\ video_task_delete /\ ~video_task_delete' /\ on' = FALSE /\ queue' = <<>> /\ filled' = <<>>
         /\ aborted' = ~fd /\ task_pc' = [task_pc EXCEPT ![t] = "ended"]
      \/ /\ ~video_task_delete /\ UNCHANGED <<video_task_delete, on, queue, filled, aborted>>
         /\ task_pc' = [task_pc EXCEPT ![t] = "receive"]
  OBVIOUS
<1>g. UNCHANGED <<fd, content, frames, client, index, looking, asked, late>>
  OBVIOUS
<1>h. /\ task_pc' = [task_pc EXCEPT ![t] = "ended"] => Running' = {}
      /\ task_pc' = [task_pc EXCEPT ![t] = "receive"] => Running' = Running
  BY <1>a DEF Running
<1>i. \A s \in 1 .. tasks : task_pc'[s] = "operate" => FALSE
  BY <1>a, <1>e DEF Running
<1>1. VideoTyped(n, tasks)'
  <2>1. /\ queue \in Seq(0 .. n - 1) /\ filled \in Seq(0 .. n - 1)
        /\ <<>> \in Seq(0 .. n - 1)
    BY DEF VideoInv, VideoTyped
  <2>2. queue' \in Seq(0 .. n - 1) /\ filled' \in Seq(0 .. n - 1)
    BY <1>e, <2>1
  <2>3. task_pc' \in [1 .. tasks -> {"none", "receive", "operate", "free", "check", "ended"}]
    BY <1>a, <1>e
  <2>. QED
    BY <1>g, <2>2, <2>3 DEF VideoInv, VideoTyped
<1>2. BuffersInv'
  BY <1>e DEF VideoInv, BuffersInv
<1>3. HoldInv(tasks)'
  <2>1. \A s \in Running' : s = t /\ task_pc'[s] = "receive"
    BY <1>a, <1>e, <1>h
  <2>2. client \notin {"none", "open", "buffers"}
    BY <1>a DEF VideoInv, HoldInv
  <2>. QED
    BY <1>d, <1>g, <2>1, <2>2 DEF HoldInv
<1>4. StopInv(tasks)'
  <2>1. CASE video_task_delete /\ ~video_task_delete' /\ task_pc' = [task_pc EXCEPT ![t] = "ended"]
    <3>1. t \in asked
      BY <1>a, <2>1 DEF VideoInv, StopInv
    <3>2. Running' = {}
      BY <1>h, <2>1
    <3>3. \A s \in 1 .. tasks : task_pc'[s] \in {"none", "ended"} => s = t \/ task_pc[s] = task_pc'[s]
      BY <1>a, <2>1
    <3>4. task_pc'[t] = "ended"
      BY <1>a, <2>1
    <3>. QED
      BY <1>g, <2>1, <3>1, <3>2, <3>3, <3>4 DEF VideoInv, StopInv
  <2>2. CASE ~video_task_delete /\ UNCHANGED video_task_delete /\ task_pc' = [task_pc EXCEPT ![t] = "receive"]
    <3>1. t \notin asked
      BY <1>a, <2>2 DEF VideoInv, StopInv
    <3>2. Running' = Running
      BY <1>h, <2>2
    <3>3. \A s \in 1 .. tasks : task_pc'[s] \in {"none", "ended"} => task_pc[s] = task_pc'[s]
      BY <1>a, <2>2
    <3>. QED
      BY <1>a, <1>g, <2>2, <3>1, <3>2, <3>3 DEF VideoInv, StopInv
  <2>. QED
    BY <1>e, <2>1, <2>2
<1>5. ~faulty => SoundInv'
  <2>1. ~faulty => fd
    BY <1>a DEF VideoInv, SoundInv, HoldInv
  <2>2. CASE ~video_task_delete
    BY <1>e, <1>g, <1>h, <2>2 DEF VideoInv, SoundInv
  <2>3. CASE video_task_delete
    BY <1>e, <1>g, <2>1, <2>3 DEF VideoInv, SoundInv
  <2>. QED
    BY <2>2, <2>3
<1>. QED
  BY <1>1, <1>2, <1>3, <1>4, <1>5 DEF VideoInv

LEMMA VideoStep ==
  ASSUME NEW n \in Nat \ {0}, NEW patient, patient = TRUE, NEW faulty \in BOOLEAN, NEW tasks \in Nat,
         NEW last \in Nat, VideoInv(n, faulty, tasks),
         [VideoOf(n, patient, faulty, tasks, last)!Next]_videoVars
  PROVE  VideoInv(n, faulty, tasks)'
<1>1. CASE UNCHANGED videoVars
  BY <1>1 DEF videoVars, VideoInv, VideoTyped, BuffersInv, HoldInv, StopInv, SoundInv, Running, Waits,
    Taken, BeforeLook
<1>2. CASE VideoOf(n, patient, faulty, tasks, last)!Client
  BY <1>2, VideoOpen, VideoSetBufs, VideoStart, VideoStop, VideoRestart DEF VideoOf!Client
<1>3. CASE VideoOf(n, patient, faulty, tasks, last)!Fill
  BY <1>3, VideoFill
<1>4. ASSUME NEW t \in 1 .. tasks, VideoOf(n, patient, faulty, tasks, last)!Task(t)
      PROVE  VideoInv(n, faulty, tasks)'
  BY <1>4, VideoReceive, VideoOperate, VideoFree, VideoCheck DEF VideoOf!Task
<1>. QED
  BY <1>1, <1>2, <1>3, <1>4 DEF VideoOf!Next, VideoOf!Tasks

LEMMA VideoSafe ==
  ASSUME NEW n, NEW patient, NEW faulty \in BOOLEAN, NEW tasks, NEW last,
         VideoInv(n, faulty, tasks)
  PROVE  /\ VideoOf(n, patient, faulty, tasks, last)!FrameStays
         /\ VideoOf(n, patient, faulty, tasks, last)!EndsIfAsked
         /\ VideoOf(n, patient, faulty, tasks, last)!OneMore
         /\ ~faulty => VideoOf(n, patient, faulty, tasks, last)!NoAbort
<1>1. ASSUME NEW t \in 1 .. tasks, looking[t] # [buffer |-> -1, frame |-> 0]
      PROVE  /\ ~Waits(looking[t].buffer) /\ ~Taken(looking[t].buffer)
             /\ content[looking[t].buffer] = looking[t].frame
  <2>1. looking[t] \in [buffer : -1 .. n - 1, frame : Nat]
    BY DEF VideoInv, VideoTyped
  <2>2. looking[t].buffer # -1 \/ looking[t].frame # 0
    BY <1>1, <2>1
  <2>3. /\ task_pc[t] = "operate" /\ t \in Running
        /\ looking[t].buffer = index /\ looking[t].frame = content[index]
    BY <2>2 DEF VideoInv, VideoTyped, HoldInv, Running
  <2>. QED
    BY <2>3 DEF VideoInv, HoldInv
<1>2. VideoOf(n, patient, faulty, tasks, last)!FrameStays
  BY <1>1 DEF VideoOf!FrameStays, VideoOf!Tasks, VideoOf!Nothing, VideoOf!Range, Waits, Taken
<1>. QED
  BY <1>2 DEF VideoInv, StopInv, SoundInv, VideoOf!EndsIfAsked, VideoOf!OneMore, VideoOf!NoAbort,
    VideoOf!Tasks

\* What the display callback looks at stays the frame it was given, a task ends only if it was
\* asked to and looks at one more frame at most, and with a driver that does as it is told no
\* check of the program fails: for any number of buffers and any number of stops and restarts, if the
\* client waits for the end of a task before it restarts it.
THEOREM VideoFrameStays ==
  ASSUME NEW n \in Nat \ {0}, NEW faulty \in BOOLEAN, NEW tasks \in Nat, NEW last \in Nat
  PROVE  VideoOf(n, TRUE, faulty, tasks, last)!Spec =>
           [](/\ VideoOf(n, TRUE, faulty, tasks, last)!FrameStays
              /\ VideoOf(n, TRUE, faulty, tasks, last)!EndsIfAsked
              /\ VideoOf(n, TRUE, faulty, tasks, last)!OneMore
              /\ ~faulty => VideoOf(n, TRUE, faulty, tasks, last)!NoAbort)
<1>1. VideoOf(n, TRUE, faulty, tasks, last)!Init => VideoInv(n, faulty, tasks)
  BY VideoInit
<1>2. VideoInv(n, faulty, tasks) /\ [VideoOf(n, TRUE, faulty, tasks, last)!Next]_videoVars
        => VideoInv(n, faulty, tasks)'
  BY VideoStep
<1>3. UNCHANGED VideoOf(n, TRUE, faulty, tasks, last)!vars => UNCHANGED videoVars
  BY DEF VideoOf!vars, VideoOf!driver, VideoOf!record, VideoOf!tasks, videoVars
<1>4. VideoInv(n, faulty, tasks) =>
        /\ VideoOf(n, TRUE, faulty, tasks, last)!FrameStays
        /\ VideoOf(n, TRUE, faulty, tasks, last)!EndsIfAsked
        /\ VideoOf(n, TRUE, faulty, tasks, last)!OneMore
        /\ ~faulty => VideoOf(n, TRUE, faulty, tasks, last)!NoAbort
  BY VideoSafe
<1>. QED
  BY <1>1, <1>2, <1>3, <1>4, PTL DEF VideoOf!Spec

-----------------------------------------------------------------------------
(* The ring of framebuffers                                                 *)

RingOf(n, counted, most_failed, most_refreshes, most_switches) == INSTANCE DisplayRing WITH
  N <- n, Counted <- counted, FramesPerRefresh <- 1, MaxFailed <- most_failed,
  MaxRefresh <- most_refreshes, MaxSwitches <- most_switches, pc <- ring_pc,
  switches <- failed_switches

After(n, b) == IF b + 1 = n THEN 0 ELSE b + 1

RingTyped(n) ==
  /\ shown \in 0 .. n - 1 /\ queued \in 0 .. n - 1
  /\ next_compose \in 0 .. n - 1 /\ last_presented \in 0 .. n - 1
  /\ refresh_count \in Nat /\ busy_until \in [0 .. n - 1 -> Nat]
  /\ ring_pc \in {"idle", "composing", "composed", "marked"}
  /\ ring_pc # "idle" => buf \in 0 .. n - 1
  /\ begun \in {0, 1} /\ torn \in Nat /\ failed \in Nat /\ failed_switches \in Nat

\* The next framebuffer in the ring is available by the time a frame may begin, and the one
\* behind it a refresh later, so the search always ends at once.
BusyInv(n, counted) ==
  /\ \A b \in 0 .. n - 1 : busy_until[b] <= refresh_count + 2
  /\ busy_until[next_compose] <= refresh_count + begun
  /\ busy_until[After(n, next_compose)] <= refresh_count + begun + 1
  /\ ring_pc # "idle" => next_compose = After(n, buf)
  /\ ~counted => \A b \in 0 .. n - 1 : busy_until[b] = 0

\* The framebuffer the next frame is composed in, if the current one is idle; and whether a
\* frame that begins there is seen.  The next frame waits for a refresh if one has begun.
Chosen(n, counted) ==
  IF ~counted /\ next_compose = last_presented THEN After(n, next_compose) ELSE next_compose

IsSeen(b) == b = queued \/ (begun = 0 /\ b = shown)

\* A frame that has begun and then cannot be composed leaves two frames to be seen.
Skips(n, counted) ==
  /\ ring_pc = "composing" /\ ~counted /\ next_compose = last_presented /\ begun = 0
  /\ shown = After(n, next_compose) /\ queued = After(n, After(n, next_compose))

\* The frames that may yet be seen half done without another failure: the next one, and the one
\* behind it if what comes on the screen meanwhile is its framebuffer.
Owed(n, counted) ==
  IF ring_pc = "idle"
  THEN (IF IsSeen(Chosen(n, counted)) THEN 1 ELSE 0) +
       (IF queued = After(n, Chosen(n, counted)) THEN 1 ELSE 0)
  ELSE IF IsSeen(next_compose) \/ Skips(n, counted) THEN 1 ELSE 0

\* Every one of them has been paid for by a frame that could not be composed or by a status
\* screen, and a status screen being drawn has one to come.
CreditInv(n, counted) ==
  torn + Owed(n, counted) + (IF screen THEN 1 ELSE 0) <= failed + failed_switches

\* As long as no frame has been seen the one being composed is not.
UnseenInv ==
  /\ screen => failed_switches > 0
  /\ torn = 0 /\ failed_switches = 0 /\ ring_pc # "idle" => buf \notin {shown, queued}

RingInv(n, counted) == RingTyped(n) /\ BusyInv(n, counted) /\ CreditInv(n, counted) /\ UnseenInv

\* Round the ring.
LEMMA Around ==
  ASSUME NEW n \in Nat \ {0, 1, 2}, NEW b \in 0 .. n - 1
  PROVE  /\ (b + 0) % n = b /\ (b + 1) % n = After(n, b) /\ (b + 2) % n = After(n, After(n, b))
         /\ After(n, b) \in 0 .. n - 1 /\ After(n, b) # b /\ After(n, After(n, b)) # b
<1>1. (b + 0) % n = b
  OBVIOUS
<1>2. (b + 1) % n = After(n, b)
  BY DEF After
<1>3. (b + 2) % n = After(n, After(n, b))
  BY DEF After
<1>. QED
  BY <1>1, <1>2, <1>3 DEF After

LEMMA AroundApart ==
  ASSUME NEW n \in Nat \ {0, 1, 2}, NEW a \in 0 .. n - 1, NEW b \in 0 .. n - 1,
         After(n, a) = After(n, b)
  PROVE  a = b
BY DEF After

\* The search finds the next framebuffer, or the one behind it when the next one was presented
\* last and no refresh is counted.
LEMMA RingSelects ==
  ASSUME NEW n \in Nat \ {0, 1, 2}, NEW counted \in BOOLEAN, NEW mf, NEW mr, NEW ms,
         RingInv(n, counted), ring_pc = "idle", begun = 0,
         RingOf(n, counted, mf, mr, ms)!Select
  PROVE  buf' = Chosen(n, counted) /\ next_compose' = After(n, Chosen(n, counted))
<1>. DEFINE At(i) == (next_compose + i) % n
            tries == {i \in 0 .. n - 1 : RingOf(n, counted, mf, mr, ms)!Available(At(i))}
            first == CHOOSE i \in tries : \A j \in tries : i <= j
<1>1. tries # {} => buf' = At(first) /\ next_compose' = At(first + 1)
  BY DEF RingOf!Select, RingOf!Buffers
<1>2. /\ next_compose \in 0 .. n - 1 /\ last_presented \in 0 .. n - 1
      /\ refresh_count \in Nat /\ busy_until \in [0 .. n - 1 -> Nat]
      /\ busy_until[next_compose] <= refresh_count
  BY DEF RingInv, RingTyped, BusyInv
<1>3. /\ At(0) = next_compose /\ At(1) = After(n, next_compose)
      /\ At(2) = After(n, After(n, next_compose))
  BY <1>2, Around
<1>4. \A i \in tries : i \in Nat
  OBVIOUS
<1>5. CASE ~(~counted /\ next_compose = last_presented)
  <2>1. 0 \in tries
    BY <1>2, <1>3, <1>5 DEF RingOf!Available
  <2>2. first = 0
    BY <1>4, <2>1
  <2>3. buf' = At(0) /\ next_compose' = At(1)
    BY <1>1, <2>1, <2>2
  <2>. QED
    BY <1>3, <1>5, <2>3 DEF Chosen
<1>6. CASE ~counted /\ next_compose = last_presented
  <2>1. 0 \notin tries
    BY <1>3, <1>6 DEF RingOf!Available
  <2>2. After(n, next_compose) # last_presented
    BY <1>2, <1>6, Around
  <2>3. 1 \in tries
    BY <1>3, <1>6, <2>2 DEF RingOf!Available
  <2>4. \A i \in tries : 1 <= i
    BY <1>4, <2>1
  <2>5. first = 1
    BY <1>4, <2>3, <2>4
  <2>6. buf' = At(1) /\ next_compose' = At(2)
    BY <1>1, <2>3, <2>5
  <2>. QED
    BY <1>3, <1>6, <2>6 DEF Chosen
<1>. QED
  BY <1>5, <1>6

LEMMA RingInit ==
  ASSUME NEW n \in Nat \ {0, 1, 2}, NEW counted \in BOOLEAN, NEW mf, NEW mr, NEW ms,
         RingOf(n, counted, mf, mr, ms)!Init
  PROVE  RingInv(n, counted)
<1>1. 1 % n = 1
  BY Around
<1>2. RingTyped(n)
  BY <1>1 DEF RingOf!Init, RingOf!Buffers, RingTyped
<1>3. BusyInv(n, counted)
  BY <1>1 DEF RingOf!Init, RingOf!Buffers, BusyInv, After
<1>4. CreditInv(n, counted)
  BY <1>1 DEF RingOf!Init, CreditInv, Owed, IsSeen, Chosen, After
<1>5. UnseenInv
  BY DEF RingOf!Init, UnseenInv
<1>. QED
  BY <1>2, <1>3, <1>4, <1>5 DEF RingInv

LEMMA RingRefresh ==
  ASSUME NEW n \in Nat \ {0, 1, 2}, NEW counted \in BOOLEAN, NEW mf, NEW mr, NEW ms,
         RingInv(n, counted), RingOf(n, counted, mf, mr, ms)!Refresh
  PROVE  RingInv(n, counted)'
<1>. USE DEF RingOf!Refresh
<1>1. RingTyped(n)'
  BY DEF RingInv, RingTyped
<1>2. BusyInv(n, counted)'
  BY DEF RingInv, RingTyped, BusyInv, After
<1>3. CreditInv(n, counted)'
  BY DEF RingInv, RingTyped, BusyInv, CreditInv, Owed, IsSeen, Chosen, Skips, After
<1>4. UnseenInv'
  BY DEF RingInv, RingTyped, UnseenInv
<1>. QED
  BY <1>1, <1>2, <1>3, <1>4 DEF RingInv

LEMMA RingBegin ==
  ASSUME NEW n \in Nat \ {0, 1, 2}, NEW counted \in BOOLEAN, NEW mf, NEW mr, NEW ms,
         RingInv(n, counted), RingOf(n, counted, mf, mr, ms)!BeginFrame
  PROVE  RingInv(n, counted)'
<1>. USE DEF RingOf!BeginFrame
<1>a. begun = 0 /\ begun' = 1 /\ ring_pc = "idle" /\ ring_pc' = "composing"
  BY DEF RingInv, RingTyped
<1>b. buf' = Chosen(n, counted) /\ next_compose' = After(n, buf')
  BY <1>a, RingSelects
<1>c. Chosen(n, counted) \in 0 .. n - 1
  BY DEF RingInv, RingTyped, Chosen, After
<1>d. /\ torn' = IF buf' \in {shown, queued} THEN torn + 1 ELSE torn
      /\ UNCHANGED <<shown, queued, refresh_count, busy_until, last_presented, screen, refreshes,
                     failed_switches, failed>>
  OBVIOUS
<1>1. RingTyped(n)'
  BY <1>a, <1>b, <1>c, <1>d DEF RingInv, RingTyped, After
<1>2. BusyInv(n, counted)'
  BY <1>a, <1>b, <1>c, <1>d DEF RingInv, RingTyped, BusyInv, Chosen, After
<1>3. CreditInv(n, counted)'
  <2>1. torn + (IF IsSeen(buf') THEN 1 ELSE 0) + (IF queued = After(n, buf') THEN 1 ELSE 0) +
          (IF screen THEN 1 ELSE 0) <= failed + failed_switches
    <3>1. torn + Owed(n, counted) + (IF screen THEN 1 ELSE 0) <= failed + failed_switches
      BY DEF RingInv, CreditInv
    <3>2. Owed(n, counted) = (IF IsSeen(buf') THEN 1 ELSE 0) +
                             (IF queued = After(n, buf') THEN 1 ELSE 0)
      BY <1>a, <1>b DEF Owed
    <3>. QED
      BY <3>1, <3>2 DEF RingInv, RingTyped
  <2>2. IsSeen(buf') <=> buf' \in {shown, queued}
    BY <1>a DEF IsSeen
  <2>3. Owed(n, counted)' = IF queued = After(n, buf') THEN 1 ELSE 0
    BY <1>a, <1>b, <1>d DEF Owed, IsSeen, Skips
  <2>. QED
    BY <1>d, <2>1, <2>2, <2>3 DEF CreditInv, RingInv, RingTyped
<1>4. UnseenInv'
  <2>1. torn' = 0 => torn = 0 /\ buf' \notin {shown, queued}
    BY <1>d DEF RingInv, RingTyped
  <2>. QED
    BY <1>d, <2>1 DEF RingInv, UnseenInv
<1>. QED
  BY <1>1, <1>2, <1>3, <1>4 DEF RingInv

LEMMA RingCompose ==
  ASSUME NEW n \in Nat \ {0, 1, 2}, NEW counted \in BOOLEAN, NEW mf, NEW mr, NEW ms,
         RingInv(n, counted), RingOf(n, counted, mf, mr, ms)!Compose
  PROVE  RingInv(n, counted)'
<1>. USE DEF RingOf!Compose
<1>1. RingTyped(n)'
  BY DEF RingInv, RingTyped
<1>2. BusyInv(n, counted)'
  BY DEF RingInv, RingTyped, BusyInv, After
<1>3. CreditInv(n, counted)'
  <2>1. /\ torn \in Nat /\ failed \in Nat /\ failed_switches \in Nat
        /\ torn + Owed(n, counted) + (IF screen THEN 1 ELSE 0) <= failed + failed_switches
        /\ Owed(n, counted) \in {0, 1}
    BY DEF RingInv, RingTyped, CreditInv, Owed
  <2>2. CASE ring_pc' = "composed" /\ UNCHANGED failed
    <3>1. Owed(n, counted)' \in {0, 1} /\ Owed(n, counted)' <= Owed(n, counted)
      BY <2>2 DEF Owed, IsSeen, Skips
    <3>. QED
      BY <2>1, <2>2, <3>1 DEF CreditInv
  <2>3. CASE failed' = failed + 1 /\ ring_pc' = "idle"
    <3>1. Owed(n, counted)' \in {0, 1, 2} /\ Owed(n, counted)' <= Owed(n, counted) + 1
      BY <2>3 DEF RingInv, RingTyped, BusyInv, Owed, IsSeen, Chosen, Skips, After
    <3>. QED
      BY <2>1, <2>3, <3>1 DEF CreditInv
  <2>. QED
    BY <2>2, <2>3
<1>4. UnseenInv'
  BY DEF RingInv, RingTyped, UnseenInv
<1>. QED
  BY <1>1, <1>2, <1>3, <1>4 DEF RingInv

LEMMA RingMark ==
  ASSUME NEW n \in Nat \ {0, 1, 2}, NEW counted \in BOOLEAN, NEW mf, NEW mr, NEW ms,
         RingInv(n, counted), RingOf(n, counted, mf, mr, ms)!MarkBusy
  PROVE  RingInv(n, counted)'
<1>. USE DEF RingOf!MarkBusy
<1>. USE DEF RingOf!BusyUntil
<1>1. RingTyped(n)'
  BY DEF RingInv, RingTyped
<1>2. BusyInv(n, counted)'
  BY DEF RingInv, RingTyped, BusyInv, After
<1>3. CreditInv(n, counted)'
  BY DEF RingInv, RingTyped, BusyInv, CreditInv, Owed, IsSeen, Chosen, Skips, After
<1>4. UnseenInv'
  BY DEF RingInv, RingTyped, UnseenInv
<1>. QED
  BY <1>1, <1>2, <1>3, <1>4 DEF RingInv

LEMMA RingPresent ==
  ASSUME NEW n \in Nat \ {0, 1, 2}, NEW counted \in BOOLEAN, NEW mf, NEW mr, NEW ms,
         RingInv(n, counted), RingOf(n, counted, mf, mr, ms)!Present
  PROVE  RingInv(n, counted)'
<1>. USE DEF RingOf!Present
<1>1. RingTyped(n)'
  BY DEF RingInv, RingTyped
<1>2. BusyInv(n, counted)'
  BY DEF RingInv, RingTyped, BusyInv, After
<1>3. CreditInv(n, counted)'
  BY DEF RingInv, RingTyped, BusyInv, CreditInv, Owed, IsSeen, Chosen, Skips, After
<1>4. UnseenInv'
  BY DEF RingInv, RingTyped, UnseenInv
<1>. QED
  BY <1>1, <1>2, <1>3, <1>4 DEF RingInv

LEMMA RingSwitch ==
  ASSUME NEW n \in Nat \ {0, 1, 2}, NEW counted \in BOOLEAN, NEW mf, NEW mr, NEW ms,
         RingInv(n, counted), RingOf(n, counted, mf, mr, ms)!Switch
  PROVE  RingInv(n, counted)'
<1>. USE DEF RingOf!Switch
<1>. USE DEF RingOf!StatusScreen
<1>1. RingTyped(n)'
  BY DEF RingInv, RingTyped
<1>2. BusyInv(n, counted)'
  BY DEF RingInv, RingTyped, BusyInv, After
<1>3. CreditInv(n, counted)'
  <2>1. /\ torn \in Nat /\ failed \in Nat /\ failed_switches \in Nat
        /\ torn + Owed(n, counted) + (IF screen THEN 1 ELSE 0) <= failed + failed_switches
        /\ Owed(n, counted) \in {0, 1, 2}
    BY DEF RingInv, RingTyped, CreditInv, Owed
  <2>2. CASE ~screen /\ screen' /\ failed_switches' = failed_switches + 1 /\ UNCHANGED queued
    <3>1. Owed(n, counted)' = Owed(n, counted)
      BY <2>2 DEF Owed, IsSeen, Chosen, Skips
    <3>. QED
      BY <2>1, <2>2, <3>1 DEF CreditInv
  <2>3. CASE screen /\ ~screen' /\ queued' = 0 /\ UNCHANGED failed_switches
    <3>1. Owed(n, counted)' \in {0, 1, 2} /\ Owed(n, counted)' <= Owed(n, counted) + 1
      BY <2>3 DEF RingInv, RingTyped, BusyInv, Owed, IsSeen, Chosen, Skips, After
    <3>. QED
      BY <2>1, <2>3, <3>1 DEF CreditInv
  <2>. QED
    BY <2>2, <2>3
<1>4. UnseenInv'
  BY DEF RingInv, RingTyped, UnseenInv
<1>. QED
  BY <1>1, <1>2, <1>3, <1>4 DEF RingInv

LEMMA RingStep ==
  ASSUME NEW n \in Nat \ {0, 1, 2}, NEW counted \in BOOLEAN, NEW mf, NEW mr, NEW ms,
         RingInv(n, counted), [RingOf(n, counted, mf, mr, ms)!Next]_ringVars
  PROVE  RingInv(n, counted)'
<1>1. CASE UNCHANGED ringVars
  BY <1>1 DEF ringVars, RingInv, RingTyped, BusyInv, CreditInv, Owed, IsSeen, Chosen, Skips, UnseenInv
<1>. QED
  BY <1>1, RingRefresh, RingBegin, RingCompose, RingMark, RingPresent, RingSwitch DEF RingOf!Next

LEMMA RingPaid ==
  ASSUME NEW n, NEW counted, RingInv(n, counted)
  PROVE  torn <= failed + failed_switches
BY DEF RingInv, RingTyped, CreditInv, Owed

\* A frame that cannot be composed and a status screen drawn by another task cost at most one
\* frame each that is seen half done, with three framebuffers or more, whether the refreshes are
\* counted or not, and however many of them come together (select_compose_buffer(),
\* mipi_display_frame_operation(), imx500_present_status_screen()).
THEOREM RingTearsOnceEach ==
  ASSUME NEW n \in Nat \ {0, 1, 2}, NEW counted \in BOOLEAN, NEW mf, NEW mr, NEW ms
  PROVE  RingOf(n, counted, mf, mr, ms)!Spec => []RingOf(n, counted, mf, mr, ms)!TornOnceEach
<1>1. RingOf(n, counted, mf, mr, ms)!Init => RingInv(n, counted)
  BY RingInit
<1>2. RingInv(n, counted) /\ [RingOf(n, counted, mf, mr, ms)!Next]_ringVars => RingInv(n, counted)'
  BY RingStep
<1>3. UNCHANGED RingOf(n, counted, mf, mr, ms)!vars => UNCHANGED ringVars
  BY DEF RingOf!vars, ringVars
<1>4. RingInv(n, counted) => RingOf(n, counted, mf, mr, ms)!TornOnceEach
  BY RingPaid DEF RingOf!TornOnceEach
<1>. QED
  BY <1>1, <1>2, <1>3, <1>4, PTL DEF RingOf!Spec

LEMMA RingCalm ==
  ASSUME NEW n \in Nat \ {0, 1, 2}, NEW counted \in BOOLEAN, NEW mr,
         RingInv(n, counted), failed = 0, failed_switches = 0,
         [RingOf(n, counted, 0, mr, 0)!Next]_ringVars
  PROVE  failed' = 0 /\ failed_switches' = 0
<1>1. ~screen
  BY DEF RingInv, UnseenInv
<1>2. CASE UNCHANGED ringVars
  BY <1>2 DEF ringVars
<1>. QED
  BY <1>1, <1>2 DEF RingOf!Next, RingOf!Refresh, RingOf!BeginFrame, RingOf!Compose, RingOf!MarkBusy,
    RingOf!Present, RingOf!Switch, RingOf!StatusScreen

LEMMA RingUnseen ==
  ASSUME NEW n \in Nat \ {0, 1, 2}, NEW counted \in BOOLEAN, NEW mf, NEW mr, NEW ms,
         RingInv(n, counted), failed = 0, failed_switches = 0
  PROVE  RingOf(n, counted, mf, mr, ms)!OffScreen
<1>1. torn = 0 /\ ~screen
  BY DEF RingInv, RingTyped, CreditInv, Owed, UnseenInv
<1>. QED
  BY <1>1 DEF RingInv, UnseenInv, RingOf!OffScreen, RingOf!Written

\* Frames are composed off the screen as long as each of them can be composed and no other task
\* draws: the framebuffer that is written is neither on the screen nor the next to come.
THEOREM RingComposesOffScreen ==
  ASSUME NEW n \in Nat \ {0, 1, 2}, NEW counted \in BOOLEAN, NEW mr
  PROVE  RingOf(n, counted, 0, mr, 0)!Spec => []RingOf(n, counted, 0, mr, 0)!OffScreen
<1>. DEFINE Calm == RingInv(n, counted) /\ failed = 0 /\ failed_switches = 0
<1>1. RingOf(n, counted, 0, mr, 0)!Init => Calm
  <2>1. RingOf(n, counted, 0, mr, 0)!Init => RingInv(n, counted)
    BY RingInit
  <2>2. RingOf(n, counted, 0, mr, 0)!Init => failed = 0 /\ failed_switches = 0
    BY DEF RingOf!Init
  <2>. QED
    BY <2>1, <2>2
<1>2. Calm /\ [RingOf(n, counted, 0, mr, 0)!Next]_ringVars => Calm'
  BY RingStep, RingCalm
<1>3. UNCHANGED RingOf(n, counted, 0, mr, 0)!vars => UNCHANGED ringVars
  BY DEF RingOf!vars, ringVars
<1>4. Calm => RingOf(n, counted, 0, mr, 0)!OffScreen
  BY RingUnseen
<1>. HIDE DEF Calm
<1>. QED
  BY <1>1, <1>2, <1>3, <1>4, PTL DEF RingOf!Spec

-----------------------------------------------------------------------------
(* The components as the runs set them up                                   *)

LEMMA RingSame ==
  /\ Ring!Init <=> RingOf(3, TRUE, 1, 8, 1)!Init
  /\ Ring!Next <=> RingOf(3, TRUE, 1, 8, 1)!Next
<1>1. Ring!Init <=> RingOf(3, TRUE, 1, 8, 1)!Init
  BY DEF
    Ring!Init, Ring!Buffers, Ring!Invalid, RingOf!Init, RingOf!Buffers, RingOf!Invalid
<1>2. Ring!Next <=> RingOf(3, TRUE, 1, 8, 1)!Next
  BY DEF
    Ring!Next, Ring!Refresh, Ring!BeginFrame, Ring!Compose, Ring!MarkBusy, Ring!Present,
    Ring!Switch, Ring!Select, Ring!BusyUntil, Ring!StatusScreen, Ring!Buffers, Ring!Available,
    RingOf!Next, RingOf!Refresh, RingOf!BeginFrame, RingOf!Compose, RingOf!MarkBusy,
    RingOf!Present, RingOf!Switch, RingOf!Select, RingOf!BusyUntil, RingOf!StatusScreen,
    RingOf!Buffers, RingOf!Available
<1>. QED
  BY <1>1, <1>2

LEMMA PacedSame ==
  /\ Paced!Init <=> RingOf(3, TRUE, 0, 8, 0)!Init
  /\ Paced!Next <=> RingOf(3, TRUE, 0, 8, 0)!Next
<1>1. Paced!Init <=> RingOf(3, TRUE, 0, 8, 0)!Init
  BY DEF
    Paced!Init, Paced!Buffers, Paced!Invalid, RingOf!Init, RingOf!Buffers, RingOf!Invalid
<1>2. Paced!Next <=> RingOf(3, TRUE, 0, 8, 0)!Next
  BY DEF
    Paced!Next, Paced!Refresh, Paced!BeginFrame, Paced!Compose, Paced!MarkBusy, Paced!Present,
    Paced!Switch, Paced!Select, Paced!BusyUntil, Paced!StatusScreen, Paced!Buffers,
    Paced!Available, RingOf!Next, RingOf!Refresh, RingOf!BeginFrame, RingOf!Compose,
    RingOf!MarkBusy, RingOf!Present, RingOf!Switch, RingOf!Select, RingOf!BusyUntil,
    RingOf!StatusScreen, RingOf!Buffers, RingOf!Available
<1>. QED
  BY <1>1, <1>2

LEMMA UncountedSame ==
  /\ Uncounted!Init <=> RingOf(3, FALSE, 2, 8, 1)!Init
  /\ Uncounted!Next <=> RingOf(3, FALSE, 2, 8, 1)!Next
<1>1. Uncounted!Init <=> RingOf(3, FALSE, 2, 8, 1)!Init
  BY DEF
    Uncounted!Init, Uncounted!Buffers, Uncounted!Invalid, RingOf!Init, RingOf!Buffers,
    RingOf!Invalid
<1>2. Uncounted!Next <=> RingOf(3, FALSE, 2, 8, 1)!Next
  BY DEF
    Uncounted!Next, Uncounted!Refresh, Uncounted!BeginFrame, Uncounted!Compose,
    Uncounted!MarkBusy, Uncounted!Present, Uncounted!Switch, Uncounted!Select,
    Uncounted!BusyUntil, Uncounted!StatusScreen, Uncounted!Buffers, Uncounted!Available,
    RingOf!Next, RingOf!Refresh, RingOf!BeginFrame, RingOf!Compose, RingOf!MarkBusy,
    RingOf!Present, RingOf!Switch, RingOf!Select, RingOf!BusyUntil, RingOf!StatusScreen,
    RingOf!Buffers, RingOf!Available
<1>. QED
  BY <1>1, <1>2

LEMMA OverlaySame ==
  /\ Overlay!Init <=> OverlayOf(4, 2, 2, 1, 1, 1)!Init
  /\ Overlay!Next <=> OverlayOf(4, 2, 2, 1, 1, 1)!Next
<1>1. Overlay!Init <=> OverlayOf(4, 2, 2, 1, 1, 1)!Init
  BY DEF
    Overlay!Init, Overlay!Waiting, Overlay!NoMask, OverlayOf!Init, OverlayOf!Waiting,
    OverlayOf!NoMask
<1>2. Overlay!Next <=> OverlayOf(4, 2, 2, 1, 1, 1)!Next
  BY DEF
    Overlay!Next, Overlay!Tick, Overlay!Metadata, Overlay!Display, Overlay!Announce,
    Overlay!metadata, Overlay!Older, Overlay!Arm, Overlay!Read, Overlay!CountZeroHeader,
    Overlay!Recover, Overlay!Postprocess, Overlay!Publish, Overlay!Snapshot, Overlay!Copy,
    Overlay!Draw, Overlay!display, Overlay!Saving, Overlay!TimesOut, Overlay!Section,
    Overlay!shared, Overlay!Error, Overlay!IsFresh, OverlayOf!Next, OverlayOf!Tick,
    OverlayOf!Metadata, OverlayOf!Display, OverlayOf!Announce, OverlayOf!metadata,
    OverlayOf!Older, OverlayOf!Arm, OverlayOf!Read, OverlayOf!CountZeroHeader, OverlayOf!Recover,
    OverlayOf!Postprocess, OverlayOf!Publish, OverlayOf!Snapshot, OverlayOf!Copy, OverlayOf!Draw,
    OverlayOf!display, OverlayOf!Saving, OverlayOf!TimesOut, OverlayOf!Section, OverlayOf!shared,
    OverlayOf!Error, OverlayOf!IsFresh
<1>. QED
  BY <1>1, <1>2

LEMMA FlashModelSame ==
  /\ FlashModel!Init <=> ModelOf(3, 1, TRUE, 2, 2, 3, 1)!Init
  /\ FlashModel!Next <=> ModelOf(3, 1, TRUE, 2, 2, 3, 1)!Next
<1>1. FlashModel!Init <=> ModelOf(3, 1, TRUE, 2, 2, 3, 1)!Init
  BY DEF
    FlashModel!Init, FlashModel!None, ModelOf!Init, ModelOf!None
<1>2. FlashModel!Next <=> ModelOf(3, 1, TRUE, 2, 2, 3, 1)!Next
  BY DEF
    FlashModel!Next, FlashModel!StartFails, FlashModel!PressOrRelease, FlashModel!SaveFails,
    FlashModel!PowerCut, FlashModel!Program, FlashModel!nvs, FlashModel!module, FlashModel!boot,
    FlashModel!Fault, FlashModel!SelectActiveModel, FlashModel!ProgramFlashAssets,
    FlashModel!OpenStream, FlashModel!PollButton, FlashModel!SetIndex, FlashModel!Commit,
    FlashModel!Restart, FlashModel!Usable, FlashModel!bounds, FlashModel!WriteSlot,
    FlashModel!LongEnough, FlashModel!NextIndex, FlashModel!Models, FlashModel!None,
    ModelOf!Next, ModelOf!StartFails, ModelOf!PressOrRelease, ModelOf!SaveFails,
    ModelOf!PowerCut, ModelOf!Program, ModelOf!nvs, ModelOf!module, ModelOf!boot, ModelOf!Fault,
    ModelOf!SelectActiveModel, ModelOf!ProgramFlashAssets, ModelOf!OpenStream,
    ModelOf!PollButton, ModelOf!SetIndex, ModelOf!Commit, ModelOf!Restart, ModelOf!Usable,
    ModelOf!bounds, ModelOf!WriteSlot, ModelOf!LongEnough, ModelOf!NextIndex, ModelOf!Models,
    ModelOf!None
<1>. QED
  BY <1>1, <1>2

LEMMA DirectModelSame ==
  /\ DirectModel!Init <=> ModelOf(3, 1, FALSE, 2, 2, 2, 0)!Init
  /\ DirectModel!Next <=> ModelOf(3, 1, FALSE, 2, 2, 2, 0)!Next
<1>1. DirectModel!Init <=> ModelOf(3, 1, FALSE, 2, 2, 2, 0)!Init
  BY DEF
    DirectModel!Init, DirectModel!None, ModelOf!Init, ModelOf!None
<1>2. DirectModel!Next <=> ModelOf(3, 1, FALSE, 2, 2, 2, 0)!Next
  BY DEF
    DirectModel!Next, DirectModel!StartFails, DirectModel!PressOrRelease, DirectModel!SaveFails,
    DirectModel!PowerCut, DirectModel!Program, DirectModel!nvs, DirectModel!module,
    DirectModel!boot, DirectModel!Fault, DirectModel!SelectActiveModel,
    DirectModel!ProgramFlashAssets, DirectModel!OpenStream, DirectModel!PollButton,
    DirectModel!SetIndex, DirectModel!Commit, DirectModel!Restart, DirectModel!Usable,
    DirectModel!bounds, DirectModel!WriteSlot, DirectModel!LongEnough, DirectModel!NextIndex,
    DirectModel!Models, DirectModel!None, ModelOf!Next, ModelOf!StartFails,
    ModelOf!PressOrRelease, ModelOf!SaveFails, ModelOf!PowerCut, ModelOf!Program, ModelOf!nvs,
    ModelOf!module, ModelOf!boot, ModelOf!Fault, ModelOf!SelectActiveModel,
    ModelOf!ProgramFlashAssets, ModelOf!OpenStream, ModelOf!PollButton, ModelOf!SetIndex,
    ModelOf!Commit, ModelOf!Restart, ModelOf!Usable, ModelOf!bounds, ModelOf!WriteSlot,
    ModelOf!LongEnough, ModelOf!NextIndex, ModelOf!Models, ModelOf!None
<1>. QED
  BY <1>1, <1>2

LEMMA VideoSame ==
  /\ Video!Init <=> VideoOf(3, TRUE, FALSE, 3, 7)!Init
  /\ Video!Next <=> VideoOf(3, TRUE, FALSE, 3, 7)!Next
<1>1. Video!Init <=> VideoOf(3, TRUE, FALSE, 3, 7)!Init
  BY DEF
    Video!Init, Video!Buffers, Video!Tasks, Video!Nothing, VideoOf!Init, VideoOf!Buffers,
    VideoOf!Tasks, VideoOf!Nothing
<1>2. Video!Next <=> VideoOf(3, TRUE, FALSE, 3, 7)!Next
  BY DEF
    Video!Next, Video!Tasks, Video!Fill, Video!Client, Video!Task, Video!record, Video!tasks,
    Video!Open, Video!SetBufs, Video!Start, Video!Stop, Video!Restart, Video!Receive,
    Video!Operate, Video!Free, Video!Check, Video!RequestBuffers, Video!StartTask, Video!driver,
    Video!Anew, Video!Same, Video!Holds,
    Video!Live, Video!After, Video!Nothing, Video!Range, VideoOf!Next, VideoOf!Tasks,
    VideoOf!Fill, VideoOf!Client, VideoOf!Task, VideoOf!record, VideoOf!tasks, VideoOf!Open,
    VideoOf!SetBufs, VideoOf!Start, VideoOf!Stop, VideoOf!Restart, VideoOf!Receive,
    VideoOf!Operate, VideoOf!Free, VideoOf!Check, VideoOf!RequestBuffers, VideoOf!StartTask,
    VideoOf!Anew, VideoOf!Same, VideoOf!Holds, VideoOf!driver, VideoOf!Live, VideoOf!After,
    VideoOf!Nothing, VideoOf!Range
<1>. QED
  BY <1>1, <1>2

LEMMA FaultyVideoSame ==
  /\ FaultyVideo!Init <=> VideoOf(2, TRUE, TRUE, 3, 6)!Init
  /\ FaultyVideo!Next <=> VideoOf(2, TRUE, TRUE, 3, 6)!Next
<1>1. FaultyVideo!Init <=> VideoOf(2, TRUE, TRUE, 3, 6)!Init
  BY DEF
    FaultyVideo!Init, FaultyVideo!Buffers, FaultyVideo!Tasks, FaultyVideo!Nothing, VideoOf!Init,
    VideoOf!Buffers, VideoOf!Tasks, VideoOf!Nothing
<1>2. FaultyVideo!Next <=> VideoOf(2, TRUE, TRUE, 3, 6)!Next
  BY DEF
    FaultyVideo!Next, FaultyVideo!Tasks, FaultyVideo!Fill, FaultyVideo!Client, FaultyVideo!Task,
    FaultyVideo!record, FaultyVideo!tasks, FaultyVideo!Open, FaultyVideo!SetBufs,
    FaultyVideo!Start, FaultyVideo!Stop, FaultyVideo!Restart, FaultyVideo!Receive,
    FaultyVideo!Operate, FaultyVideo!Free, FaultyVideo!Check, FaultyVideo!RequestBuffers,
    FaultyVideo!StartTask, FaultyVideo!Anew, FaultyVideo!Same, FaultyVideo!Holds,
    FaultyVideo!driver, FaultyVideo!Live, FaultyVideo!After, FaultyVideo!Nothing, FaultyVideo!Range, VideoOf!Next, VideoOf!Tasks, VideoOf!Fill,
    VideoOf!Client, VideoOf!Task, VideoOf!record, VideoOf!tasks, VideoOf!Open, VideoOf!SetBufs,
    VideoOf!Start, VideoOf!Stop, VideoOf!Restart, VideoOf!Receive, VideoOf!Operate, VideoOf!Free,
    VideoOf!Check, VideoOf!RequestBuffers, VideoOf!StartTask, VideoOf!Anew,
    VideoOf!Same, VideoOf!Holds, VideoOf!driver, VideoOf!Live,
    VideoOf!After, VideoOf!Nothing, VideoOf!Range
<1>. QED
  BY <1>1, <1>2

RunInv ==
  /\ part = "ring" => RingInv(3, TRUE)
  /\ part = "paced" => RingInv(3, TRUE) /\ failed = 0 /\ failed_switches = 0
  /\ part = "uncounted" => RingInv(3, FALSE)
  /\ part = "overlay" => OverlayInv(2)
  /\ part = "flash" => ModelInv(TRUE)
  /\ part = "direct" => ModelInv(FALSE)
  /\ part = "video" => VideoInv(3, FALSE, 3)
  /\ part = "faulty" => VideoInv(2, TRUE, 3)

LEMMA Instances ==
  /\ 3 \in Nat \ {0, 1, 2} /\ 3 \in Nat \ {0} /\ 2 \in Nat \ {0} /\ 1 \in Nat \ {0}
  /\ 3 \in Nat /\ 6 \in Nat /\ 7 \in Nat /\ TRUE \in BOOLEAN /\ FALSE \in BOOLEAN
OBVIOUS

LEMMA RunInit == Init => RunInv
<1>. SUFFICES ASSUME Init PROVE RunInv
  OBVIOUS
<1>1. Ring!Init /\ Overlay!Init /\ FlashModel!Init
  BY DEF Init
<1>2. RingInv(3, TRUE) /\ failed = 0 /\ failed_switches = 0
  <2>1. RingInv(3, TRUE)
    BY <1>1, RingSame, RingInit, Instances, Zenon
  <2>. QED
    BY <1>1, <2>1 DEF Ring!Init
<1>3. RingInv(3, FALSE)
  <2>1. RingOf(3, FALSE, 2, 8, 1)!Init
    BY <1>1 DEF Ring!Init, Ring!Buffers, Ring!Invalid, RingOf!Init, RingOf!Buffers, RingOf!Invalid
  <2>. QED
    BY <2>1, RingInit, Instances, Zenon
<1>4. OverlayInv(2)
  BY <1>1, OverlaySame, OverlayInit
<1>5. ModelInv(TRUE) /\ ModelInv(FALSE)
  <2>1. ModelInv(TRUE)
    BY <1>1, FlashModelSame, ModelInit
  <2>2. pc = "select"
    BY <1>1 DEF FlashModel!Init
  <2>. QED
    BY <2>1, <2>2 DEF ModelInv, SlotInv
<1>6. part = "video" => VideoInv(3, FALSE, 3)
  BY VideoSame, VideoInit, Instances, Zenon DEF Init
<1>7. part = "faulty" => VideoInv(2, TRUE, 3)
  BY FaultyVideoSame, VideoInit, Instances, Zenon DEF Init
<1>. QED
  BY <1>2, <1>3, <1>4, <1>5, <1>6, <1>7 DEF RunInv

LEMMA RunStep ==
  ASSUME RunInv, [Next]_vars
  PROVE  RunInv'
<1>1. UNCHANGED part
  BY DEF Next, vars
<1>2. /\ part = "ring" => [Ring!Next]_ringVars
      /\ part = "paced" => [Paced!Next]_ringVars
      /\ part = "uncounted" => [Uncounted!Next]_ringVars
      /\ part = "overlay" => [Overlay!Next]_overlayVars
      /\ part = "flash" => [FlashModel!Next]_modelVars
      /\ part = "direct" => [DirectModel!Next]_modelVars
      /\ part = "video" => [Video!Next]_videoVars
      /\ part = "faulty" => [FaultyVideo!Next]_videoVars
  BY DEF Next, vars, RingNext, OverlayNext, ModelNext, VideoNext
<1>3. part = "ring" => RingInv(3, TRUE)'
  BY <1>2, RingSame, RingStep, Instances, Zenon DEF RunInv
<1>4. part = "paced" => (RingInv(3, TRUE) /\ failed = 0 /\ failed_switches = 0)'
  BY <1>2, PacedSame, RingStep, RingCalm, Instances, Zenon DEF RunInv
<1>5. part = "uncounted" => RingInv(3, FALSE)'
  BY <1>2, UncountedSame, RingStep, Instances, Zenon DEF RunInv
<1>6. part = "overlay" => OverlayInv(2)'
  BY <1>2, OverlaySame, OverlayStep DEF RunInv
<1>7. part = "flash" => ModelInv(TRUE)'
  BY <1>2, FlashModelSame, ModelSlots, ModelPresses DEF RunInv, ModelInv
<1>8. part = "direct" => ModelInv(FALSE)'
  BY <1>2, DirectModelSame, ModelSlots, ModelPresses DEF RunInv, ModelInv
<1>9. part = "video" => VideoInv(3, FALSE, 3)'
  BY <1>2, VideoSame, VideoStep, Instances, Zenon DEF RunInv
<1>10. part = "faulty" => VideoInv(2, TRUE, 3)'
  BY <1>2, FaultyVideoSame, VideoStep, Instances, Zenon DEF RunInv
<1>. QED
  BY <1>1, <1>3, <1>4, <1>5, <1>6, <1>7, <1>8, <1>9, <1>10 DEF RunInv

LEMMA Inductive == Spec => []RunInv
BY RunInit, RunStep, PTL DEF Spec

\* Of the ring as the run sets it up: paced frames are composed off the screen, and a failure
\* costs one frame, with the refreshes counted or not.
THEOREM RingIsComposedUnseen == Spec => []ComposedUnseen
<1>1. part = "paced" /\ RunInv => Paced!OffScreen
  <2>1. part = "paced" /\ RunInv => RingOf(3, TRUE, 0, 8, 0)!OffScreen
    BY RingUnseen, Instances, Zenon DEF RunInv
  <2>. QED
    BY <2>1 DEF RingOf!OffScreen, RingOf!Written, RingOf!Buffers, Paced!OffScreen, Paced!Written,
      Paced!Buffers
<1>2. part \in {"ring", "uncounted"} /\ RunInv => torn <= failed + failed_switches
  BY RingPaid, Zenon DEF RunInv
<1>3. part \in {"ring", "uncounted"} /\ RunInv => Ring!TornOnceEach /\ Uncounted!TornOnceEach
  BY <1>2 DEF Ring!TornOnceEach, Uncounted!TornOnceEach
<1>4. RunInv => ComposedUnseen
  BY <1>1, <1>2, <1>3 DEF ComposedUnseen
<1>. QED
  BY <1>4, Inductive, PTL

\* Of the tasks around the results as the run sets them up: what is drawn together belongs
\* together.
THEOREM ResultIsDrawnTogether == Spec => []DrawnTogether
<1>1. RunInv => DrawnTogether
  BY DEF RunInv, OverlayInv, SummaryInv, MaskInv, DrawnTogether, Overlay!SummaryOfResult,
    Overlay!MaskNotOlder
<1>. QED
  BY <1>1, Inductive, PTL

\* Of the two boot modes as the run sets them up: the module runs the active model, and one
\* press is one switch at most.
THEOREM ActiveModelRuns == Spec => []RunsActiveModel
<1>1. RunInv => RunsActiveModel
  BY DEF RunInv, ModelInv, SlotInv, PressInv, Used, Seen, RunsActiveModel,
    FlashModel!MatchingPair, FlashModel!OnePressOneSwitch,
    DirectModel!MatchingPair, DirectModel!OnePressOneSwitch
<1>. QED
  BY <1>1, Inductive, PTL

\* Of the camera task as the run sets it up, with three buffers and a driver that does as it is
\* told, and with two and one whose calls fail: the frame that is looked at stays.
THEOREM LookedAtStays == Spec => []FrameStays
<1>1. part = "video" /\ RunInv =>
        /\ VideoOf(3, TRUE, FALSE, 3, 7)!FrameStays /\ VideoOf(3, TRUE, FALSE, 3, 7)!EndsIfAsked
        /\ VideoOf(3, TRUE, FALSE, 3, 7)!OneMore /\ VideoOf(3, TRUE, FALSE, 3, 7)!NoAbort
  BY VideoSafe DEF RunInv
<1>2. part = "faulty" /\ RunInv =>
        /\ VideoOf(2, TRUE, TRUE, 3, 6)!FrameStays /\ VideoOf(2, TRUE, TRUE, 3, 6)!EndsIfAsked
        /\ VideoOf(2, TRUE, TRUE, 3, 6)!OneMore
  BY VideoSafe DEF RunInv
<1>3. RunInv => FrameStays
  BY <1>1, <1>2 DEF FrameStays,
    VideoOf!FrameStays, VideoOf!EndsIfAsked, VideoOf!OneMore, VideoOf!NoAbort, VideoOf!Tasks,
    VideoOf!Nothing, VideoOf!Range,
    Video!FrameStays, Video!EndsIfAsked, Video!OneMore, Video!NoAbort, Video!Tasks,
    Video!Nothing, Video!Range,
    FaultyVideo!FrameStays, FaultyVideo!EndsIfAsked, FaultyVideo!OneMore, FaultyVideo!Tasks,
    FaultyVideo!Nothing, FaultyVideo!Range
<1>. QED
  BY <1>3, Inductive, PTL
=============================================================================
