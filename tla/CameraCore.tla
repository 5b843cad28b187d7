------------------------------ MODULE CameraCore ------------------------------
(***************************************************************************)
(* The MicroPython metadata service: core 0 answers a host's requests,     *)
(* core 1 brings the camera up and captures one frame for each job it is   *)
(* given.  They share one job, under a lock, and the frame buffer, of      *)
(* which a result holds a view.  What is under the lock is one step.       *)
(***************************************************************************)
EXTENDS Integers, Sequences

CONSTANTS
  Modes,         \* values of include_jpeg that the host asks for
  MaxWait,       \* slices that core 0 waits for a job, wait_ms
  MaxAttempts,   \* reads of a capture, capture_timeout_ms
  Ahead,         \* requests the host sends before it has an answer
  MaxRequests, MaxFailures   \* bounds: of the requests, and of the startup steps that fail

CoreAssumption ==
  /\ Modes \subseteq {"always", "never", "on_ng"}
  /\ {MaxWait, MaxRequests, MaxFailures} \subseteq Nat /\ {MaxAttempts, Ahead} \subseteq Nat \ {0}

VARIABLES
  requests, answers,     \* what the host has sent, and what it was answered
  pc0, mine, waited,     \* core 0: its step, the job it waits for, and for how long
  out,                   \* core 0: the answer being sent
  job, next_id,          \* camera_job, camera_job_next_id
  camera, core1,         \* state, core1_status
  pc1, work, attempts,   \* core 1: its step, the job it has taken, reads so far
  buf,                   \* the frame in the buffer, by number
  failures

core0_vars == <<pc0, mine, waited, out>>
core1_vars == <<camera, core1, pc1, work, attempts, buf, failures>>
vars == <<requests, answers, core0_vars, job, next_id, core1_vars>>

NoResult == [status |-> "NONE", job |-> 0, sequence |-> 0, jpeg |-> FALSE, frame |-> 0]
NoJob == [id |-> 0, state |-> "IDLE", sequence |-> 0, mode |-> "on_ng", result |-> NoResult]
NoAnswer == [result |-> NoResult, summed |-> 0]
Booting == [probe_ok |-> FALSE, opened |-> FALSE, streaming |-> FALSE, ready |-> FALSE, startup |-> "BOOTING"]

Init ==
  /\ requests = <<>> /\ answers = <<>>
  /\ pc0 = "idle" /\ mine = 0 /\ waited = 0 /\ out = NoAnswer
  /\ job = NoJob /\ next_id = 0
  /\ camera = Booting /\ core1 \in {"STOPPED", "FAILED"}
  /\ pc1 = IF core1 = "FAILED" THEN "stopped" ELSE "start"
  /\ work = NoJob /\ attempts = 0 /\ buf = 0 /\ failures = 0

----------------------------------------------------------------------------
(* The host.  A request's sequence is its place.                           *)
Ask(request) ==
  /\ Len(requests) < MaxRequests /\ Len(requests) - Len(answers) < Ahead
  /\ requests' = Append(requests, request)
  /\ UNCHANGED <<answers, core0_vars, job, next_id, core1_vars>>

AskStatus == Ask([kind |-> "status", mode |-> "on_ng"])
AskData == \E mode \in Modes : Ask([kind |-> "data", mode |-> mode])

----------------------------------------------------------------------------
(* Core 0.                                                                 *)
Current == Len(answers) + 1
Request == requests[Current]

Error(text) == [NoResult EXCEPT !.status = text]

\* A picture is summed before it is sent.
Sending(result) ==
  /\ pc0' = "send" /\ out' = [result |-> result, summed |-> IF result.jpeg THEN buf ELSE 0]

SaysReady == camera.ready /\ core1 = "READY"

AnswerStatus ==
  /\ pc0 = "idle" /\ Current <= Len(requests) /\ Request.kind = "status"
  /\ Sending(Error(IF SaysReady THEN "READY" ELSE camera.startup))
  /\ UNCHANGED <<requests, answers, mine, waited, job, next_id, core1_vars>>

BeginData ==
  /\ pc0 = "idle" /\ Current <= Len(requests) /\ Request.kind = "data"
  /\ waited' = 0
  /\ IF core1 = "FAILED" THEN Sending(Error("CORE_STOPPED")) ELSE pc0' = "look" /\ UNCHANGED out
  /\ UNCHANGED <<requests, answers, mine, job, next_id, core1_vars>>

AfterTake(j) == NoJob

\* _take_finished_camera_job()
Take(id) ==
  /\ job.id = id /\ job.state = "DONE"
  /\ Sending([job.result EXCEPT !.job = id, !.sequence = Current])
  /\ job' = AfterTake(job)

CannotTake(id) == job.id # id \/ job.state # "DONE"

\* The job is free.
MaySubmit == job.state = "IDLE"

\* _submit_camera_data_request()
Submit ==
  /\ next_id' = next_id + 1 /\ mine' = next_id'
  /\ job' = [NoJob EXCEPT !.id = next_id', !.state = "PENDING", !.sequence = Current, !.mode = Request.mode]

LookAtJob ==
  /\ pc0 = "look"
  /\ \/ job.state = "DONE" /\ Take(job.id) /\ UNCHANGED <<mine, next_id>>
     \/ job.state # "DONE" /\ MaySubmit /\ Submit /\ pc0' = "wait" /\ UNCHANGED out
     \/ /\ job.state # "DONE" /\ ~MaySubmit
        /\ mine' = job.id /\ pc0' = "wait" /\ UNCHANGED <<job, next_id, out>>
  /\ UNCHANGED <<requests, answers, waited, core1_vars>>

\* A slice of the wait, and the last look when the time is over.
Wait ==
  /\ pc0 = "wait"
  /\ \/ Take(mine) /\ UNCHANGED waited
     \/ /\ CannotTake(mine) /\ waited <= MaxWait /\ core1 = "FAILED"
        /\ Sending(Error("CORE_STOPPED")) /\ UNCHANGED <<job, waited>>
     \/ /\ CannotTake(mine) /\ waited <= MaxWait /\ core1 # "FAILED"
        /\ waited' = waited + 1 /\ UNCHANGED <<pc0, out, job>>
     \/ /\ CannotTake(mine) /\ waited > MaxWait
        /\ pc0' = "pending" /\ UNCHANGED <<out, job, waited>>
  /\ UNCHANGED <<requests, answers, mine, next_id, core1_vars>>

\* _make_pending_result(), with a look at the job of its own.
Pending ==
  /\ pc0 = "pending"
  /\ Sending([Error("PENDING") EXCEPT !.job = job.id])
  /\ UNCHANGED <<requests, answers, mine, waited, job, next_id, core1_vars>>

\* The picture goes out, as it is by then.
Send ==
  /\ pc0 = "send"
  /\ answers' = Append(answers, [result |-> out.result, summed |-> out.summed, sent |-> IF out.result.jpeg THEN buf ELSE 0])
  /\ pc0' = "idle" /\ out' = NoAnswer /\ mine' = 0 /\ waited' = 0
  /\ UNCHANGED <<requests, job, next_id, core1_vars>>

Core0 == AnswerStatus \/ BeginData \/ LookAtJob \/ Wait \/ Pending \/ Send

----------------------------------------------------------------------------
(* Core 1.                                                                 *)
Start ==
  /\ pc1 = "start"
  /\ core1' = "RUNNING" /\ pc1' = "advance"
  /\ UNCHANGED <<requests, answers, core0_vars, job, next_id, camera, work, attempts, buf, failures>>

\* A step of the startup has been tried; after a failure it is tried again.
Tried(flag, done, failed) ==
  /\ \/ camera' = [camera EXCEPT ![flag] = TRUE, !.startup = done] /\ UNCHANGED failures
     \/ /\ failures < MaxFailures /\ failures' = failures + 1
        /\ \E startup \in failed : camera' = [camera EXCEPT !.startup = startup]
  /\ pc1' = "take"

\* A module that does not answer is no error yet.
ProbeCamera == Tried("probe_ok", "PROBED", {"PROBING", "ERROR"})
OpenCamera == Tried("opened", "OPENED", {"ERROR"})
StartStream == Tried("streaming", "STREAM_ON", {"ERROR"})

MarkReady ==
  /\ camera' = [camera EXCEPT !.ready = TRUE, !.startup = "READY"]
  /\ pc1' = "announce" /\ UNCHANGED failures

StartupGoesOn == ~camera.ready

\* _advance_camera_startup()
Advance ==
  /\ pc1 = "advance"
  /\ \/ StartupGoesOn /\ ~camera.probe_ok /\ ProbeCamera
     \/ StartupGoesOn /\ camera.probe_ok /\ ~camera.opened /\ OpenCamera
     \/ StartupGoesOn /\ camera.probe_ok /\ camera.opened /\ ~camera.streaming /\ StartStream
     \/ StartupGoesOn /\ camera.probe_ok /\ camera.opened /\ camera.streaming /\ MarkReady
     \/ ~StartupGoesOn /\ pc1' = "take" /\ UNCHANGED <<camera, failures>>
  /\ UNCHANGED <<requests, answers, core0_vars, job, next_id, core1, work, attempts, buf>>

Announce ==
  /\ pc1 = "announce"
  /\ core1' = "READY" /\ pc1' = "take"
  /\ UNCHANGED <<requests, answers, core0_vars, job, next_id, camera, work, attempts, buf, failures>>

\* _take_next_camera_job()
TakeJob ==
  /\ pc1 = "take"
  /\ IF job.state = "PENDING"
     THEN job' = [job EXCEPT !.state = "BUSY"] /\ work' = job /\ pc1' = "read"
     ELSE pc1' = "advance" /\ UNCHANGED <<job, work>>
  /\ attempts' = 0
  /\ UNCHANGED <<requests, answers, core0_vars, next_id, camera, core1, buf, failures>>

Result(status) == [Error(status) EXCEPT !.sequence = work.sequence]

Wanted(status) == work.mode = "always" \/ (work.mode = "on_ng" /\ status = "NG")

MayRead == attempts < MaxAttempts

Captured(result) == work' = [work EXCEPT !.result = result] /\ pc1' = "finish"

\* _read_ai_frame(), a turn of its loop.  Whatever a read gives, the buffer is another.
Read ==
  /\ pc1 = "read"
  /\ \/ /\ ~camera.ready
        /\ Captured(Result("STARTING")) /\ UNCHANGED <<attempts, buf>>
     \/ /\ camera.ready /\ ~MayRead
        /\ Captured(Result("ERROR")) /\ UNCHANGED <<attempts, buf>>
     \/ /\ camera.ready /\ MayRead
        /\ attempts' = IF attempts < MaxAttempts THEN attempts + 1 ELSE attempts
        /\ buf' = (buf + 1) % (MaxRequests * MaxAttempts + 1)
        /\ \/ UNCHANGED <<pc1, work>>
           \/ \E status \in {"PASS", "NG"} :
                Captured([Result(status) EXCEPT !.jpeg = Wanted(status), !.frame = buf'])
           \/ Captured(Result("ERROR"))
  /\ UNCHANGED <<requests, answers, core0_vars, job, next_id, camera, core1, failures>>

\* The next frame is read ahead of its request.
ResumeReading == "read"

Resume == "advance"

\* _finish_camera_job()
Finish ==
  /\ pc1 = "finish"
  /\ job' = IF job.id = work.id /\ job.state = "BUSY" THEN [job EXCEPT !.state = "DONE", !.result = work.result] ELSE job
  /\ pc1' = Resume /\ attempts' = 0
  /\ UNCHANGED <<requests, answers, core0_vars, next_id, camera, core1, work, buf, failures>>

\* Something that a capture's own handlers do not catch: core 1 ends.
Fail ==
  /\ pc1 \in {"read", "finish"}
  /\ camera' = [camera EXCEPT !.ready = FALSE, !.startup = "ERROR"]
  /\ core1' = "FAILED" /\ pc1' = "fail_jobs"
  /\ UNCHANGED <<requests, answers, core0_vars, job, next_id, work, attempts, buf, failures>>

\* _fail_camera_jobs()
FailJobs ==
  /\ pc1 = "fail_jobs"
  /\ job' = IF job.state \in {"PENDING", "BUSY"}
            THEN [job EXCEPT !.state = "DONE", !.result = [Error("CORE_STOPPED") EXCEPT !.sequence = job.sequence]]
            ELSE job
  /\ pc1' = "stopped"
  /\ UNCHANGED <<requests, answers, core0_vars, next_id, camera, core1, work, attempts, buf, failures>>

Core1 == Start \/ Advance \/ Announce \/ TakeJob \/ Read \/ Finish \/ Fail \/ FailJobs

Next == AskStatus \/ AskData \/ Core0 \/ Core1

\* Both cores run; what the host asks and whether core 1 fails is open.
Spec == Init /\ [][Next]_vars /\ WF_vars(Core0) /\ WF_vars(Core1)

----------------------------------------------------------------------------
Results == {answers[i].result : i \in DOMAIN answers}
Framed(result) == result.status \in {"PASS", "NG"}

\* A picture is sent out of the buffer that core 1 reads into: what has been sent is what was
\* summed, and is the frame the result was computed from.
PictureIsResults ==
  \A i \in DOMAIN answers :
    answers[i].result.jpeg =>
      answers[i].sent = answers[i].summed /\ answers[i].sent = answers[i].result.frame

\* No two answers are of the same capture.
GivenOnce ==
  \A i, j \in DOMAIN answers :
    i # j /\ Framed(answers[i].result) /\ Framed(answers[j].result) =>
      answers[i].result.job # answers[j].result.job

\* A host that was told to ask again is answered about the job it was told of, until the
\* core stops: no second capture is begun.
PollsSameJob ==
  \A i \in DOMAIN answers, j \in DOMAIN answers :
    /\ i < j /\ requests[j].kind = "data" /\ \A k \in i + 1 .. j - 1 : requests[k].kind = "status"
    /\ answers[i].result.status = "PENDING" /\ answers[j].result.status # "CORE_STOPPED"
    => answers[j].result.job = answers[i].result.job

\* A host that asks for data only once a status has said that the camera is ready is never
\* answered with a camera that is still starting.
HostMayAsk ==
  \A i, j \in DOMAIN answers :
    i < j /\ (\A k \in 1 .. i : requests[k].kind = "status") /\ answers[i].result.status = "READY" =>
      answers[j].result.status # "STARTING"

\* The camera is ready some day, whichever steps fail before, or core 1 has stopped.
ComesUp == <>(camera.ready \/ core1 = "FAILED")

\* A job that was taken up is done, whatever the module sends.
CapturesEnd == job.state = "BUSY" ~> job.state # "BUSY"
=============================================================================
