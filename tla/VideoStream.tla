------------------------------ MODULE VideoStream ------------------------------
(***************************************************************************)
(* The camera task of the ESP32-P4 example.  The driver fills buffers that *)
(* are queued to it; the task takes a filled one, lets the display         *)
(* callback look at it, and queues it again.  A client sets the buffers,   *)
(* starts, stops and restarts the task.  All of it shares one record,      *)
(* app_camera_video.  A failed ESP_ERROR_CHECK ends the program.           *)
(***************************************************************************)
EXTENDS Integers, Sequences, Functions

CONSTANTS
  N,            \* EXAMPLE_CAM_BUF_NUM
  Patient,      \* whether the client waits for the task's end before it restarts it
  Faulty,       \* whether calls of the driver fail
  MaxTasks,     \* bound on the tasks created
  MaxFrames     \* bound on the frames filled

VideoAssumption == N \in 2 .. 3 /\ Patient \in BOOLEAN /\ Faulty \in BOOLEAN

Buffers == 0 .. N - 1

VARIABLES
  fd, on,            \* the driver: whether the device is open, and streams
  queue, filled,     \* buffers that wait to be filled, and to be taken
  content, frames,   \* the frame in every buffer, and the number of frames filled
  client,            \* what the client has done: none, open, buffers, started
  index,             \* v4l2_buf.index
  video_task_delete,
  pc,                \* of every task
  looking,           \* the buffer and the frame that a task's callback has been given
  asked, aborted, late   \* tasks that were to stop; a check failed; callbacks begun by a task since it was to stop

driver == <<fd, on, queue, filled, content, frames>>
record == <<index, video_task_delete>>
tasks == <<pc, looking, asked, aborted, late>>
vars == <<driver, client, record, tasks>>

Tasks == 1 .. MaxTasks
Nothing == [buffer |-> -1, frame |-> 0]

Init ==
  /\ fd = FALSE /\ on = FALSE /\ queue = <<>> /\ filled = <<>> /\ content = [b \in Buffers |-> 0] /\ frames = 0
  /\ client = "none" /\ index = 0 /\ video_task_delete = FALSE
  /\ pc = [t \in Tasks |-> "none"] /\ looking = [t \in Tasks |-> Nothing]
  /\ asked = {} /\ aborted = FALSE /\ late = 0

----------------------------------------------------------------------------
\* A buffer that is queued is filled, and may be taken.
Fill ==
  /\ on /\ fd /\ queue # <<>> /\ frames < MaxFrames
  /\ content' = [content EXCEPT ![Head(queue)] = frames + 1] /\ frames' = frames + 1
  /\ filled' = Append(filled, Head(queue)) /\ queue' = Tail(queue)
  /\ UNCHANGED <<fd, on, client, record, tasks>>

Live == {t \in Tasks : pc[t] \notin {"none", "ended"}}

\* app_video_open() closes what it could not set up.
Open ==
  /\ client = "none"
  /\ \/ fd' = TRUE /\ client' = "open"
     \/ Faulty /\ UNCHANGED <<fd, client>>
  /\ UNCHANGED <<on, queue, filled, content, frames, record, tasks>>

\* What the driver holds of the buffers: all of them anew, or what it did.
Anew == [queue |-> [i \in 1 .. N |-> i - 1], filled |-> <<>>]
Same == [queue |-> queue, filled |-> filled]

Holds(b) == queue' = b.queue /\ filled' = b.filled

\* app_video_set_bufs(): buffers are not requested anew while the device streams; the
\* device is closed if a buffer cannot be queued.
RequestBuffers(b) ==
  \/ fd /\ ~on /\ b = Anew /\ UNCHANGED fd
  \/ (Faulty \/ ~fd \/ on) /\ b = Same /\ fd' = FALSE

SetBufs ==
  /\ client = "open"
  /\ \E b \in {Anew, Same} : RequestBuffers(b) /\ Holds(b)
  /\ client' = IF fd' THEN "buffers" ELSE "failed"
  /\ UNCHANGED <<on, content, frames, record, tasks>>

\* app_video_stream_task_start(): whether the stream starts is not looked at; it is stopped,
\* and the driver gives the buffers back, if the task cannot be created.
StartTask(b) ==
  \E t \in Tasks :
    /\ pc[t] = "none" /\ \A s \in Tasks : s < t => pc[s] # "none"
    /\ \/ /\ pc' = [pc EXCEPT ![t] = "receive"] /\ client' = "started"
          /\ on' = fd' \/ (Faulty /\ on' = on)
          /\ Holds(b)
       \/ /\ Faulty /\ client' = "failed" /\ UNCHANGED pc
          /\ \/ fd' /\ on' = FALSE /\ queue' = <<>> /\ filled' = <<>>
             \/ on' \in {fd', on} /\ Holds(b)

Start ==
  /\ client = "buffers" /\ UNCHANGED fd /\ StartTask(Same)
  /\ UNCHANGED <<content, frames, index, video_task_delete, looking, asked, aborted, late>>

\* app_video_stream_task_stop()
Stop ==
  /\ client = "started" /\ Live # {} /\ ~video_task_delete
  /\ video_task_delete' = TRUE /\ asked' = asked \cup Live /\ late' = 0
  /\ UNCHANGED <<driver, client, index, pc, looking, aborted>>

\* app_video_stream_task_restart(): the task is started even if the buffers failed.
Restart ==
  /\ client = "started" /\ (Patient => Live = {})
  /\ \E b \in {Anew, Same} : RequestBuffers(b) /\ StartTask(b)
  /\ UNCHANGED <<content, frames, index, video_task_delete, looking, asked, aborted, late>>

Client == Open \/ SetBufs \/ Start \/ Stop \/ Restart

----------------------------------------------------------------------------

\* The buffer is queued before it is looked at.
QueuedFirst == [receive |-> "free", free |-> "operate", operate |-> "check"]

After == [receive |-> "operate", operate |-> "free", free |-> "check"]

\* video_receive_video_frame(), without waiting.
Receive(t) ==
  /\ pc[t] = "receive" /\ ~aborted
  /\ IF ~fd THEN aborted' = TRUE /\ UNCHANGED <<index, filled, pc>>
     ELSE \/ /\ filled # <<>> /\ index' = Head(filled) /\ filled' = Tail(filled)
             /\ pc' = [pc EXCEPT ![t] = After.receive] /\ UNCHANGED aborted
          \/ filled = <<>> /\ index' = 0 /\ UNCHANGED <<aborted, filled, pc>>
  /\ UNCHANGED <<fd, on, queue, content, frames, client, video_task_delete, looking, asked, late>>

\* video_operation_video_frame(): the callback begins, and ends.
Operate(t) ==
  /\ pc[t] = "operate" /\ ~aborted
  /\ \/ /\ looking[t] = Nothing
        /\ looking' = [looking EXCEPT ![t] = [buffer |-> index, frame |-> content[index]]]
        /\ late' = IF t \in asked THEN late + 1 ELSE 0
        /\ UNCHANGED pc
     \/ /\ looking[t] # Nothing
        /\ looking' = [looking EXCEPT ![t] = Nothing]
        /\ pc' = [pc EXCEPT ![t] = After.operate] /\ UNCHANGED late
  /\ UNCHANGED <<driver, client, record, asked, aborted>>

\* video_free_video_frame(): a buffer that is the driver's cannot be queued.
Free(t) ==
  /\ pc[t] = "free" /\ ~aborted
  /\ IF ~fd \/ index \in Range(queue) \cup Range(filled) THEN aborted' = TRUE /\ UNCHANGED <<queue, pc>>
     ELSE queue' = Append(queue, index) /\ pc' = [pc EXCEPT ![t] = After.free] /\ UNCHANGED aborted
  /\ UNCHANGED <<fd, on, filled, content, frames, client, record, looking, asked, late>>

\* Once a turn the task looks whether it is to stop; the driver then gives all buffers back.
Check(t) ==
  /\ pc[t] = "check" /\ ~aborted
  /\ IF video_task_delete
     THEN /\ video_task_delete' = FALSE /\ on' = FALSE /\ queue' = <<>> /\ filled' = <<>>
          /\ aborted' = ~fd /\ pc' = [pc EXCEPT ![t] = "ended"]
     ELSE pc' = [pc EXCEPT ![t] = "receive"] /\ UNCHANGED <<video_task_delete, on, queue, filled, aborted>>
  /\ UNCHANGED <<fd, content, frames, client, index, looking, asked, late>>

Task(t) == Receive(t) \/ Operate(t) \/ Free(t) \/ Check(t)

Next == Client \/ Fill \/ \E t \in Tasks : Task(t)

Spec == Init /\ [][Next]_vars

----------------------------------------------------------------------------
\* What a callback looks at is not the driver's meanwhile: it stays the frame it was given.
FrameStays ==
  \A t \in Tasks : looking[t] # Nothing =>
    /\ looking[t].buffer \notin Range(queue) \cup Range(filled)
    /\ content[looking[t].buffer] = looking[t].frame

\* As long as the driver does not fail no check of the task fails.
NoAbort == ~aborted

\* A task ends only if it was asked to: a stop is not found by the next task as well.
EndsIfAsked == \A t \in Tasks : pc[t] = "ended" => t \in asked

\* A task that is asked to stop looks at one more frame at most.
OneMore == late <= 1

=============================================================================
