----------------------------- MODULE UsbUpload -----------------------------
(***************************************************************************)
(* tools/imx500_usb_flash.py: a program that uploads a model, its network  *)
(* information, or both over the control port: ping, then for each blob    *)
(* BEGIN, one DATA for each chunk, FINALIZE.  The first answer that is     *)
(* wrong or late ends the program with an error; it never aborts what it   *)
(* began, and whoever runs it may stop it and run it again.                *)
(***************************************************************************)
EXTENDS UsbPipe, FiniteSets

CONSTANTS MaxSession, Chunks, Targets

UploadAssumption == MaxSession \in Nat \ {0} /\ Chunks \in Nat \ {0}

Target == {"model", "nn_info"}

VARIABLES
  session, seq, phase, req, answered,   \* as in the bridge's transport
  asked,     \* the blobs this run is to upload, the model first
  todo,      \* the blobs still to be uploaded
  step,      \* what is sent next
  sent,      \* chunks of the blob acknowledged
  exit,      \* how the last run ended
  device,    \* the firmware's upload: its state, target, chunks
  stored     \* what the firmware has put into flash for each target

uvars == <<session, seq, phase, req, answered, asked, todo, step, sent, exit>>
vars  == <<pipe, uvars, device, stored>>

NoReq == [session |-> 0, seq |-> 0, cmd |-> "none", target |-> "none", part |-> 0]

Init ==
  /\ inbox = <<>> /\ wire = <<>> /\ executed = <<>>
  /\ session = 0 /\ seq = 1 /\ phase = "closed" /\ req = NoReq /\ answered = {}
  /\ asked = <<>> /\ todo = <<>> /\ step = "ping" /\ sent = 0 /\ exit = "none"
  /\ device = [state |-> "idle", target |-> "none", chunks |-> <<>>]
  /\ stored = [t \in Target |-> <<>>]

----------------------------------------------------------------------------
\* The firmware: what it makes of a request, from the statuses the program knows.
Begun(r)     == [state |-> "receiving", target |-> r.target, chunks |-> <<>>]
Receiving(r) == device.state = "receiving" /\ device.target = r.target
Whole(s)     == [i \in 1 .. Chunks |-> [session |-> s, part |-> i]]

Outcomes(r) ==
  CASE r.cmd = "begin" -> {Begun(r), [device EXCEPT !.state = "failed"]}
    [] r.cmd = "data" /\ Receiving(r) ->
         {[device EXCEPT !.chunks = Append(@, [session |-> r.session, part |-> r.part])],
          [device EXCEPT !.state = "failed"]}
    [] r.cmd = "finalize" /\ Receiving(r) ->
         {[device EXCEPT !.state = s] :
            s \in IF Len(device.chunks) = Chunks THEN {"success", "failed"} ELSE {"failed"}}
    [] r.cmd \in {"data", "finalize"} /\ ~Receiving(r) -> {[device EXCEPT !.state = "failed"]}
    [] OTHER -> {device}

Firmware ==
  /\ inbox # <<>>
  /\ LET r == Head(inbox) IN \E d \in Outcomes(r) :
       /\ device' = d
       /\ stored' = IF r.cmd = "finalize" /\ d.state = "success"
                    THEN [stored EXCEPT ![r.target] = d.chunks] ELSE stored
       /\ wire' = wire \o Pieces([of |-> r, data |-> 0, state |-> d.state,
                                  ok |-> d.state # "failed"])
  /\ inbox' = Tail(inbox)
  /\ UNCHANGED <<uvars, executed>>

----------------------------------------------------------------------------
\* The program is run, with one or both of the blobs; the port's buffer is emptied.
Run ==
  /\ phase = "closed" /\ session < MaxSession
  /\ session' = session + 1 /\ seq' = 1 /\ answered' = {}
  /\ phase' = "send" /\ step' = "ping" /\ exit' = "none" /\ sent' = 0
  /\ asked' \in Targets /\ todo' = asked'
  /\ ResetInput /\ UNCHANGED <<req, device, stored>>

\* It is stopped from outside.
Killed ==
  /\ phase # "closed"
  /\ phase' = "closed" /\ exit' = "killed" /\ req' = NoReq
  /\ UNCHANGED <<pipe, session, seq, answered, asked, todo, step, sent, device, stored>>

\* send_frame(): write the next request.
SendFrame ==
  /\ phase = "send"
  /\ req' = [session |-> session, seq |-> seq, cmd |-> step, part |-> sent + 1,
             target |-> IF todo = <<>> THEN "none" ELSE Head(todo)]
  /\ Write(req')
  /\ phase' = "wait"
  /\ UNCHANGED <<session, seq, answered, asked, todo, step, sent, exit, device, stored>>

Fail == phase' = "closed" /\ exit' = "failed" /\ UNCHANGED <<seq, todo, step, sent>>

\* The status of an answer is printed, and no more.
AcceptableAlways(a) == TRUE

\* require_ok(); the answer to the ping and to the status query is only printed.
Acceptable(a) ==
  /\ step \in {"begin", "data", "finalize"} => a.ok
  /\ step \in {"begin", "data"} => a.state = "receiving"
  /\ step = "finalize" => a.state = "success"

AfterData == IF sent + 1 = Chunks THEN "finalize" ELSE "data"

\* One blob after the other; a status query at the end if there was only one.
Advance(a) ==
  /\ seq' = seq + 1
  /\ \/ /\ step = "ping"
        /\ step' = "begin" /\ phase' = "send" /\ UNCHANGED <<todo, sent, exit>>
     \/ /\ step = "begin"
        /\ step' = "data" /\ phase' = "send" /\ UNCHANGED <<todo, sent, exit>>
     \/ /\ step = "data"
        /\ step' = AfterData
        /\ sent' = sent + 1 /\ phase' = "send" /\ UNCHANGED <<todo, exit>>
     \/ /\ step = "finalize" /\ Len(todo) > 1
        /\ step' = "begin" /\ sent' = 0 /\ todo' = Tail(todo)
        /\ phase' = "send" /\ UNCHANGED exit
     \/ /\ step = "finalize" /\ Len(asked) = 1
        /\ step' = "status" /\ todo' = <<>> /\ phase' = "send" /\ UNCHANGED <<sent, exit>>
     \/ /\ \/ step = "status"
           \/ step = "finalize" /\ Len(todo) = 1 /\ Len(asked) > 1
        /\ phase' = "closed" /\ exit' = "ok" /\ UNCHANGED <<todo, step, sent>>

Matches(h) == IsHeader(h) /\ h[1].of.of.cmd = req.cmd /\ h[1].of.of.seq = req.seq

ReadStatus ==
  /\ phase = "wait" /\ Len(wire) >= 2
  /\ LET h == SubSeq(wire, 1, 2)
         a == h[1].of IN
     \/ ~Matches(h) /\ Fail /\ UNCHANGED answered
     \/ /\ Matches(h)
        /\ answered' = answered \union {[seq |-> req.seq, from |-> a.of.session]}
        /\ \/ ~Acceptable(a) /\ Fail
           \/ Acceptable(a) /\ Advance(a)
  /\ Take(2)
  /\ UNCHANGED <<session, req, asked, device, stored>>

TimedOut ==
  /\ phase = "wait"
  /\ TakeShort(2) /\ Fail
  /\ UNCHANGED <<session, req, answered, asked, device, stored>>

Next == Firmware \/ Run \/ Killed \/ SendFrame \/ ReadStatus \/ TimedOut

Spec == Init /\ [][Next]_vars

----------------------------------------------------------------------------
TypeOK ==
  /\ session \in 0 .. MaxSession /\ seq \in 1 .. 2 * Chunks + 7
  /\ phase \in {"closed", "send", "wait"}
  /\ step \in {"ping", "begin", "data", "finalize", "status"}
  /\ exit \in {"none", "killed", "failed", "ok"}
  /\ sent \in 0 .. Chunks /\ Len(device.chunks) <= MaxSession * Chunks
  /\ \A i \in 1 .. Len(todo) : todo[i] \in Target

Own == \A a \in answered : a.from = session

\* What a run accepts is all from one run of the program, as with the bridge.
AnswersOfOneRun == \A a, b \in answered : a.from = b.from

\* A run that ends well has its blobs in flash: every chunk, once, in order, and
\* none that an earlier run began with and left.
UploadedIsStored ==
  exit = "ok" /\ Own => \A i \in 1 .. Len(asked) : stored[asked[i]] = Whole(session)

\* The network information of a run that brings both goes to flash after its model.
InfoFollowsModel ==
  Own /\ Len(asked) = 2 /\ stored["nn_info"] = Whole(session)
    => stored["model"] = Whole(session)

\* What is in flash is never made of two uploads.
StoredIsOneUpload ==
  \A t \in Target : stored[t] = <<>> \/ \E s \in 1 .. MaxSession : stored[t] = Whole(s)

=============================================================================
