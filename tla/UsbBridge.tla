----------------------------- MODULE UsbBridge -----------------------------
(***************************************************************************)
(* The host's end of the USB bridge: UsbBridgeTransport of usb_bridge.py   *)
(* under the callbacks of the Python binding.  The driver calls I2C and    *)
(* SPI callbacks; each becomes one framed request (spi_write one for each  *)
(* chunk) and waits for one framed answer.  An exception becomes -1 for    *)
(* the driver, which is free to go on with its next access.  A program     *)
(* may be stopped at any time and started again; every tool pings first    *)
(* and gives up if the ping fails.                                         *)
(***************************************************************************)
EXTENDS UsbPipe, FiniteSets

CONSTANTS MaxSession, MaxSeq, MaxChunks

BridgeAssumption == {MaxSession, MaxSeq, MaxChunks} \subseteq Nat \ {0}

Reads  == {"i2c_read", "spi_read"}
Writes == {"i2c_write", "spi_write"}

VARIABLES
  session,   \* how often the port has been opened
  seq,       \* sequence number of the next request
  phase,     \* "closed", "idle", "send", "header" or "payload"
  req,       \* the request under way
  call,      \* the callback under way: its kind, chunks left, total, first request
  answered   \* this transport's accepted answers: number, and the transport they answer

bvars == <<session, seq, phase, req, call, answered>>
vars  == <<pipe, bvars>>

NoReq  == [session |-> 0, seq |-> 0, cmd |-> "none"]
NoCall == [op |-> "none", left |-> 0, total |-> 0, from |-> 0, ret |-> "none"]

Init ==
  /\ inbox = <<>> /\ wire = <<>> /\ executed = <<>>
  /\ session = 0 /\ seq = 1 /\ phase = "closed" /\ req = NoReq
  /\ call = NoCall /\ answered = {}

----------------------------------------------------------------------------
\* The firmware: one answer for each request.  A read that succeeds has a
\* payload; a write tells how much it wrote, which may be less than asked.
AnswersTo(r) ==
  {[of |-> r, ok |-> ok, data |-> IF ok /\ r.cmd \in Reads THEN 1 ELSE 0,
    value |-> v] : ok \in BOOLEAN, v \in IF r.cmd \in Writes THEN {0, 1} ELSE {0}}

Firmware ==
  /\ inbox # <<>>
  /\ Serve({a \in AnswersTo(Head(inbox)) : a.ok \/ a.value = 0})
  /\ UNCHANGED bvars

----------------------------------------------------------------------------
\* Open the port: the input buffer is emptied and the first request is a ping.
Open ==
  /\ phase = "closed" /\ session < MaxSession
  /\ session' = session + 1 /\ seq' = 1 /\ answered' = {}
  /\ phase' = "send"
  /\ call' = [NoCall EXCEPT !.op = "ping", !.left = 1, !.from = 1]
  /\ ResetInput /\ UNCHANGED req

\* The program ends, or is stopped, whatever it was doing.
Close ==
  /\ phase # "closed"
  /\ phase' = "closed" /\ call' = NoCall /\ req' = NoReq
  /\ UNCHANGED <<pipe, session, seq, answered>>

\* The driver calls one of the four callbacks.
Callback ==
  /\ phase = "idle"
  /\ \E op \in Reads \union Writes, n \in 1 .. MaxChunks :
       /\ op # "spi_write" => n = 1
       /\ seq + n <= MaxSeq + 1
       /\ call' = [op |-> op, left |-> n, total |-> 0, from |-> seq, ret |-> "none"]
  /\ phase' = "send"
  /\ UNCHANGED <<pipe, session, seq, req, answered>>

\* request(): number it, write header and payload.
Request ==
  /\ phase = "send"
  /\ req' = [session |-> session, seq |-> seq, cmd |-> call.op]
  /\ Write(req')
  /\ seq' = seq + 1
  /\ phase' = "header"
  /\ UNCHANGED <<session, call, answered>>

\* An exception: -1 for the driver, or the end of the tool after a ping.
Raised ==
  /\ phase' = IF call.op = "ping" THEN "closed" ELSE "idle"
  /\ call' = [call EXCEPT !.ret = "raised"]
  /\ UNCHANGED <<session, seq, req, answered>>

\* request() gives back the answer a; the callback uses it.
Returned(a) ==
  /\ answered' = answered \union {[seq |-> req.seq, from |-> a.of.session]}
  /\ \/ /\ ~a.ok /\ call.op # "ping"
        /\ call' = [call EXCEPT !.ret = "raised"] /\ phase' = "idle"
     \/ /\ a.ok \/ call.op = "ping"
        /\ call' = [call EXCEPT !.total = @ + a.value, !.left = @ - 1,
                                !.ret = IF call.left = 1 THEN "total" ELSE "none"]
        /\ phase' = IF call.left = 1 THEN "idle" ELSE "send"
  /\ UNCHANGED <<session, seq, req>>

\* The number is not looked at.
MatchesCommand(h) == IsHeader(h) /\ h[1].of.of.cmd = req.cmd

\* What the header must say: magic and version are right in any whole header.
Matches(h) == IsHeader(h) /\ h[1].of.of.cmd = req.cmd /\ h[1].of.of.seq = req.seq

ReadHeader ==
  /\ phase = "header" /\ Len(wire) >= 2
  /\ LET h == SubSeq(wire, 1, 2) IN
     \/ ~Matches(h) /\ Raised
     \/ /\ Matches(h) /\ h[1].of.data > 0
        /\ phase' = "payload" /\ UNCHANGED <<session, seq, req, call, answered>>
     \/ Matches(h) /\ h[1].of.data = 0 /\ Returned(h[1].of)
  /\ Take(2)

ReadPayload ==
  /\ phase = "payload" /\ wire # <<>>
  /\ Returned(Head(wire).of)
  /\ Take(1)

\* The serial read gives back what it has after its timeout, and it is too short.
TimedOut ==
  /\ \/ phase = "header" /\ TakeShort(2)
     \/ phase = "payload" /\ TakeShort(1)
  /\ Raised

Next ==
  \/ Firmware \/ Open \/ Close \/ Callback \/ Request
  \/ ReadHeader \/ ReadPayload \/ TimedOut

Spec == Init /\ [][Next]_vars

----------------------------------------------------------------------------
TypeOK ==
  /\ session \in 0 .. MaxSession /\ seq \in 1 .. MaxSeq + 1
  /\ phase \in {"closed", "idle", "send", "header", "payload"}
  /\ answered \subseteq [seq : 1 .. MaxSeq, from : 1 .. MaxSession]
  /\ call.ret \in {"none", "raised", "total"}
  /\ call.left \in 0 .. MaxChunks /\ call.total \in 0 .. MaxChunks
  /\ Len(inbox) <= MaxSession * MaxSeq

\* Late answers of an earlier transport, whose numbers also began at 1, can reach
\* a new one.  What a transport accepts is all from one and the same transport:
\* if its ping was answered by its own ping, every answer after it is its own.
AnswersOfOneTransport == \A a, b \in answered : a.from = b.from

Own == \A a \in answered : a.from = session

\* Once a request of a transport that gets its own answers has gone without one (a timeout)
\* the line is out of step, and no later request of that transport is answered: the driver
\* gets errors, never another's data.  Where an earlier transport's answers are taken, a
\* refused one is consumed and the next one fits again.
OutOfStepStaysSo == Own => {a.seq : a \in answered} = 1 .. Cardinality(answered)

\* What spi_write() tells the driver it wrote is what the firmware wrote of it,
\* over all the chunks of the call, as long as the answers are the transport's own.
Written(n) == {i \in 1 .. Len(executed) :
                 /\ executed[i].of.session = session
                 /\ executed[i].of.seq >= n /\ executed[i].value = 1}

TotalIsWritten ==
  Own /\ phase = "idle" /\ call.op = "spi_write" /\ call.ret = "total"
    => call.total = Cardinality(Written(call.from))

=============================================================================
