--------------------------- MODULE I2cBlobTransfer --------------------------
(***************************************************************************)
(* run_i2c_blob_transfer and abort_i2c_payload_operation of                *)
(* ArducamIMX500SDK.c, one register access per step, against the module    *)
(* below, which moves between any two of them.  Every bus                  *)
(* access may fail; a write reported as failed may have arrived, and a     *)
(* write reported as done may have been damaged or lost.                   *)
(*                                                                         *)
(* The camera module's payload importer as the SDK sees it over I2C: the   *)
(* registers of ai_regs.h (operation request, status, result, byte         *)
(* counters, accepted bytes, boot status) and the firmware that moves them. *)
(* The firmware is not in the repository; every action here is modelled    *)
(* from what the SDK expects, tolerates or reports of it, and whatever the *)
(* SDK does not rely on is left nondeterministic: the firmware may be      *)
(* arbitrarily slow, refuse a request, fail at any point, or restart.      *)
(*                                                                         *)
(* A payload is sent as a byte stream: the header (SpiBlobWireHeader), the *)
(* payload, then zero padding.  A byte is identified by the blob whose     *)
(* stream it belongs to and its position, so a piece of a stream is a blob *)
(* with a half-open interval of positions.                                 *)
(***************************************************************************)
EXTENDS FlashStatus

CONSTANTS
  Ops,        \* I2C_PAYLOAD_OP_*: the import operations (3..6 in ai_regs.h)
  PaddedOps,  \* those whose stream is padded to a bridge block (MODEL_TO_MEMORY)
  Blobs,      \* the payloads a caller may pass
  Size,       \* Size[b]: bytes of b
  HeaderLen,  \* sizeof(SpiBlobWireHeader)
  BlockLen,   \* SPI_BRIDGE_BLOCK_LEN
  FifoCap,    \* I2C_PAYLOAD_MAX_WRITE_REG: most bytes one data write may hold
  MaxResets,  \* bound: spontaneous module restarts
  ABORT,      \* I2C_PAYLOAD_OP_ABORT
  NoBlob      \* nothing

ASSUME DeviceAssumption ==
  /\ PaddedOps \subseteq Ops
  /\ ABORT \notin Ops
  /\ NoBlob \notin Blobs
  /\ Size \in [Blobs -> Nat \ {0}]
  /\ HeaderLen \in Nat \ {0}
  /\ BlockLen \in Nat \ {0}
  /\ FifoCap \in Nat \ {0}
  /\ MaxResets \in Nat

VARIABLES
  opReg,    \* I2C_PAYLOAD_OP_REG: the operation last requested
  opPend,   \* that request has not been acted upon yet
  sess,     \* the import in progress: its operation, its blob, bytes received
  fifo,     \* bytes accepted from the bus and not drained yet
  boot,     \* BOOT_STATUS_REG >= 1
  resets,   \* restarts so far
  store,    \* store[o]: the blob last imported by operation o
  imported  \* history: <<o, b>> imported since the last transfer call began

devVars == <<reg, opReg, opPend, sess, fifo, boot, resets, store, imported>>

Sessions == [op : Ops \cup {ABORT}, blob : Blobs \cup {NoBlob}, rx : Nat,
             intact : BOOLEAN]
Fifos == [blob : Blobs \cup {NoBlob}, lo : Nat, hi : Nat]

DeviceTypeOK ==
  /\ reg \in FlashRegs
  /\ opReg \in Ops \cup {ABORT}
  /\ opPend \in BOOLEAN
  /\ sess \in Sessions
  /\ fifo \in Fifos
  /\ boot \in BOOLEAN
  /\ resets \in 0..MaxResets
  /\ store \in [Ops -> Blobs \cup {NoBlob}]
  /\ imported \subseteq Ops \X Blobs

-----------------------------------------------------------------------------
\* spi_bridge_padding_len
PaddingLen(n) == IF n % BlockLen = 0 THEN 0 ELSE BlockLen - (n % BlockLen)
StreamLen(o, b) ==
  HeaderLen + Size[b] + (IF o \in PaddedOps THEN PaddingLen(Size[b]) ELSE 0)

NoSession   == [op |-> ABORT, blob |-> NoBlob, rx |-> 0, intact |-> TRUE]
EmptyFifo   == [blob |-> NoBlob, lo |-> 0, hi |-> 0]
Accepted    == fifo.hi - fifo.lo      \* I2C_PAYLOAD_ACCEPTED_REG

DevInit ==
  /\ reg = ClearedReg("IDLE", "NONE")
  /\ opReg = ABORT
  /\ opPend = FALSE
  /\ sess = NoSession
  /\ fifo = EmptyFifo
  /\ boot = TRUE
  /\ resets = 0
  /\ store = [o \in Ops |-> NoBlob]
  /\ imported = {}

\* The registers as a stopped import leaves them: the counters stay readable.
Stop(status, result) ==
  /\ reg' = [reg EXCEPT !.status = status, !.result = result]
  /\ sess' = NoSession
  /\ fifo' = EmptyFifo

-----------------------------------------------------------------------------
\* An abort ends whatever import is in progress and idles the receiver.
TakeAbort ==
  /\ boot /\ opPend /\ opReg = ABORT
  /\ opPend' = FALSE
  /\ reg' = ClearedReg("IDLE", "NONE")
  /\ sess' = NoSession
  /\ fifo' = EmptyFifo
  /\ UNCHANGED <<opReg, boot, resets, store, imported>>

\* A request starts a new import, in place of one in progress, ...
TakeOp ==
  /\ boot /\ opPend /\ opReg # ABORT
  /\ opPend' = FALSE
  /\ reg' = ClearedReg("WAIT_HEADER", "NONE")
  /\ sess' = [NoSession EXCEPT !.op = opReg]
  /\ fifo' = EmptyFifo
  /\ UNCHANGED <<opReg, boot, resets, store, imported>>

\* ... or is refused (BUSY, BAD_OPERATION, NOT_SUPPORTED, NO_MEMORY).
RefuseOp ==
  /\ boot /\ opPend /\ opReg # ABORT
  /\ opPend' = FALSE
  /\ Stop("FAILED", "ERROR")
  /\ UNCHANGED <<opReg, boot, resets, store, imported>>

\* Bytes leave the FIFO in order.  A byte that is not the next one of the
\* stream the import began with makes the import's CRC wrong.
Drain(n) ==
  /\ reg.status \in {"WAIT_HEADER", "RECEIVING"}
  /\ n \in 1..Accepted
  /\ sess' = [sess EXCEPT
       !.rx = @ + n,
       !.blob = IF sess.rx = 0 THEN fifo.blob ELSE @,
       !.intact = @ /\ fifo.lo = sess.rx /\ (sess.rx = 0 \/ fifo.blob = sess.blob)]
  /\ fifo' = IF n = Accepted THEN EmptyFifo ELSE [fifo EXCEPT !.lo = @ + n]
  /\ UNCHANGED <<reg, opReg, opPend, boot, resets, store, imported>>

\* The whole header is in: its size field is published.  A damaged header is
\* refused by Fail.
ParseHeader ==
  /\ reg.status = "WAIT_HEADER"
  /\ sess.rx >= HeaderLen
  /\ sess.intact
  /\ reg' = [reg EXCEPT !.status = "RECEIVING", !.total = Size[sess.blob]]
  /\ UNCHANGED <<opReg, opPend, sess, fifo, boot, resets, store, imported>>

\* SPI_FLASH_BYTES_DONE_REG follows the received payload, with any delay.
CountBytes(n) ==
  /\ reg.status = "RECEIVING"
  /\ n \in reg.done + 1 .. Lesser(sess.rx - HeaderLen, reg.total)
  /\ reg' = [reg EXCEPT !.done = n]
  /\ UNCHANGED <<opReg, opPend, sess, fifo, boot, resets, store, imported>>

\* Payload and padding complete: the payload is verified and parsed.
BeginParsing ==
  /\ reg.status = "RECEIVING"
  /\ reg.done = reg.total
  /\ sess.rx >= StreamLen(sess.op, sess.blob)
  /\ reg' = [reg EXCEPT !.status = "PARSING"]
  /\ UNCHANGED <<opReg, opPend, sess, fifo, boot, resets, store, imported>>

\* A payload whose CRC agrees with the header becomes the operation's blob.
Commit ==
  /\ reg.status = "PARSING"
  /\ sess.intact
  /\ store' = [store EXCEPT ![sess.op] = sess.blob]
  /\ imported' = imported \cup {<<sess.op, sess.blob>>}
  /\ Stop("SUCCESS", "OK")
  /\ UNCHANGED <<opReg, opPend, boot, resets>>

\* Any import may fail: module-side timeout, bad header or size, flash write
\* error, CRC mismatch, parse error.
Fail ==
  /\ ImportOpen
  /\ Stop("FAILED", "ERROR")
  /\ UNCHANGED <<opReg, opPend, boot, resets, store, imported>>

\* The module restarts: every register returns to its power-up value.
Restart ==
  /\ resets < MaxResets
  /\ resets' = resets + 1
  /\ boot' = FALSE
  /\ reg' = ClearedReg("IDLE", "NONE")
  /\ opReg' = ABORT
  /\ opPend' = FALSE
  /\ sess' = NoSession
  /\ fifo' = EmptyFifo
  /\ UNCHANGED <<store, imported>>

Booted ==
  /\ ~boot
  /\ boot' = TRUE
  /\ UNCHANGED <<reg, opReg, opPend, sess, fifo, resets, store, imported>>

DevNext ==
  \/ TakeAbort \/ TakeOp \/ RefuseOp
  \/ \E n \in 1..FifoCap : Drain(n)
  \/ ParseHeader
  \/ \E n \in 1..reg.total : CountBytes(n)
  \/ BeginParsing \/ Commit \/ Fail
  \/ Restart \/ Booted

-----------------------------------------------------------------------------
\* What a bus access does to the module, whatever it reports to the host.

\* A write to I2C_PAYLOAD_OP_REG.
RequestOp(o) ==
  /\ opReg' = o
  /\ opPend' = boot
  /\ UNCHANGED <<reg, sess, fifo, boot, resets, store, imported>>

\* A write of the stream bytes lo..hi-1 of b to I2C_PAYLOAD_DATA_REG, damaged
\* on the wire unless clean.  Without an import to feed they are ignored; what
\* does not fit the FIFO is lost.
AcceptBytes(b, lo, hi, clean) ==
  /\ IF reg.status \in {"WAIT_HEADER", "RECEIVING"}
     THEN /\ fifo' = IF Accepted = 0
                     THEN [blob |-> b, lo |-> lo, hi |-> Lesser(hi, lo + FifoCap)]
                     ELSE fifo
          /\ sess' = [sess EXCEPT !.intact = @ /\ clean /\ Accepted = 0]
     ELSE UNCHANGED <<sess, fifo>>
  /\ UNCHANGED <<reg, opReg, opPend, boot, resets, store, imported>>

-----------------------------------------------------------------------------
(***************************************************************************)
(* The SDK                                                                 *)
(***************************************************************************)
CONSTANTS
  HasBlock,     \* g_i2c_driver.write_block is registered
  DefaultChunk, \* I2C_PAYLOAD_DEFAULT_CHUNK_LEN
  FallbackChunk,\* I2C_PAYLOAD_FALLBACK_CHUNK_LEN
  MaxCalls,     \* bound: calls the application makes
  PromptOp      \* the application's next call comes after the module has
                \* acted upon the last import request

ASSUME HostAssumption ==
  /\ HasBlock \in BOOLEAN
  /\ DefaultChunk \in Nat \ {0}
  /\ FallbackChunk \in Nat \ {0}
  /\ MaxCalls \in Nat
  /\ PromptOp \in BOOLEAN

VARIABLES
  call,     \* the call in progress: is it a transfer, its operation and blob
  maxWrite, \* max_write
  sent,     \* stream_sent
  offered,  \* history: the <<operation, blob>> pairs of all transfers so far
  ret,      \* what the last transfer returned: "none" until it does
  abortRet, \* what the last abort_i2c_payload_operation returned
  calls     \* calls so far

\* what stays as it is while a call goes on
callVars == <<call, offered, ret, abortRet, calls>>
hostVars == <<pollVars, maxWrite, sent, callVars>>
vars == <<devVars, hostVars>>

-----------------------------------------------------------------------------
\* Where the SDK can be: where it needs a status (all but "initial" are wait
\* loops), or at another register access.
PollPcs == {"initial", "settle", "abortWait", "waitHeader", "drain", "arm",
            "progress", "final"}
DataPcs == {"write", "drain", "arm", "progress", "final"}
Pcs == PollPcs \cup
       {"idle", "boot", "abort", "request", "maxWrite", "write", "giveUp"}

NoCall == [transfer |-> FALSE, op |-> ABORT, blob |-> NoBlob]

Init ==
  /\ DevInit
  /\ StatusInit
  /\ call = NoCall
  /\ maxWrite = FallbackChunk
  /\ sent = 0
  /\ offered = {}
  /\ ret = "none"
  /\ abortRet = "none"
  /\ calls = 0

\* The call goes on.
Stay == UNCHANGED <<maxWrite, sent, callVars>>

Return(value) ==
  /\ Goto("idle")
  /\ call' = NoCall
  /\ maxWrite' = FallbackChunk
  /\ sent' = 0
  /\ IF call.transfer
     THEN ret' = value /\ UNCHANGED abortRet
     ELSE abortRet' = value /\ UNCHANGED ret
  /\ UNCHANGED <<offered, calls>>

CallTransfer(o, b) ==
  /\ pc = "idle"
  /\ calls < MaxCalls
  /\ PromptOp => ~ (opPend /\ opReg # ABORT)
  /\ Goto("boot")
  /\ call' = [transfer |-> TRUE, op |-> o, blob |-> b]
  /\ offered' = offered \cup {<<o, b>>}
  /\ ret' = "none"
  /\ calls' = calls + 1
  /\ imported' = {}
  /\ UNCHANGED <<reg, opReg, opPend, sess, fifo, boot, resets, store,
                 maxWrite, sent, abortRet>>

CallAbort ==
  /\ pc = "idle"
  /\ calls < MaxCalls
  /\ Goto("abort")
  /\ abortRet' = "none"
  /\ calls' = calls + 1
  /\ UNCHANGED <<devVars, maxWrite, sent, call, offered, ret>>

GetStatus ==
  /\ pc \in PollPcs
  /\ ReadStatusReg
  /\ UNCHANGED <<devVars, maxWrite, sent, callVars>>

-----------------------------------------------------------------------------
\* Claiming the receiver

\* wait_for_boot_status: a read that fails ends the wait.
WaitBoot ==
  /\ pc = "boot"
  /\ \/ boot /\ Goto("initial") /\ Stay
     \/ ~boot /\ PollAgain /\ Stay
     \/ ~boot /\ TimedOut /\ Return("false")
     \/ Return("false")
  /\ UNCHANGED devVars

\* An operation left over by an earlier call is given time to end.
CheckInitial ==
  /\ pc = "initial"
  /\ \/ /\ HaveStatus
        /\ Goto(IF IsTerminal(snap.status) THEN "request" ELSE "settle")
        /\ Stay
     \/ rd = Failed /\ Return("false")
  /\ UNCHANGED devVars

\* One that does not end by itself is aborted.
WaitSettled ==
  /\ pc = "settle"
  /\ Answered
  /\ IF HaveStatus /\ IsTerminal(snap.status)
     THEN Goto("request")
     ELSE PollAgain \/ (TimedOut /\ Goto("abort"))
  /\ Stay
  /\ UNCHANGED devVars

RequestAbort ==
  /\ pc = "abort"
  /\ \/ RequestOp(ABORT) /\ Goto("abortWait") /\ Stay
     \/ (RequestOp(ABORT) \/ UNCHANGED devVars) /\ Return("false")

\* Mutant: any ended operation will do.
PayloadEnded == HaveStatus /\ IsTerminal(snap.status)

PayloadIdle == HaveStatus /\ snap.status = "IDLE"

\* wait_for_i2c_payload_idle; an unreadable operation register counts as ABORT.
WaitIdle ==
  /\ pc = "abortWait"
  /\ Answered
  /\ \/ /\ PayloadIdle
        /\ IF call.transfer THEN Goto("request") /\ Stay ELSE Return("true")
     \/ /\ PayloadIdle => opReg # ABORT
        /\ (PollAgain /\ Stay) \/ (TimedOut /\ Return("false"))
  /\ UNCHANGED devVars

RequestImport ==
  /\ pc = "request"
  /\ \/ RequestOp(call.op) /\ Goto("waitHeader") /\ Stay
     \/ (RequestOp(call.op) \/ UNCHANGED devVars) /\ Return("false")

\* Mutant: the request is taken for granted once a status can be read.
StatusReadable == HaveStatus

ReceiverReady == HaveStatus /\ snap.status = "WAIT_HEADER"

\* This wait, alone among those after the request, ends without an abort.
WaitHeader ==
  /\ pc = "waitHeader"
  /\ Answered
  /\ IF ReceiverReady
     THEN Goto("maxWrite") /\ Stay
     ELSE (PollAgain /\ Stay) \/ (TimedOut /\ Return("false"))
  /\ UNCHANGED devVars

\* The module's limit, or the default when it cannot be read.
ReadMaxWrite ==
  /\ pc = "maxWrite"
  /\ maxWrite' \in IF HasBlock THEN {Lesser(FifoCap, DefaultChunk), DefaultChunk}
                               ELSE {FallbackChunk}
  /\ Goto("write")
  /\ UNCHANGED <<devVars, sent, callVars>>

-----------------------------------------------------------------------------
\* Streaming

StreamSize == StreamLen(call.op, call.blob)
Chunk == Lesser(StreamSize - sent, maxWrite)

\* Payload bytes among the first n of the stream (payload_after, payload_sent).
PayloadBytes(n) ==
  IF n > HeaderLen THEN Lesser(n - HeaderLen, Size[call.blob]) ELSE 0

\* Without write_block every write carries FallbackChunk bytes, the last one
\* filled up with zeros.
WireLen == IF HasBlock THEN Chunk ELSE FallbackChunk

WriteChunk ==
  /\ pc = "write"
  /\ \/ \E clean \in BOOLEAN : AcceptBytes(call.blob, sent, sent + WireLen, clean)
     \/ UNCHANGED devVars
  /\ Goto("drain") \/ Goto("giveUp")
  /\ Stay

NextChunk(n) == Goto(IF n < StreamSize THEN "write" ELSE "final")

\* stream_sent += chunk, and which wait follows
Advance ==
  LET after == sent + Chunk
  IN  /\ sent' = after
      /\ IF PayloadBytes(after) > 0 THEN Goto("progress")
         ELSE IF after >= HeaderLen THEN Goto("arm")
         ELSE NextChunk(after)
      /\ UNCHANGED <<maxWrite, callVars>>

\* Mutant: the accepted bytes are not looked at.
DrainedBlindly == HaveStatus /\ ~GotFailed

Drained == HaveStatus /\ ~GotFailed /\ Accepted = 0

\* wait_for_i2c_payload_drained: ACCEPTED is read last, and that may fail.
WaitDrained ==
  /\ pc = "drain"
  /\ Answered
  /\ \/ GotFailed /\ Return("false")
     \/ Drained /\ Advance
     \/ PollAgain /\ Stay
     \/ TimedOut /\ IF GotFailed THEN Return("false") ELSE Goto("giveUp") /\ Stay
  /\ UNCHANGED devVars

\* The header went without payload: wait for RECEIVING.
WaitArmed ==
  /\ pc = "arm"
  /\ Answered
  /\ IF HaveStatus /\ snap.status = "RECEIVING"
     THEN NextChunk(sent)
     ELSE PollAgain \/ (TimedOut /\ Goto("giveUp"))
  /\ Stay
  /\ UNCHANGED devVars

Reached == HaveStatus /\ snap.done >= PayloadBytes(sent)

\* wait_for_spi_flash_progress(payload_sent), and the check for FAILED after it
WaitProgress ==
  /\ pc = "progress"
  /\ Answered
  /\ \/ GotFailed /\ Return("false")
     \/ ~GotFailed /\ Reached /\ NextChunk(sent) /\ Stay
     \/ /\ ~GotFailed /\ ~Reached
        /\ IF HaveStatus /\ snap.status = "SUCCESS"
           THEN Goto("giveUp")
           ELSE PollAgain \/ (TimedOut /\ Goto("giveUp"))
        /\ Stay
  /\ UNCHANGED devVars

\* The final wait_for_spi_flash_terminal and the verdict
WaitFinal ==
  /\ pc = "final"
  /\ Answered
  /\ IF HaveStatus /\ IsTerminal(snap.status)
     THEN Return(IF snap.status = "SUCCESS" /\ snap.result = "OK"
                 THEN "true" ELSE "false")
     ELSE (PollAgain \/ (TimedOut /\ Goto("giveUp"))) /\ Stay
  /\ UNCHANGED devVars

\* The abort written on a failed exchange: not waited for, its error ignored.
GiveUp ==
  /\ pc = "giveUp"
  /\ RequestOp(ABORT) \/ UNCHANGED devVars
  /\ Return("false")

-----------------------------------------------------------------------------
HostStep ==
  \/ GetStatus \/ WaitBoot \/ CheckInitial \/ WaitSettled \/ RequestAbort
  \/ WaitIdle \/ RequestImport \/ WaitHeader \/ ReadMaxWrite \/ WriteChunk
  \/ WaitDrained \/ WaitArmed \/ WaitProgress \/ WaitFinal \/ GiveUp

Next ==
  \/ \E o \in Ops, b \in Blobs : CallTransfer(o, b)
  \/ CallAbort
  \/ HostStep
  \/ DevNext /\ UNCHANGED hostVars

Spec == Init /\ [][Next]_vars

\* A call runs until it returns: the SDK is single-threaded and never blocks
\* but in its own sleeps.
FairSpec == Spec /\ WF_vars(HostStep)

-----------------------------------------------------------------------------
\* Every variable has its type: the loop counters stay within the loops' bounds.
TypeOK ==
  /\ DeviceTypeOK
  /\ StatusTypeOK
  /\ pc \in Pcs
  /\ call \in [transfer : BOOLEAN, op : Ops \cup {ABORT}, blob : Blobs \cup {NoBlob}]
  /\ maxWrite \in Nat \ {0}
  /\ sent \in Nat
  /\ offered \subseteq Ops \X Blobs
  /\ ret \in {"none", "true", "false"}
  /\ abortRet \in {"none", "true", "false"}
  /\ calls \in 0..MaxCalls

\* A transfer that returns true had its own blob imported by its own operation
\* after it was called: neither the SUCCESS of an earlier operation, nor one
\* read before a restart, nor a damaged or misplaced chunk leads to "true".
TrueMeansImported ==
  [][ret' = "true" /\ ret # "true" => <<call.op, call.blob>> \in imported]_vars

\* No operation ever imports a blob that was not offered for it: the stream of
\* one call never feeds an import that another call left open.
NoMisroute == \A o \in Ops : store[o] # NoBlob => <<o, store[o]>> \in offered

\* From the receiver's readiness on, an open import is this call's.
OwnImport == pc \in DataPcs \cup {"maxWrite"} /\ ImportOpen => sess.op = call.op

\* The SDK writes no byte into a FIFO that still holds some: the module's FIFO
\* is never overrun, whatever the waits before the write reported.
WriteOnlyWhenDrained == pc = "write" => Accepted = 0

\* When the SDK goes on to the next chunk, the module has counted all payload
\* sent so far; a byte count left by an earlier import does not satisfy the wait.
AckedIsReceived ==
  pc \in {"write", "final"} /\ ImportOpen /\ PayloadBytes(sent) > 0
    => reg.done >= PayloadBytes(sent)

\* The status and the result of the verdict belong together, although they are
\* read one after the other while the module may just be finishing.
VerdictNotTorn ==
  pc = "final" /\ HaveStatus /\ snap.status = "SUCCESS" /\ reg.status = "SUCCESS"
    => snap.result = "OK"

\* While a call runs: what the module imports was offered for that operation,
\* an open import is the call's own, its bytes are counted before more follow,
\* and the verdict read is one moment's.
TransferSafe == NoMisroute /\ OwnImport /\ AckedIsReceived /\ VerdictNotTorn

\* A transfer that gives up while it streams, without asking for an abort, does
\* so only when the module has already ended the import.
NoSilentAbandon ==
  [][(pc \in DataPcs /\ pc' = "idle" /\ ret' = "false") => ~ImportOpen]_vars

\* abort_i2c_payload_operation returns true only when the receiver is idle and
\* no request that could open it again is outstanding (ArducamIMX500SDK.h:581).
AbortLeavesIdle ==
  [][abortRet' = "true" /\ abortRet # "true" =>
       reg.status = "IDLE" /\ (opPend => opReg = ABORT)]_vars

\* However a call ends, what it says and what it leaves behind is so: "true" means
\* imported, a stream given up is aborted or over, and an abort leaves the
\* receiver idle.
EndsWell == TrueMeansImported /\ NoSilentAbandon /\ AbortLeavesIdle

\* Every call returns, however the module behaves and whatever fails.
CallReturns == pc # "idle" ~> pc = "idle"

\* A transfer is an atomic offer that the module imports or not, with the
\* verdict of BlobImport.
Promise == INSTANCE BlobImport WITH
  offer <- IF call.transfer THEN <<call.op, call.blob>> ELSE <<>>
ImplementsBlobImport == Promise!Spec
=============================================================================
