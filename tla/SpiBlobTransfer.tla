--------------------------- MODULE SpiBlobTransfer --------------------------
(***************************************************************************)
(* run_spi_blob_transfer of ArducamIMX500SDK.c, one bus access per step,   *)
(* against the module below, which moves between any two.  Every access    *)
(* may fail, and a write reported as failed may have arrived.  A block     *)
(* written over SPI may be damaged or lost although it is reported as      *)
(* done; a mode, a register write over I2C, that is reported as done has   *)
(* arrived.  Unlike the I2C transfer it has no abort: on failure it just   *)
(* returns, and leaves the module in whatever import it was.               *)
(*                                                                         *)
(* The camera module's payload importer as the SDK sees it over SPI.  The  *)
(* forwarding mode register chooses the import; switching to its mode      *)
(* opens it, and its end returns the mode to NONE.  Payload blocks are     *)
(* clocked into a receiver that must be armed for each chunk anew: a block *)
(* that meets an unarmed receiver is lost.  The firmware is not in the     *)
(* repository; what the SDK does not rely on is nondeterministic.          *)
(*                                                                         *)
(* Lengths are in bridge blocks (SPI_BRIDGE_BLOCK_LEN); the header is one  *)
(* write of its own.                                                       *)
(***************************************************************************)
EXTENDS FlashStatus

CONSTANTS
  Modes,     \* the forwarding modes that import: model or network info to
             \* flash, network info to memory
  NONE,      \* SPI_DATA_FORWARDING_NONE
  Blobs,     \* the payloads a caller may pass
  Size,      \* Size[b]: blocks of b
  ChunkLen,  \* SPI_FLASH_CHUNK_LEN, in blocks
  MaxResets, \* bound: spontaneous module restarts
  NoBlob     \* nothing

ASSUME SpiDeviceAssumption ==
  /\ NONE \notin Modes
  /\ NoBlob \notin Blobs
  /\ Size \in [Blobs -> Nat \ {0}]
  /\ ChunkLen \in Nat \ {0}
  /\ MaxResets \in Nat

VARIABLES
  modeReq,  \* the mode last written and not acted upon yet, or NONE
  mode,     \* METADATA_SPI_FORWARD_MODE_REG as it reads back
  due,      \* the mode was switched and its import has not been opened yet
  sess,     \* the import in progress: its blob, blocks received, all intact
  armed,    \* the receiver takes blocks
  boot,     \* BOOT_STATUS_REG >= 1
  resets,   \* restarts so far
  store,    \* store[m]: the blob last imported by mode m
  imported  \* history: <<m, b>> imported since the last transfer call began

devVars == <<reg, modeReq, mode, due, sess, armed, boot, resets, store, imported>>

Sessions == [blob : Blobs \cup {NoBlob}, rx : Nat, intact : BOOLEAN]
NoSession == [blob |-> NoBlob, rx |-> 0, intact |-> TRUE]

DeviceTypeOK ==
  /\ reg \in FlashRegs
  /\ modeReq \in Modes \cup {NONE}
  /\ mode \in Modes \cup {NONE}
  /\ due \in BOOLEAN
  /\ sess \in Sessions
  /\ armed \in BOOLEAN
  /\ boot \in BOOLEAN
  /\ resets \in 0..MaxResets
  /\ store \in [Modes -> Blobs \cup {NoBlob}]
  /\ imported \subseteq Modes \X Blobs

DevInit ==
  /\ reg = ClearedReg("IDLE", "NONE")
  /\ modeReq = NONE
  /\ mode = NONE
  /\ due = FALSE
  /\ sess = NoSession
  /\ armed = FALSE
  /\ boot = TRUE
  /\ resets = 0
  /\ store = [m \in Modes |-> NoBlob]
  /\ imported = {}

Stop(status, result) ==
  /\ reg' = [reg EXCEPT !.status = status, !.result = result]
  /\ sess' = NoSession
  /\ armed' = FALSE

-----------------------------------------------------------------------------
\* A written mode takes effect; an import in progress is given up for it.
SwitchMode ==
  /\ boot /\ modeReq # NONE
  /\ mode' = modeReq
  /\ modeReq' = NONE
  /\ due' = TRUE
  /\ IF ImportOpen THEN Stop("IDLE", "NONE") ELSE UNCHANGED <<reg, sess, armed>>
  /\ UNCHANGED <<boot, resets, store, imported>>

OpenImport ==
  /\ due
  /\ due' = FALSE
  /\ reg' = ClearedReg("WAIT_HEADER", "NONE")
  /\ sess' = NoSession
  /\ UNCHANGED <<modeReq, mode, armed, boot, resets, store, imported>>

RefuseImport ==
  /\ due
  /\ due' = FALSE
  /\ Stop("FAILED", "ERROR")
  /\ UNCHANGED <<modeReq, mode, boot, resets, store, imported>>

\* The header is in and makes sense; the receiver is not armed yet.
ParseHeader ==
  /\ reg.status = "WAIT_HEADER"
  /\ sess.blob # NoBlob /\ sess.intact
  /\ reg' = [reg EXCEPT !.status = "RECEIVING", !.total = Size[sess.blob]]
  /\ UNCHANGED <<modeReq, mode, due, sess, armed, boot, resets, store, imported>>

\* The chunk the receiver is armed for begins at the published count.
ChunkEnd == Lesser(reg.done + ChunkLen, reg.total)

Arm ==
  /\ reg.status = "RECEIVING"
  /\ ~armed
  /\ reg.done < reg.total /\ sess.rx = reg.done
  /\ armed' = TRUE
  /\ UNCHANGED <<reg, modeReq, mode, due, sess, boot, resets, store, imported>>

\* A complete chunk is stored, counted and published; only then is the
\* receiver armed for the next one.
CountChunk ==
  /\ reg.status = "RECEIVING"
  /\ sess.rx = ChunkEnd
  /\ sess.rx > reg.done
  /\ reg' = [reg EXCEPT !.done = sess.rx]
  /\ armed' = FALSE
  /\ UNCHANGED <<modeReq, mode, due, sess, boot, resets, store, imported>>

BeginParsing ==
  /\ reg.status = "RECEIVING"
  /\ reg.done = reg.total
  /\ reg' = [reg EXCEPT !.status = "PARSING"]
  /\ UNCHANGED <<modeReq, mode, due, sess, armed, boot, resets, store, imported>>

Commit ==
  /\ reg.status = "PARSING"
  /\ sess.intact
  /\ store' = [store EXCEPT ![mode] = sess.blob]
  /\ imported' = imported \cup {<<mode, sess.blob>>}
  /\ Stop("SUCCESS", "OK")
  /\ UNCHANGED <<modeReq, mode, due, boot, resets>>

Fail ==
  /\ ImportOpen
  /\ Stop("FAILED", "ERROR")
  /\ UNCHANGED <<modeReq, mode, due, boot, resets, store, imported>>

\* An ended import returns the forwarding mode to NONE, some time after its
\* status is published; a mode written meanwhile may be overwritten.
CloseMode ==
  /\ mode # NONE /\ ~due /\ ~ImportOpen
  /\ mode' = NONE
  /\ modeReq' \in {modeReq, NONE}
  /\ UNCHANGED <<reg, due, sess, armed, boot, resets, store, imported>>

Restart ==
  /\ resets < MaxResets
  /\ resets' = resets + 1
  /\ boot' = FALSE
  /\ reg' = ClearedReg("IDLE", "NONE")
  /\ modeReq' = NONE
  /\ mode' = NONE
  /\ due' = FALSE
  /\ sess' = NoSession
  /\ armed' = FALSE
  /\ UNCHANGED <<store, imported>>

Booted ==
  /\ ~boot
  /\ boot' = TRUE
  /\ UNCHANGED <<reg, modeReq, mode, due, sess, armed, resets, store, imported>>

DevNext ==
  \/ SwitchMode \/ OpenImport \/ RefuseImport \/ ParseHeader \/ Arm \/ CountChunk
  \/ BeginParsing \/ Commit \/ Fail \/ CloseMode \/ Restart \/ Booted

-----------------------------------------------------------------------------
\* What a bus access does to the module, whatever it reports to the host.

\* A write to METADATA_SPI_FORWARD_MODE_REG.
RequestMode(m) ==
  /\ modeReq' = IF boot THEN m ELSE NONE
  /\ UNCHANGED <<reg, mode, due, sess, armed, boot, resets, store, imported>>

\* The header of b, damaged on the wire unless clean.
AcceptHeader(b, clean) ==
  /\ IF reg.status = "WAIT_HEADER"
     THEN sess' = [sess EXCEPT !.blob = b, !.intact = @ /\ clean /\ sess.blob = NoBlob]
     ELSE UNCHANGED sess
  /\ UNCHANGED <<reg, modeReq, mode, due, armed, boot, resets, store, imported>>

\* Block k of the payload of b.  A receiver that is not armed, or has its
\* chunk, does not see it.
AcceptBlock(b, k, clean) ==
  /\ IF reg.status = "RECEIVING" /\ armed /\ sess.rx < ChunkEnd
     THEN sess' = [sess EXCEPT
            !.rx = @ + 1,
            !.intact = @ /\ clean /\ k = sess.rx /\ b = sess.blob]
     ELSE UNCHANGED sess
  /\ UNCHANGED <<reg, modeReq, mode, due, armed, boot, resets, store, imported>>

-----------------------------------------------------------------------------
(***************************************************************************)
(* The SDK                                                                 *)
(***************************************************************************)
CONSTANTS
  MaxCalls,  \* bound: calls the application makes
  PromptArm  \* a counted chunk's receiver is armed again within
             \* SPI_FLASH_RECEIVER_ARM_GUARD_MS

ASSUME SpiHostAssumption ==
  /\ MaxCalls \in Nat
  /\ PromptArm \in BOOLEAN

VARIABLES
  call,     \* the call in progress: its mode and blob
  sent,     \* sent, in blocks
  queued,   \* blocks of the current chunk not written yet
  offered,  \* history: the <<mode, blob>> pairs of all calls so far
  ret,      \* what the last call returned: "none" until it does
  calls     \* calls so far

callVars == <<call, offered, ret, calls>>
hostVars == <<pollVars, sent, queued, callVars>>
vars == <<devVars, hostVars>>

-----------------------------------------------------------------------------
\* Where the SDK is in a loop that reads the status, or the forwarding mode
PollPcs == {"initial", "settle", "waitHeader", "receiver", "confirm", "progress", "final"}
ModePcs == {"settleMode", "switching", "closing"}
Pcs == PollPcs \cup ModePcs \cup {"idle", "boot", "switch", "header", "guard", "write"}

\* From the header on, the import belongs to the call.
DataPcs == {"header", "receiver", "guard", "confirm", "write", "progress", "final"}

NoCall == [mode |-> NONE, blob |-> NoBlob]

Init ==
  /\ DevInit
  /\ StatusInit
  /\ call = NoCall
  /\ sent = 0
  /\ queued = 0
  /\ offered = {}
  /\ ret = "none"
  /\ calls = 0

Stay == UNCHANGED <<sent, queued, callVars>>

\* Every return, also a failed one: nothing is said to the module.
Return(value) ==
  /\ Goto("idle")
  /\ call' = NoCall
  /\ sent' = 0
  /\ queued' = 0
  /\ ret' = value
  /\ UNCHANGED <<offered, calls>>

CallTransfer(m, b) ==
  /\ pc = "idle"
  /\ calls < MaxCalls
  /\ Goto("boot")
  /\ call' = [mode |-> m, blob |-> b]
  /\ offered' = offered \cup {<<m, b>>}
  /\ ret' = "none"
  /\ calls' = calls + 1
  /\ imported' = {}
  /\ UNCHANGED <<reg, modeReq, mode, due, sess, armed, boot, resets, store, sent, queued>>

GetStatus ==
  /\ pc \in PollPcs
  /\ ReadStatusReg
  /\ UNCHANGED <<devVars, sent, queued, callVars>>

-----------------------------------------------------------------------------
\* Opening the import

\* wait_for_boot_status
WaitBoot ==
  /\ pc = "boot"
  /\ \/ boot /\ Goto("initial") /\ Stay
     \/ ~boot /\ PollAgain /\ Stay
     \/ ~boot /\ TimedOut /\ Return("false")
     \/ Return("false")
  /\ UNCHANGED devVars

CheckInitial ==
  /\ pc = "initial"
  /\ \/ /\ HaveStatus
        /\ Goto(IF IsTerminal(snap.status) THEN "switch" ELSE "settle")
        /\ Stay
     \/ rd = Failed /\ Return("false")
  /\ UNCHANGED devVars

\* An import left over by an earlier call must end by itself, ...
WaitSettled ==
  /\ pc = "settle"
  /\ Answered
  /\ IF HaveStatus /\ IsTerminal(snap.status)
     THEN Goto("settleMode") /\ Stay
     ELSE (PollAgain /\ Stay) \/ (TimedOut /\ Return("false"))
  /\ UNCHANGED devVars

\* ... and its mode return to NONE.
WaitSettledMode ==
  /\ pc = "settleMode"
  /\ \/ IF mode = NONE
        THEN Goto("switch") /\ Stay
        ELSE (PollAgain /\ Stay) \/ (TimedOut /\ Return("false"))
     \/ Return("false")
  /\ UNCHANGED devVars

\* switch_spi_data_forward_mode: one register write over I2C, acknowledged when
\* it is reported as done, ...
WriteMode ==
  /\ pc = "switch"
  /\ \/ RequestMode(call.mode) /\ Goto("switching") /\ Stay
     \/ (RequestMode(call.mode) \/ UNCHANGED devVars) /\ Return("false")

\* Mutant: the switch is taken for done once it was written.
SwitchAssumed == TRUE

ModeSwitched == mode = call.mode

\* ... then the mode must read back.
WaitSwitched ==
  /\ pc = "switching"
  /\ \/ IF ModeSwitched
        THEN Goto("waitHeader") /\ Stay
        ELSE (PollAgain /\ Stay) \/ (TimedOut /\ Return("false"))
     \/ Return("false")
  /\ UNCHANGED devVars

ReceiverReady == HaveStatus /\ snap.status = "WAIT_HEADER"

WaitHeader ==
  /\ pc = "waitHeader"
  /\ Answered
  /\ IF ReceiverReady
     THEN Goto("header") /\ Stay
     ELSE (PollAgain /\ Stay) \/ (TimedOut /\ Return("false"))
  /\ UNCHANGED devVars

-----------------------------------------------------------------------------
\* Streaming

WriteHeader ==
  /\ pc = "header"
  /\ \/ \E clean \in BOOLEAN : AcceptHeader(call.blob, clean)
     \/ UNCHANGED devVars
  /\ (Goto("receiver") /\ Stay) \/ Return("false")

\* The module says it is where the SDK is: "sent" of all blocks received.
InStep ==
  /\ HaveStatus
  /\ snap.status = "RECEIVING"
  /\ snap.done = sent
  /\ snap.total = Size[call.blob]

\* Mutant: the receiver is taken for armed without the guard time.
GuardSkipped == Continue("confirm")

\* The time a receiver that has published its count is given to arm itself
GuardSlept ==
  /\ PromptArm /\ reg.status = "RECEIVING" /\ reg.done = sess.rx => armed
  /\ Continue("confirm")

\* wait_for_spi_flash_receiver: in step, then ...
WaitReceiver ==
  /\ pc = "receiver"
  /\ Answered
  /\ IF InStep
     THEN Continue("guard") /\ Stay
     ELSE IF HaveStatus /\ snap.status \in {"FAILED", "SUCCESS"}
          THEN Return("false")
          ELSE (PollAgain /\ Stay) \/ (TimedOut /\ Return("false"))
  /\ UNCHANGED devVars

\* ... the guard time, ...
Guard ==
  /\ pc = "guard"
  /\ GuardSlept
  /\ Stay
  /\ UNCHANGED devVars

\* ... and still in step.  The next chunk begins.
Confirm ==
  /\ pc = "confirm"
  /\ Answered
  /\ IF InStep
     THEN /\ Goto("write")
          /\ queued' = Lesser(ChunkLen, Size[call.blob] - sent)
          /\ UNCHANGED <<sent, callVars>>
     ELSE \/ Repoll("receiver") /\ Stay
          \/ TimedOut /\ Return("false")
  /\ UNCHANGED devVars

\* The next block of the chunk in sdk_spi_write_bridge_paced
Position == sent + Lesser(ChunkLen, Size[call.blob] - sent) - queued

WriteBlock ==
  /\ pc = "write"
  /\ \/ \E clean \in BOOLEAN : AcceptBlock(call.blob, Position, clean)
     \/ UNCHANGED devVars
  /\ \/ /\ queued' = queued - 1
        /\ IF queued > 1
           THEN UNCHANGED <<pollVars, sent>>
           ELSE Goto("progress") /\ sent' = Position + 1
        /\ UNCHANGED callVars
     \/ Return("false")

Reached == HaveStatus /\ snap.done >= sent

\* wait_for_spi_flash_progress(sent), and the check for FAILED after it
WaitProgress ==
  /\ pc = "progress"
  /\ Answered
  /\ \/ GotFailed /\ Return("false")
     \/ ~GotFailed /\ Reached /\ Goto(IF sent < Size[call.blob] THEN "receiver" ELSE "final") /\ Stay
     \/ /\ ~GotFailed /\ ~Reached
        /\ IF HaveStatus /\ snap.status = "SUCCESS"
           THEN Return("false")
           ELSE (PollAgain /\ Stay) \/ (TimedOut /\ Return("false"))
  /\ UNCHANGED devVars

\* The final loop: an IDLE status, as after a restart, is polled on.
WaitFinal ==
  /\ pc = "final"
  /\ Answered
  /\ IF HaveStatus /\ snap.status = "SUCCESS"
     THEN IF snap.result = "OK" THEN Goto("closing") /\ Stay ELSE Return("false")
     ELSE IF GotFailed
          THEN Return("false")
          ELSE (PollAgain /\ Stay) \/ (TimedOut /\ Return("false"))
  /\ UNCHANGED devVars

\* Mutant: the mode is not looked at.
ModeIgnored == TRUE

ModeClosed == mode = NONE

WaitClosed ==
  /\ pc = "closing"
  /\ \/ IF ModeClosed
        THEN Return("true")
        ELSE (PollAgain /\ Stay) \/ (TimedOut /\ Return("false"))
     \/ Return("false")
  /\ UNCHANGED devVars

-----------------------------------------------------------------------------
HostStep ==
  \/ GetStatus \/ WaitBoot \/ CheckInitial \/ WaitSettled \/ WaitSettledMode
  \/ WriteMode \/ WaitSwitched \/ WaitHeader \/ WriteHeader \/ WaitReceiver
  \/ Guard \/ Confirm \/ WriteBlock \/ WaitProgress \/ WaitFinal \/ WaitClosed

Next ==
  \/ \E m \in Modes, b \in Blobs : CallTransfer(m, b)
  \/ HostStep
  \/ DevNext /\ UNCHANGED hostVars

Spec == Init /\ [][Next]_vars

\* A call runs until it returns: the SDK is single-threaded and never blocks
\* but in its own sleeps.  What the guard time is assumed to be enough for comes.
FairSpec == Spec /\ WF_vars(HostStep) /\ WF_vars(PromptArm /\ Arm /\ UNCHANGED hostVars)

-----------------------------------------------------------------------------
\* Every variable has its type: the loop counters stay within the loops' bounds.
TypeOK ==
  /\ DeviceTypeOK
  /\ StatusTypeOK
  /\ pc \in Pcs
  /\ call \in [mode : Modes \cup {NONE}, blob : Blobs \cup {NoBlob}]
  /\ sent \in Nat
  /\ queued \in 0..ChunkLen
  /\ offered \subseteq Modes \X Blobs
  /\ ret \in {"none", "true", "false"}
  /\ calls \in 0..MaxCalls

\* No mode ever imports a blob that was not offered for it: no call streams
\* into an import that an earlier one opened and abandoned.
NoMisroute == \A m \in Modes : store[m] # NoBlob => <<m, store[m]>> \in offered

\* From the header on, an open import is this call's.
OwnImport == pc \in DataPcs /\ ImportOpen => mode = call.mode

\* No block is clocked out to a receiver that does not take it: the guard and
\* the count before a chunk keep the SDK from writing between the publication
\* of a count and the rearming behind it.
NoBlockLost == pc = "write" /\ reg.status = "RECEIVING" => armed /\ sess.rx < ChunkEnd

\* While a call runs: what the module imports was offered for that mode, an open
\* import is the call's own, and every block meets a receiver that takes it.
TransferSafe == NoMisroute /\ OwnImport /\ NoBlockLost

\* When a call returns true the bridge is free again for the next call or the
\* metadata stream.
TrueLeavesBridgeFree == [][ret' = "true" /\ ret # "true" => mode = NONE /\ ~ImportOpen]_vars

\* Every call returns, however the module behaves and whatever fails.
CallReturns == pc # "idle" ~> pc = "idle"

\* A transfer is an atomic offer that the module imports or not, with the
\* verdict of BlobImport.
Promise == INSTANCE BlobImport WITH
  Ops <- Modes,
  offer <- IF pc # "idle" THEN <<call.mode, call.blob>> ELSE <<>>
ImplementsBlobImport == Promise!Spec
=============================================================================
