------------------------ MODULE SpiBlobTransferProofs -----------------------
(***************************************************************************)
(* Proofs of the safety properties of SpiBlobTransfer, for any modes,      *)
(* blobs, sizes and bounds.                                                *)
(*                                                                         *)
(* The parts of the inductive invariant say, in this order: the loop       *)
(* counters and the call agree with where the SDK is; what the module's    *)
(* registers imply about its import; what an import holds was offered for  *)
(* its mode; from the switch on, only an import of the call's mode can be  *)
(* open or open, and it is empty until the header; a status that was read  *)
(* still holds where the SDK relies on it; and the module is never ahead   *)
(* of what the SDK has sent.                                               *)
(***************************************************************************)
EXTENDS SpiBlobTransfer, TLAPS

CallInv ==
  /\ rd \in 1..4 => tries < Retries
  /\ pc # "idle" =>
       /\ call.mode \in Modes /\ call.blob \in Blobs
       /\ <<call.mode, call.blob>> \in offered
       /\ ret = "none"
  /\ pc \notin DataPcs \cup {"closing"} => sent = 0
  /\ pc = "header" => sent = 0
  /\ pc \in {"receiver", "guard", "confirm", "write"} => sent < Size[call.blob]
  /\ pc \in {"progress", "final"} => sent <= Size[call.blob]
  /\ pc = "write" => queued > 0 /\ queued <= ChunkLen /\ queued <= Size[call.blob] - sent

DeviceInv ==
  /\ due \/ ImportOpen => mode # NONE
  /\ due => ~ImportOpen
  /\ ~ImportOpen => sess.blob = NoBlob
  /\ reg.status # "RECEIVING" => ~armed
  /\ reg.status = "WAIT_HEADER" => sess.rx = 0 /\ reg.done = 0
  /\ reg.status \in {"RECEIVING", "PARSING"} =>
       sess.blob # NoBlob /\ reg.total = Size[sess.blob]
  /\ reg.status = "RECEIVING" =>
       /\ reg.done <= sess.rx
       /\ sess.rx <= ChunkEnd
       /\ IF armed THEN reg.done < reg.total ELSE sess.rx = reg.done

\* What was sent into the open import was offered for its mode.
OfferedInv ==
  /\ NoMisroute
  /\ sess.blob # NoBlob => <<mode, sess.blob>> \in offered

\* From the switch on, no import of another mode can follow; from the time the
\* mode has read back, none can be open.
OwnInv ==
  /\ pc \in {"switching", "waitHeader"} \cup DataPcs => modeReq \in {NONE, call.mode}
  /\ pc \in {"waitHeader"} \cup DataPcs /\ (due \/ ImportOpen) => mode = call.mode
  /\ pc \in {"settleMode", "switch", "switching", "waitHeader", "header"} => sess.blob = NoBlob
  /\ pc \in DataPcs => sess.blob \in {call.blob, NoBlob}
  /\ pc \in DataPcs /\ reg.status = "SUCCESS" => <<call.mode, call.blob>> \in imported
  /\ pc = "closing" => <<call.mode, call.blob>> \in imported

\* The call's header is no longer waiting to be parsed: an import that waits for
\* a header waits for another one, and will not get it from this call.
Parsed == reg.status = "WAIT_HEADER" => sess.blob = NoBlob

\* A status read in this call, in the places where an old one would matter.
ReadInv ==
  /\ pc \in {"initial", "settle"} /\ rd \in 2..Have /\ IsTerminal(snap.status) =>
       sess.blob = NoBlob
  /\ pc = "waitHeader" /\ rd \in 2..Have /\ snap.status = "WAIT_HEADER" =>
       reg.status # "SUCCESS"
  /\ pc \in {"receiver", "confirm"} /\ rd \in 2..Have /\ snap.status = "RECEIVING" => Parsed
  /\ pc \in {"receiver", "confirm"} /\ rd \in 4..Have /\ snap.status = "RECEIVING"
       /\ reg.status = "RECEIVING" => snap.done <= reg.done
  /\ pc = "final" /\ rd \in 2..Have /\ snap.status = "SUCCESS" =>
       <<call.mode, call.blob>> \in imported

StreamInv ==
  /\ pc \in {"guard", "confirm", "write", "progress", "final"} => Parsed
  /\ pc \in DataPcs \ {"write"} /\ ImportOpen => sess.rx <= sent
  /\ pc = "write" /\ ImportOpen => sess.rx <= Position
  /\ pc \in {"guard", "confirm", "write"} /\ reg.status = "RECEIVING" => reg.done = sent
  /\ PromptArm /\ pc \in {"confirm", "write"} /\ reg.status = "RECEIVING" => armed

IInv == TypeOK /\ CallInv /\ DeviceInv /\ OfferedInv /\ OwnInv /\ ReadInv /\ StreamInv

-----------------------------------------------------------------------------
\* Types

LEMMA ClearedRegType ==
  ASSUME NEW s \in Statuses, NEW r \in Results
  PROVE  ClearedReg(s, r) \in FlashRegs
BY DEF ClearedReg, FlashRegs

LEMMA NoneReg == ClearedReg("IDLE", "NONE") \in FlashRegs
BY ClearedRegType DEF Statuses, Results

LEMMA NoSessionType == NoSession \in Sessions
BY DEF NoSession, Sessions

\* A session that holds a blob has its size.
LEMMA BlobType ==
  ASSUME DeviceTypeOK, sess.blob # NoBlob
  PROVE  sess.blob \in Blobs /\ Size[sess.blob] \in Nat \ {0}
<1>1. sess.blob \in Blobs
  BY DEF DeviceTypeOK, Sessions
<1>2. QED
  BY <1>1, SpiDeviceAssumption

LEMMA StopType ==
  ASSUME DeviceTypeOK, NEW s \in Statuses, NEW r \in Results, Stop(s, r)
  PROVE  reg' \in FlashRegs /\ sess' \in Sessions /\ armed' \in BOOLEAN
BY NoSessionType DEF DeviceTypeOK, FlashRegs, Stop

LEMMA StopStep ==
  ASSUME DeviceTypeOK, NEW s, NEW r, Stop(s, r)
  PROVE  reg'.status = s /\ sess'.blob = NoBlob /\ sess'.rx = 0 /\ ~armed'
BY DEF DeviceTypeOK, FlashRegs, Stop, NoSession

\* No step of the module changes a variable's type.
LEMMA DeviceStepType == DeviceTypeOK /\ DeviceInv /\ DevNext => DeviceTypeOK'
<1> SUFFICES ASSUME DeviceTypeOK, DeviceInv, DevNext PROVE DeviceTypeOK'
  OBVIOUS
<1> USE NoneReg, NoSessionType
<1>1. CASE SwitchMode
  <2>1. reg' \in FlashRegs /\ sess' \in Sessions /\ armed' \in BOOLEAN
    BY <1>1, StopType DEF SwitchMode, DeviceTypeOK, Statuses, Results
  <2>2. QED
    BY <1>1, <2>1 DEF SwitchMode, DeviceTypeOK
<1>2. CASE OpenImport
  <2>1. reg' \in FlashRegs
    BY <1>2, ClearedRegType DEF OpenImport, Statuses, Results
  <2>2. QED
    BY <1>2, <2>1 DEF OpenImport, DeviceTypeOK
<1>3. CASE RefuseImport
  BY <1>3, StopType DEF RefuseImport, DeviceTypeOK, Statuses, Results
<1>4. CASE ParseHeader
  <2>1. Size[sess.blob] \in Nat
    BY <1>4, BlobType DEF ParseHeader
  <2>2. reg' \in FlashRegs
    BY <1>4, <2>1 DEF ParseHeader, DeviceTypeOK, FlashRegs, Statuses
  <2>3. QED
    BY <1>4, <2>2 DEF ParseHeader, DeviceTypeOK
<1>5. CASE Arm
  BY <1>5 DEF Arm, DeviceTypeOK
<1>6. CASE CountChunk
  <2>1. reg' \in FlashRegs
    BY <1>6 DEF CountChunk, DeviceTypeOK, FlashRegs, Sessions
  <2>2. QED
    BY <1>6, <2>1 DEF CountChunk, DeviceTypeOK
<1>7. CASE BeginParsing
  BY <1>7 DEF BeginParsing, DeviceTypeOK, FlashRegs, Statuses
<1>8. CASE Commit
  <2>1. mode \in Modes /\ sess.blob \in Blobs
    BY <1>8, BlobType DEF Commit, DeviceInv, ImportOpen, DeviceTypeOK
  <2>2. reg' \in FlashRegs /\ sess' \in Sessions /\ armed' \in BOOLEAN
    BY <1>8, StopType DEF Commit, Statuses, Results
  <2>3. QED
    BY <1>8, <2>1, <2>2 DEF Commit, DeviceTypeOK
<1>9. CASE Fail
  <2>1. reg' \in FlashRegs /\ sess' \in Sessions /\ armed' \in BOOLEAN
    BY <1>9, StopType DEF Fail, Statuses, Results
  <2>2. QED
    BY <1>9, <2>1 DEF Fail, DeviceTypeOK
<1>10. CASE CloseMode
  BY <1>10 DEF CloseMode, DeviceTypeOK
<1>11. CASE Restart
  <2>1. resets' \in 0..MaxResets
    BY <1>11, SpiDeviceAssumption DEF DeviceTypeOK, Restart
  <2>2. QED
    BY <1>11, <2>1 DEF DeviceTypeOK, Restart
<1>12. CASE Booted
  BY <1>12 DEF DeviceTypeOK, Booted
<1>13. QED
  BY <1>1, <1>2, <1>3, <1>4, <1>5, <1>6, <1>7, <1>8, <1>9, <1>10, <1>11, <1>12 DEF DevNext

\* Nor does a bus access.
LEMMA BusType ==
  ASSUME DeviceTypeOK
  PROVE  /\ \A m \in Modes : RequestMode(m) => DeviceTypeOK'
         /\ \A b \in Blobs, clean \in BOOLEAN : AcceptHeader(b, clean) => DeviceTypeOK'
         /\ \A k : \A b \in Blobs, clean \in BOOLEAN : AcceptBlock(b, k, clean) => DeviceTypeOK'
<1>1. ASSUME NEW m \in Modes, RequestMode(m) PROVE DeviceTypeOK'
  BY <1>1 DEF DeviceTypeOK, RequestMode
<1>2. ASSUME NEW b \in Blobs, NEW clean \in BOOLEAN, AcceptHeader(b, clean)
      PROVE  DeviceTypeOK'
  <2>1. (sess.intact /\ clean /\ sess.blob = NoBlob) \in BOOLEAN
    OBVIOUS
  <2>2. sess' \in Sessions
    BY <1>2, <2>1 DEF AcceptHeader, DeviceTypeOK, Sessions
  <2>3. QED
    BY <1>2, <2>2 DEF AcceptHeader, DeviceTypeOK
<1>3. ASSUME NEW b \in Blobs, NEW k, NEW clean \in BOOLEAN, AcceptBlock(b, k, clean)
      PROVE  DeviceTypeOK'
  <2> DEFINE intact == sess.intact /\ clean /\ k = sess.rx /\ b = sess.blob
  <2>1. sess' = sess \/ sess' = [sess EXCEPT !.rx = sess.rx + 1, !.intact = intact]
    BY <1>3 DEF AcceptBlock
  <2>a. intact \in BOOLEAN /\ sess.rx + 1 \in Nat
    BY DEF DeviceTypeOK, Sessions
  <2> HIDE DEF intact
  <2>2. sess' \in Sessions
    BY <2>1, <2>a DEF DeviceTypeOK, Sessions
  <2>3. QED
    BY <1>3, <2>2 DEF AcceptBlock, DeviceTypeOK
<1>4. QED
  BY <1>1, <1>2, <1>3

-----------------------------------------------------------------------------
\* The SDK's variables

LEMMA ReadIntoType ==
  ASSUME DeviceTypeOK, StatusTypeOK, NEW k \in 1..4
  PROVE  ReadInto(k) \in FlashRegs
BY DEF DeviceTypeOK, StatusTypeOK, FlashRegs, ReadInto

LEMMA GotoType ==
  ASSUME NEW p, Goto(p) PROVE StatusTypeOK' /\ rd' = 1 /\ tries' = 0 /\ pc' = p
BY NoneReg, PollAssumption DEF Goto, FreshStatus, StatusTypeOK, Failed

LEMMA ContinueType ==
  ASSUME StatusTypeOK, NEW p, Continue(p) PROVE StatusTypeOK' /\ rd' = 1 /\ tries' = 0 /\ pc' = p
BY NoneReg, PollAssumption DEF Continue, FreshStatus, StatusTypeOK, Failed

LEMMA RepollType ==
  ASSUME StatusTypeOK, NEW p, Repoll(p) PROVE StatusTypeOK' /\ rd' = 1 /\ tries' = 0 /\ pc' = p
BY NoneReg, PollAssumption DEF Repoll, FreshStatus, StatusTypeOK, Failed

LEMMA PollAgainType ==
  ASSUME StatusTypeOK, PollAgain PROVE StatusTypeOK' /\ rd' = 1 /\ tries' = 0 /\ pc' = pc
BY RepollType DEF PollAgain

LEMMA ReadStatusType ==
  ASSUME DeviceTypeOK, StatusTypeOK, ReadStatusReg, tries < Retries
  PROVE  StatusTypeOK' /\ (rd' \in 1..4 => tries' < Retries)
<1>1. CASE RetryStatus /\ UNCHANGED <<pc, polls>>
  BY <1>1, NoneReg, PollAssumption DEF RetryStatus, StatusTypeOK, Failed
<1>2. CASE snap' = ReadInto(rd) /\ rd' = rd + 1 /\ UNCHANGED <<tries, pc, polls>>
  BY <1>2, ReadIntoType DEF StatusTypeOK, ReadStatusReg, Failed
<1>3. QED
  BY <1>1, <1>2 DEF ReadStatusReg

LEMMA DeviceUnchanged == DeviceTypeOK /\ UNCHANGED devVars => DeviceTypeOK'
BY DEF DeviceTypeOK, devVars

LEMMA ReturnType ==
  ASSUME TypeOK, NEW v \in {"true", "false"}, Return(v), DeviceTypeOK'
  PROVE  TypeOK'
<1>1. StatusTypeOK' /\ pc' = "idle"
  BY GotoType DEF Return
<1>2. 0 \in 0..ChunkLen
  BY SpiDeviceAssumption
<1>3. QED
  BY <1>1, <1>2 DEF Return, TypeOK, Pcs, NoCall

\* The payload of the call in progress, and the chunk it is at
LEMMA CallType ==
  ASSUME TypeOK, CallInv, pc # "idle"
  PROVE  call.mode \in Modes /\ call.blob \in Blobs /\ Size[call.blob] \in Nat \ {0}
BY SpiDeviceAssumption DEF CallInv

\* The length of the chunk after "sent" blocks
Chunk == Lesser(ChunkLen, Size[call.blob] - sent)

LEMMA ChunkType ==
  ASSUME TypeOK, CallInv, pc \in {"confirm", "write"}
  PROVE  /\ Chunk \in 1..ChunkLen
         /\ sent + Chunk <= Size[call.blob]
         /\ pc = "write" => /\ queued \in 1..Chunk
                            /\ Position = sent + Chunk - queued
                            /\ Position \in Nat /\ Position < sent + Chunk
<1>1. Size[call.blob] \in Nat \ {0} /\ sent \in Nat /\ sent < Size[call.blob]
  BY CallType DEF CallInv, TypeOK
<1>2. Chunk \in 1..ChunkLen /\ sent + Chunk <= Size[call.blob]
  BY <1>1, SpiDeviceAssumption DEF Chunk, Lesser
<1>3. ASSUME pc = "write" PROVE queued \in 1..Chunk
  BY <1>1, <1>3, SpiDeviceAssumption DEF CallInv, TypeOK, Chunk, Lesser
<1>4. Position = sent + Chunk - queued
  BY DEF Position, Chunk
<1> HIDE DEF Chunk, Position
<1>5. QED
  BY <1>1, <1>2, <1>3, <1>4, SpiDeviceAssumption

LEMMA HostStepType == TypeOK /\ CallInv /\ HostStep => TypeOK'
<1> SUFFICES ASSUME TypeOK, CallInv, HostStep PROVE TypeOK'
  OBVIOUS
<1> USE DEF Pcs, PollPcs, ModePcs
<1>a. DeviceTypeOK /\ StatusTypeOK
  BY DEF TypeOK
<1>b. UNCHANGED devVars => DeviceTypeOK'
  BY <1>a, DeviceUnchanged
<1>c. ASSUME NEW v \in {"true", "false"}, Return(v), DeviceTypeOK' PROVE TypeOK'
  BY <1>c, ReturnType
<1>d. ASSUME NEW p \in Pcs, Goto(p) \/ Continue(p) \/ Repoll(p), Stay, DeviceTypeOK'
      PROVE  TypeOK'
  BY <1>a, <1>d, GotoType, ContinueType, RepollType DEF TypeOK, Stay, callVars
<1>e. ASSUME PollAgain, Stay, DeviceTypeOK' PROVE TypeOK'
  BY <1>a, <1>e, PollAgainType DEF TypeOK, Stay, callVars
<1>1. CASE GetStatus
  BY <1>1, <1>a, <1>b, ReadStatusType DEF GetStatus, TypeOK, CallInv, callVars, ReadStatusReg
<1>2. CASE WaitBoot
  BY <1>2, <1>b, <1>c, <1>d, <1>e DEF WaitBoot
<1>3. CASE CheckInitial
  BY <1>3, <1>b, <1>c, <1>d DEF CheckInitial
<1>4. CASE WaitSettled
  BY <1>4, <1>b, <1>c, <1>d, <1>e DEF WaitSettled
<1>5. CASE WaitSettledMode
  BY <1>5, <1>b, <1>c, <1>d, <1>e DEF WaitSettledMode
<1>6. CASE WriteMode
  <2>1. call.mode \in Modes
    BY <1>6, CallType DEF WriteMode
  <2>2. DeviceTypeOK'
    BY <1>6, <2>1, <1>a, <1>b, BusType DEF WriteMode
  <2>3. QED
    BY <1>6, <2>2, <1>c, <1>d DEF WriteMode
<1>7. CASE WaitSwitched
  BY <1>7, <1>b, <1>c, <1>d, <1>e DEF WaitSwitched
<1>8. CASE WaitHeader
  BY <1>8, <1>b, <1>c, <1>d, <1>e DEF WaitHeader
<1>9. CASE WriteHeader
  <2>1. call.blob \in Blobs
    BY <1>9, CallType DEF WriteHeader
  <2>2. DeviceTypeOK'
    BY <1>9, <2>1, <1>a, <1>b, BusType DEF WriteHeader
  <2>3. QED
    BY <1>9, <2>2, <1>c, <1>d DEF WriteHeader
<1>10. CASE WaitReceiver
  BY <1>10, <1>b, <1>c, <1>d, <1>e DEF WaitReceiver
<1>11. CASE Guard
  BY <1>11, <1>b, <1>d DEF Guard, GuardSlept
<1>12. CASE Confirm
  <2>1. CASE InStep
    <3>1. queued' \in 0..ChunkLen
      BY <1>12, <2>1, ChunkType, SpiDeviceAssumption DEF Confirm, Chunk
    <3>2. QED
      BY <1>12, <1>b, <2>1, <3>1, GotoType DEF Confirm, TypeOK, callVars
  <2>2. CASE ~InStep
    BY <1>12, <2>2, <1>b, <1>c, <1>d DEF Confirm
  <2>3. QED
    BY <2>1, <2>2
<1>13. CASE WriteBlock
  <2>1. /\ call.blob \in Blobs /\ queued \in 1..ChunkLen /\ Position \in Nat
    BY <1>13, ChunkType, CallType, SpiDeviceAssumption DEF WriteBlock
  <2>2. DeviceTypeOK'
    BY <1>13, <2>1, <1>a, <1>b, BusType DEF WriteBlock
  <2>3. CASE Return("false")
    BY <1>c, <2>2, <2>3
  <2>4. CASE queued' = queued - 1 /\ UNCHANGED callVars
    <3>1. queued' \in 0..ChunkLen
      BY <2>1, <2>4, SpiDeviceAssumption
    <3>2. CASE queued > 1
      BY <1>13, <1>a, <2>2, <2>4, <3>1, <3>2, GotoType
      DEF WriteBlock, TypeOK, StatusTypeOK, pollVars, callVars, Return
    <3>3. CASE ~(queued > 1)
      BY <1>13, <2>1, <2>2, <2>4, <3>1, <3>3, GotoType
      DEF WriteBlock, TypeOK, callVars, Return
    <3>4. QED
      BY <3>2, <3>3
  <2>5. QED
    BY <1>13, <2>3, <2>4 DEF WriteBlock
<1>14. CASE WaitProgress
  BY <1>14, <1>b, <1>c, <1>d, <1>e DEF WaitProgress
<1>15. CASE WaitFinal
  BY <1>15, <1>b, <1>c, <1>d, <1>e DEF WaitFinal
<1>16. CASE WaitClosed
  BY <1>16, <1>b, <1>c, <1>e DEF WaitClosed
<1>17. QED
  BY <1>1, <1>2, <1>3, <1>4, <1>5, <1>6, <1>7, <1>8, <1>9, <1>10, <1>11, <1>12,
     <1>13, <1>14, <1>15, <1>16 DEF HostStep

LEMMA CallStepType ==
  ASSUME TypeOK, NEW m \in Modes, NEW b \in Blobs, CallTransfer(m, b) PROVE TypeOK'
<1>1. DeviceTypeOK'
  BY DEF CallTransfer, TypeOK, DeviceTypeOK
<1>2. calls' \in 0..MaxCalls
  BY SpiHostAssumption DEF CallTransfer, TypeOK
<1>3. call' \in [mode : Modes \cup {NONE}, blob : Blobs \cup {NoBlob}]
  BY DEF CallTransfer
<1>4. offered' \subseteq Modes \X Blobs
  BY DEF CallTransfer, TypeOK
<1>5. QED
  BY <1>1, <1>2, <1>3, <1>4, GotoType DEF CallTransfer, TypeOK, Pcs

LEMMA HostUnchangedType ==
  ASSUME TypeOK, DeviceTypeOK', UNCHANGED hostVars PROVE TypeOK'
BY DEF TypeOK, StatusTypeOK, hostVars, pollVars, callVars

LEMMA StepType == TypeOK /\ CallInv /\ DeviceInv /\ [Next]_vars => TypeOK'
<1> SUFFICES ASSUME TypeOK, CallInv, DeviceInv, [Next]_vars PROVE TypeOK'
  OBVIOUS
<1>1. CASE DevNext /\ UNCHANGED hostVars
  BY <1>1, DeviceStepType, HostUnchangedType DEF TypeOK
<1>2. CASE UNCHANGED vars
  BY <1>2, DeviceUnchanged, HostUnchangedType DEF vars, TypeOK
<1>3. QED
  BY <1>1, <1>2, HostStepType, CallStepType DEF Next

-----------------------------------------------------------------------------
\* The call

LEMMA StepCall == TypeOK /\ CallInv /\ [Next]_vars => CallInv'
<1> SUFFICES ASSUME TypeOK, CallInv, [Next]_vars PROVE CallInv'
  OBVIOUS
<1> USE DEF DataPcs
<1>s. StatusTypeOK /\ sent \in Nat
  BY DEF TypeOK
<1>a. ASSUME NEW v, Return(v) PROVE CallInv'
  BY <1>a, GotoType, PollAssumption DEF CallInv, Return
\* The call goes on at p, with nothing sent meanwhile.
<1>b. ASSUME NEW p, Goto(p) \/ Continue(p) \/ Repoll(p), Stay, pc # "idle",
             p \notin {"idle", "write"},
             p \notin DataPcs \cup {"closing"} => sent = 0,
             p = "header" => sent = 0,
             p \in {"receiver", "guard", "confirm"} => sent < Size[call.blob],
             p \in {"progress", "final"} => sent <= Size[call.blob]
      PROVE  CallInv'
  BY <1>b, <1>s, GotoType, ContinueType, RepollType, PollAssumption DEF CallInv, Stay, callVars
<1>c. ASSUME PollAgain, Stay PROVE CallInv'
  BY <1>c, <1>s, PollAgainType, PollAssumption DEF CallInv, Stay, callVars
<1>1. ASSUME NEW m \in Modes, NEW b \in Blobs, CallTransfer(m, b) PROVE CallInv'
  BY <1>1, GotoType, PollAssumption DEF CallTransfer, CallInv
<1>2. CASE GetStatus
  BY <1>2, ReadStatusType DEF GetStatus, ReadStatusReg, CallInv, callVars, TypeOK
<1>3. CASE WaitBoot \/ CheckInitial \/ WaitSettled
  BY <1>3, <1>a, <1>b, <1>c DEF WaitBoot, CheckInitial, WaitSettled, CallInv
<1>4. CASE WaitSettledMode \/ WriteMode \/ WaitSwitched
  BY <1>4, <1>a, <1>b, <1>c DEF WaitSettledMode, WriteMode, WaitSwitched, CallInv
<1>5. CASE WaitHeader
  BY <1>5, <1>a, <1>b, <1>c DEF WaitHeader, CallInv
<1>6. CASE WriteHeader
  <2>1. sent = 0 /\ Size[call.blob] \in Nat \ {0}
    BY <1>6, CallType DEF WriteHeader, CallInv
  <2>2. QED
    BY <1>6, <2>1, <1>a, <1>b DEF WriteHeader
<1>7. CASE WaitReceiver
  BY <1>7, <1>a, <1>b, <1>c DEF WaitReceiver, CallInv
<1>8. CASE Guard
  BY <1>8, <1>b DEF Guard, GuardSlept, CallInv
<1>9. CASE Confirm
  <2>1. CASE InStep
    <3>1. sent < Size[call.blob] /\ Chunk \in 1..ChunkLen /\ Chunk <= Size[call.blob] - sent
      BY <1>9, <1>s, ChunkType, CallType DEF Confirm, CallInv
    <3>2. queued' = Chunk
      BY <1>9, <2>1 DEF Confirm, Chunk
    <3>3. pc' = "write" /\ rd' = 1 /\ tries' = 0 /\ UNCHANGED <<sent, callVars>>
      BY <1>9, <2>1, GotoType DEF Confirm
    <3> HIDE DEF Chunk
    <3>4. QED
      BY <1>9, <3>1, <3>2, <3>3, PollAssumption, SpiDeviceAssumption
      DEF Confirm, CallInv, callVars
  <2>2. CASE ~InStep
    BY <1>9, <2>2, <1>a, <1>b DEF Confirm, CallInv
  <2>3. QED
    BY <2>1, <2>2
<1>10. CASE WriteBlock
  <2>1. CASE Return("false")
    BY <1>a, <2>1
  <2>2. CASE ~Return("false")
    <3>1. /\ queued \in 1..Chunk /\ Chunk \in 1..ChunkLen /\ sent + Chunk <= Size[call.blob]
          /\ Position = sent + Chunk - queued
          /\ Size[call.blob] \in Nat
      BY <1>10, ChunkType, CallType DEF WriteBlock
    <3>2. queued' = queued - 1 /\ UNCHANGED callVars
      BY <1>10, <2>2 DEF WriteBlock
    <3> HIDE DEF Chunk, Position
    <3>3. CASE queued > 1
      <4>1. UNCHANGED <<pc, rd, tries, sent>>
        BY <1>10, <2>2, <3>3 DEF WriteBlock, pollVars
      <4>2. QED
        BY <1>10, <1>s, <3>1, <3>2, <3>3, <4>1, SpiDeviceAssumption
        DEF WriteBlock, CallInv, callVars
    <3>4. CASE ~(queued > 1)
      <4>1. pc' = "progress" /\ rd' = 1 /\ tries' = 0 /\ sent' = Position + 1
        BY <1>10, <2>2, <3>4, GotoType DEF WriteBlock
      <4>2. sent' = sent + Chunk
        BY <1>s, <3>1, <3>4, <4>1, SpiDeviceAssumption
      <4>3. QED
        BY <1>10, <1>s, <3>1, <3>2, <4>1, <4>2, PollAssumption, SpiDeviceAssumption
        DEF WriteBlock, CallInv, callVars
    <3>5. QED
      BY <3>3, <3>4
  <2>3. QED
    BY <2>1, <2>2
<1>11. CASE WaitProgress
  BY <1>11, <1>a, <1>b, <1>c DEF WaitProgress, CallInv
<1>12. CASE WaitFinal
  BY <1>12, <1>a, <1>b, <1>c DEF WaitFinal, CallInv
<1>13. CASE WaitClosed
  BY <1>13, <1>a, <1>c DEF WaitClosed
<1>14. CASE UNCHANGED hostVars
  BY <1>14 DEF CallInv, hostVars, pollVars, callVars
<1>15. QED
  BY <1>1, <1>2, <1>3, <1>4, <1>5, <1>6, <1>7, <1>8, <1>9, <1>10, <1>11, <1>12, <1>13,
     <1>14 DEF Next, HostStep, vars

-----------------------------------------------------------------------------
\* The module's registers

LEMMA DeviceStepInv == DeviceTypeOK /\ DeviceInv /\ DevNext => DeviceInv'
<1> SUFFICES ASSUME DeviceTypeOK, DeviceInv, DevNext PROVE DeviceInv'
  OBVIOUS
<1>a. sess.rx \in Nat /\ reg.done \in Nat /\ reg.total \in Nat /\ ChunkLen \in Nat \ {0}
      /\ NONE \notin Modes
  BY SpiDeviceAssumption DEF DeviceTypeOK, Sessions, FlashRegs
<1> USE DEF DeviceInv, ImportOpen, NoSession, ClearedReg
<1>1. CASE SwitchMode
  <2>1. CASE ImportOpen
    <3>1. Stop("IDLE", "NONE") /\ mode' # NONE
      BY <1>1, <2>1 DEF SwitchMode
    <3>2. reg'.status = "IDLE" /\ sess'.blob = NoBlob /\ ~armed'
      BY <3>1, StopStep
    <3>3. QED
      BY <3>1, <3>2
  <2>2. CASE ~ImportOpen
    BY <1>1, <2>2 DEF SwitchMode
  <2>3. QED
    BY <2>1, <2>2
<1>2. CASE OpenImport
  BY <1>2 DEF OpenImport
<1>3. CASE RefuseImport
  BY <1>3, StopStep DEF RefuseImport
<1>4. CASE ParseHeader
  <2>1. Size[sess.blob] \in Nat
    BY <1>4, BlobType DEF ParseHeader
  <2>2. /\ reg'.status = "RECEIVING" /\ reg'.done = 0 /\ reg'.total = Size[sess.blob]
        /\ UNCHANGED <<sess, armed, due, mode>> /\ sess.rx = 0 /\ ~armed
    BY <1>4 DEF ParseHeader, DeviceTypeOK, FlashRegs
  <2>3. sess'.rx <= ChunkEnd'
    BY <1>a, <2>1, <2>2 DEF ChunkEnd, Lesser
  <2>4. QED
    BY <1>4, <2>2, <2>3 DEF ParseHeader
<1>5. CASE Arm
  BY <1>5 DEF Arm, ChunkEnd
<1>6. CASE CountChunk
  <2>1. /\ reg'.status = "RECEIVING" /\ reg'.done = sess.rx /\ reg'.total = reg.total
        /\ UNCHANGED <<sess, due, mode>> /\ ~armed'
    BY <1>6 DEF CountChunk, DeviceTypeOK, FlashRegs
  <2>2. sess.rx <= reg.total
    BY <1>6, <1>a DEF CountChunk, ChunkEnd, Lesser
  <2>3. sess'.rx <= ChunkEnd'
    BY <1>a, <2>1, <2>2 DEF ChunkEnd, Lesser
  <2>4. QED
    BY <1>6, <1>a, <2>1, <2>3 DEF CountChunk
<1>7. CASE BeginParsing
  <2>1. ~armed
    BY <1>7, <1>a DEF BeginParsing
  <2>2. QED
    BY <1>7, <2>1 DEF BeginParsing, DeviceTypeOK, FlashRegs
<1>8. CASE Commit
  BY <1>8, StopStep DEF Commit
<1>9. CASE Fail
  BY <1>9, StopStep DEF Fail
<1>10. CASE CloseMode
  BY <1>10 DEF CloseMode
<1>11. CASE Restart
  BY <1>11 DEF Restart
<1>12. CASE Booted
  BY <1>12 DEF Booted, ChunkEnd
<1>13. QED
  BY <1>1, <1>2, <1>3, <1>4, <1>5, <1>6, <1>7, <1>8, <1>9, <1>10, <1>11, <1>12 DEF DevNext

\* What a block or a header may change of the import.
LEMMA BlockStep ==
  ASSUME DeviceTypeOK, NEW b, NEW k, NEW clean \in BOOLEAN, AcceptBlock(b, k, clean)
  PROVE  /\ sess'.blob = sess.blob
         /\ \/ sess'.rx = sess.rx
            \/ /\ reg.status = "RECEIVING" /\ armed
               /\ sess.rx < ChunkEnd /\ sess'.rx = sess.rx + 1
BY DEF AcceptBlock, DeviceTypeOK, Sessions

LEMMA HeaderStep ==
  ASSUME DeviceTypeOK, NEW b, NEW clean \in BOOLEAN, AcceptHeader(b, clean)
  PROVE  /\ sess'.rx = sess.rx
         /\ sess'.blob = IF reg.status = "WAIT_HEADER" THEN b ELSE sess.blob
BY DEF AcceptHeader, DeviceTypeOK, Sessions

LEMMA BusDevice ==
  ASSUME DeviceTypeOK, DeviceInv
  PROVE  /\ \A m : RequestMode(m) => DeviceInv'
         /\ \A b \in Blobs, clean \in BOOLEAN : AcceptHeader(b, clean) => DeviceInv'
         /\ \A k : \A b \in Blobs, clean \in BOOLEAN : AcceptBlock(b, k, clean) => DeviceInv'
<1> USE DEF DeviceInv, ImportOpen
<1>1. ASSUME NEW m, RequestMode(m) PROVE DeviceInv'
  BY <1>1 DEF RequestMode, ChunkEnd
<1>2. ASSUME NEW b \in Blobs, NEW clean \in BOOLEAN, AcceptHeader(b, clean)
      PROVE  DeviceInv'
  <2>1. b # NoBlob /\ UNCHANGED <<reg, due, mode, armed>>
    BY <1>2, SpiDeviceAssumption DEF AcceptHeader
  <2>2. QED
    BY <1>2, <2>1, HeaderStep DEF ChunkEnd
<1>3. ASSUME NEW b \in Blobs, NEW k, NEW clean \in BOOLEAN, AcceptBlock(b, k, clean)
      PROVE  DeviceInv'
  <2>1. UNCHANGED <<reg, due, mode, armed>> /\ ChunkEnd' = ChunkEnd
    BY <1>3 DEF AcceptBlock, ChunkEnd
  <2>2. sess.rx \in Nat /\ reg.done \in Nat /\ ChunkEnd \in Nat
    BY SpiDeviceAssumption DEF DeviceTypeOK, Sessions, FlashRegs, ChunkEnd, Lesser
  <2>3. QED
    BY <1>3, <2>1, <2>2, BlockStep
<1>4. QED
  BY <1>1, <1>2, <1>3

LEMMA DeviceInvUnchanged == DeviceInv /\ UNCHANGED devVars => DeviceInv'
BY DEF DeviceInv, devVars, ImportOpen, ChunkEnd

LEMMA StepDevice == TypeOK /\ CallInv /\ DeviceInv /\ [Next]_vars => DeviceInv'
<1> SUFFICES ASSUME TypeOK, CallInv, DeviceInv, [Next]_vars PROVE DeviceInv'
  OBVIOUS
<1>a. DeviceTypeOK
  BY DEF TypeOK
<1>1. CASE WriteMode
  BY <1>1, <1>a, BusDevice, DeviceInvUnchanged DEF WriteMode
<1>2. CASE WriteHeader \/ WriteBlock
  <2>1. call.blob \in Blobs
    BY <1>2, CallType DEF WriteHeader, WriteBlock
  <2>2. QED
    BY <1>2, <1>a, <2>1, BusDevice, DeviceInvUnchanged DEF WriteHeader, WriteBlock
<1>3. CASE \E m \in Modes, b \in Blobs : CallTransfer(m, b)
  BY <1>3 DEF CallTransfer, DeviceInv, ImportOpen, ChunkEnd
<1>4. CASE UNCHANGED devVars
  BY <1>4, DeviceInvUnchanged
<1>5. CASE DevNext
  BY <1>a, <1>5, DeviceStepInv
<1>6. QED
  BY <1>1, <1>2, <1>3, <1>4, <1>5
  DEF Next, HostStep, vars, GetStatus, WaitBoot, CheckInitial, WaitSettled, WaitSettledMode,
      WaitSwitched, WaitHeader, WaitReceiver, Guard, Confirm, WaitProgress, WaitFinal,
      WaitClosed

Base == TypeOK /\ CallInv /\ DeviceInv

LEMMA InitBase == Init => Base
<1> SUFFICES ASSUME Init PROVE Base
  OBVIOUS
<1>1. DeviceTypeOK
  <2>1. store \in [Modes -> Blobs \cup {NoBlob}] /\ resets \in 0..MaxResets
    BY SpiDeviceAssumption DEF Init, DevInit
  <2>2. QED
    BY <2>1, NoneReg, NoSessionType DEF Init, DevInit, DeviceTypeOK
<1>2. StatusTypeOK
  BY NoneReg, PollAssumption DEF Init, StatusInit, StatusTypeOK, Failed
<1>3. TypeOK
  BY <1>1, <1>2, SpiDeviceAssumption, SpiHostAssumption
  DEF Init, StatusInit, TypeOK, Pcs, NoCall
<1>4. CallInv
  BY PollAssumption DEF Init, StatusInit, CallInv, DataPcs
<1>5. DeviceInv
  BY DEF Init, DevInit, DeviceInv, ImportOpen, ClearedReg, NoSession
<1>6. QED
  BY <1>3, <1>4, <1>5 DEF Base

LEMMA StepBase == Base /\ [Next]_vars => Base'
BY StepType, StepCall, StepDevice DEF Base

\* The variables keep their types: in particular no loop of the SDK polls or
\* retries beyond its bound, and no chunk is longer than ChunkLen.
THEOREM TypeCorrect == Spec => []TypeOK
<1>1. Spec => []Base
  BY InitBase, StepBase, PTL DEF Spec
<1>2. Base => TypeOK
  BY DEF Base
<1>3. QED
  BY <1>1, <1>2, PTL

-----------------------------------------------------------------------------
\* Only offered blobs

\* Where the SDK is when a step of a call changes the module.
LEMMA HostFrame ==
  ASSUME HostStep
  PROVE  /\ UNCHANGED offered
         /\ \/ UNCHANGED devVars
            \/ pc = "switch" /\ RequestMode(call.mode)
            \/ pc = "header" /\ \E clean \in BOOLEAN : AcceptHeader(call.blob, clean)
            \/ pc = "write" /\ \E clean \in BOOLEAN : AcceptBlock(call.blob, Position, clean)
<1>1. UNCHANGED offered
  BY DEF HostStep, GetStatus, WaitBoot, CheckInitial, WaitSettled, WaitSettledMode, WriteMode,
         WaitSwitched, WaitHeader, WriteHeader, WaitReceiver, Guard, Confirm, WriteBlock,
         WaitProgress, WaitFinal, WaitClosed, Return, Stay, callVars
<1>2. CASE WriteMode \/ WriteHeader \/ WriteBlock
  BY <1>1, <1>2 DEF WriteMode, WriteHeader, WriteBlock
<1>3. CASE GetStatus \/ WaitBoot \/ CheckInitial \/ WaitSettled \/ WaitSettledMode
  BY <1>1, <1>3 DEF GetStatus, WaitBoot, CheckInitial, WaitSettled, WaitSettledMode
<1>4. CASE WaitSwitched \/ WaitHeader \/ WaitReceiver \/ Guard \/ Confirm
  BY <1>1, <1>4 DEF WaitSwitched, WaitHeader, WaitReceiver, Guard, Confirm
<1>5. CASE WaitProgress \/ WaitFinal \/ WaitClosed
  BY <1>1, <1>5 DEF WaitProgress, WaitFinal, WaitClosed
<1>6. QED
  BY <1>1, <1>2, <1>3, <1>4, <1>5 DEF HostStep

LEMMA DeviceStepOffered == DeviceTypeOK /\ DeviceInv /\ OfferedInv /\ DevNext
                             /\ UNCHANGED offered => OfferedInv'
<1> SUFFICES ASSUME DeviceTypeOK, DeviceInv, OfferedInv, DevNext, UNCHANGED offered
             PROVE  OfferedInv'
  OBVIOUS
<1> USE DEF OfferedInv, NoMisroute
<1>1. CASE SwitchMode
  <2>1. UNCHANGED store
    BY <1>1 DEF SwitchMode
  <2>2. CASE ImportOpen
    BY <1>1, <2>1, <2>2, StopStep DEF SwitchMode
  <2>3. CASE ~ImportOpen
    BY <1>1, <2>1, <2>3 DEF SwitchMode, DeviceInv
  <2>4. QED
    BY <2>2, <2>3
<1>2. CASE OpenImport
  BY <1>2 DEF OpenImport, NoSession
<1>3. CASE RefuseImport
  BY <1>3, StopStep DEF RefuseImport
<1>4. CASE ParseHeader \/ Arm
  BY <1>4 DEF ParseHeader, Arm
<1>5. CASE CountChunk \/ BeginParsing
  BY <1>5 DEF CountChunk, BeginParsing
<1>6. CASE Commit
  <2>1. mode \in Modes /\ sess.blob # NoBlob
    BY <1>6 DEF Commit, DeviceInv, ImportOpen, DeviceTypeOK
  <2>2. store'[mode] = sess.blob /\ \A m \in Modes \ {mode} : store'[m] = store[m]
    BY <1>6, <2>1 DEF Commit, DeviceTypeOK
  <2>3. sess'.blob = NoBlob
    BY <1>6, StopStep DEF Commit
  <2>4. QED
    BY <2>1, <2>2, <2>3
<1>7. CASE Fail
  BY <1>7, StopStep DEF Fail
<1>8. CASE CloseMode
  BY <1>8 DEF CloseMode, DeviceInv
<1>9. CASE Restart
  BY <1>9 DEF Restart, NoSession
<1>10. CASE Booted
  BY <1>10 DEF Booted
<1>11. QED
  BY <1>1, <1>2, <1>3, <1>4, <1>5, <1>6, <1>7, <1>8, <1>9, <1>10 DEF DevNext

LEMMA StepOffered == IInv /\ [Next]_vars => OfferedInv'
<1> SUFFICES ASSUME IInv, [Next]_vars PROVE OfferedInv'
  OBVIOUS
<1>a. TypeOK /\ DeviceTypeOK /\ CallInv /\ DeviceInv /\ OfferedInv /\ OwnInv
  BY DEF IInv, TypeOK
<1> USE DEF OfferedInv, NoMisroute
<1>1. ASSUME NEW m \in Modes, NEW b \in Blobs, CallTransfer(m, b) PROVE OfferedInv'
  BY <1>1, <1>a DEF CallTransfer
<1>2. ASSUME UNCHANGED offered, pc = "header",
             NEW clean \in BOOLEAN, AcceptHeader(call.blob, clean)
      PROVE  OfferedInv'
  <2>1. UNCHANGED <<store, mode>>
    BY <1>2 DEF AcceptHeader
  <2>2. CASE reg.status = "WAIT_HEADER"
    <3>1. mode = call.mode /\ <<call.mode, call.blob>> \in offered
      BY <1>2, <1>a, <2>2 DEF OwnInv, CallInv, ImportOpen, DataPcs
    <3>2. QED
      BY <1>2, <1>a, <2>1, <2>2, <3>1, HeaderStep
  <2>3. CASE reg.status # "WAIT_HEADER"
    BY <1>2, <1>a, <2>1, <2>3, HeaderStep
  <2>4. QED
    BY <2>2, <2>3
<1>3. ASSUME UNCHANGED offered, NEW clean \in BOOLEAN, AcceptBlock(call.blob, Position, clean)
      PROVE  OfferedInv'
  BY <1>3, <1>a, BlockStep DEF AcceptBlock
<1>4. CASE UNCHANGED offered /\ (UNCHANGED devVars \/ RequestMode(call.mode))
  BY <1>4, <1>a DEF devVars, RequestMode
<1>5. CASE DevNext /\ UNCHANGED hostVars
  BY <1>a, <1>5, DeviceStepOffered DEF hostVars, callVars
<1>6. QED
  BY <1>1, <1>2, <1>3, <1>4, <1>5, HostFrame DEF Next, vars, hostVars, callVars

-----------------------------------------------------------------------------
\* The import of the call in progress

LEMMA DeviceStepOwn == IInv /\ DevNext /\ UNCHANGED hostVars => OwnInv'
<1> SUFFICES ASSUME IInv, DevNext, UNCHANGED hostVars PROVE OwnInv'
  OBVIOUS
<1>a. DeviceTypeOK /\ DeviceInv /\ OwnInv
  BY DEF IInv, TypeOK
<1>b. UNCHANGED <<pc, call>>
  BY DEF hostVars, pollVars, callVars
<1> USE DEF OwnInv, DataPcs, ImportOpen
<1>1. CASE SwitchMode
  <2>1. mode' = modeReq /\ modeReq' = NONE /\ modeReq # NONE /\ UNCHANGED imported
    BY <1>1 DEF SwitchMode
  <2>2. CASE ImportOpen
    <3>1. reg'.status = "IDLE" /\ sess'.blob = NoBlob
      BY <1>1, <1>a, <2>2, StopStep DEF SwitchMode
    <3>2. QED
      BY <1>a, <1>b, <2>1, <3>1
  <2>3. CASE ~ImportOpen
    <3>1. UNCHANGED <<reg, sess>>
      BY <1>1, <2>3 DEF SwitchMode
    <3>2. QED
      BY <1>a, <1>b, <2>1, <3>1
  <2>4. QED
    BY <2>2, <2>3
<1>2. CASE OpenImport
  BY <1>2, <1>a, <1>b DEF OpenImport, ClearedReg, NoSession
<1>3. CASE RefuseImport
  <2>1. reg'.status = "FAILED" /\ sess'.blob = NoBlob /\ UNCHANGED <<modeReq, mode, imported>> /\ ~due'
    BY <1>3, <1>a, StopStep DEF RefuseImport
  <2>2. QED
    BY <1>a, <1>b, <2>1
<1>4. CASE ParseHeader \/ CountChunk \/ BeginParsing
  <2>1. /\ reg.status \in {"WAIT_HEADER", "RECEIVING"} /\ reg'.status \in {"RECEIVING", "PARSING"}
        /\ UNCHANGED <<modeReq, mode, due, sess, imported>>
    BY <1>4, <1>a DEF ParseHeader, CountChunk, BeginParsing, DeviceTypeOK, FlashRegs
  <2>2. QED
    BY <1>a, <1>b, <2>1
<1>5. CASE Arm \/ Booted
  BY <1>5, <1>a, <1>b DEF Arm, Booted
<1>6. CASE Commit
  <2>1. pc \in DataPcs => mode = call.mode /\ sess.blob = call.blob
    BY <1>6, <1>a DEF Commit, DeviceInv
  <2>2. /\ reg'.status = "SUCCESS" /\ sess'.blob = NoBlob
        /\ imported' = imported \cup {<<mode, sess.blob>>}
        /\ UNCHANGED <<modeReq, mode, due>>
    BY <1>6, <1>a, StopStep DEF Commit
  <2>3. ~due
    BY <1>6, <1>a DEF Commit, DeviceInv
  <2>4. QED
    BY <1>a, <1>b, <2>1, <2>2, <2>3
<1>7. CASE Fail
  <2>1. reg'.status = "FAILED" /\ sess'.blob = NoBlob /\ UNCHANGED <<modeReq, mode, due, imported>>
    BY <1>7, <1>a, StopStep DEF Fail
  <2>2. QED
    BY <1>a, <1>b, <2>1
<1>8. CASE CloseMode
  BY <1>8, <1>a, <1>b DEF CloseMode
<1>9. CASE Restart
  BY <1>9, <1>a, <1>b DEF Restart, ClearedReg, NoSession
<1>10. QED
  BY <1>1, <1>2, <1>3, <1>4, <1>5, <1>6, <1>7, <1>8, <1>9 DEF DevNext

LEMMA StepOwn == IInv /\ [Next]_vars => OwnInv'
<1> SUFFICES ASSUME IInv, [Next]_vars PROVE OwnInv'
  OBVIOUS
<1>a. /\ TypeOK /\ DeviceTypeOK /\ StatusTypeOK
      /\ CallInv /\ DeviceInv /\ OwnInv /\ ReadInv
  BY DEF IInv, TypeOK
<1> USE DEF DataPcs, ImportOpen
<1>c. ASSUME NEW v, Return(v) PROVE OwnInv'
  BY <1>c, GotoType DEF OwnInv, Return
<1>d. ASSUME PollAgain, Stay, UNCHANGED devVars PROVE OwnInv'
  BY <1>a, <1>d, PollAgainType DEF OwnInv, Stay, devVars, callVars
\* The call goes on at p: what it needs to know of the module by then.
<1>e. ASSUME NEW p, Goto(p) \/ Continue(p) \/ Repoll(p), UNCHANGED callVars, UNCHANGED devVars,
             \/ pc \in DataPcs /\ p \in DataPcs \ {"header"}
             \/ p \in {"initial", "settle"}
             \/ p \in {"settleMode", "switch"} /\ sess.blob = NoBlob
             \/ pc = "switching" /\ p = "waitHeader" /\ mode = call.mode
             \/ pc = "waitHeader" /\ p = "header" /\ reg.status # "SUCCESS"
             \/ p = "closing" /\ <<call.mode, call.blob>> \in imported
      PROVE  OwnInv'
  BY <1>a, <1>e, GotoType, ContinueType, RepollType DEF OwnInv, devVars, callVars
<1>1. ASSUME NEW m \in Modes, NEW b \in Blobs, CallTransfer(m, b) PROVE OwnInv'
  BY <1>1, GotoType DEF CallTransfer, OwnInv
<1>2. CASE GetStatus
  BY <1>2, <1>a DEF GetStatus, ReadStatusReg, OwnInv, devVars, callVars
<1> USE DEF Stay
<1>3. CASE WaitBoot
  BY <1>3, <1>c, <1>d, <1>e DEF WaitBoot
<1>4. CASE CheckInitial
  BY <1>4, <1>a, <1>c, <1>e DEF CheckInitial, HaveStatus, ReadInv, Have
<1>5. CASE WaitSettled
  BY <1>5, <1>a, <1>c, <1>d, <1>e DEF WaitSettled, HaveStatus, ReadInv, Have
<1>6. CASE WaitSettledMode
  <2>1. sess.blob = NoBlob
    BY <1>6, <1>a DEF WaitSettledMode, OwnInv
  <2>2. QED
    BY <1>6, <2>1, <1>c, <1>d, <1>e DEF WaitSettledMode
<1>7. CASE WriteMode
  <2>1. CASE RequestMode(call.mode) /\ Goto("switching") /\ Stay
    BY <1>7, <1>a, <2>1, GotoType DEF WriteMode, RequestMode, OwnInv, callVars
  <2>2. QED
    BY <1>7, <1>c, <2>1 DEF WriteMode
<1>8. CASE WaitSwitched
  BY <1>8, <1>c, <1>d, <1>e DEF WaitSwitched, ModeSwitched
<1>9. CASE WaitHeader
  BY <1>9, <1>a, <1>c, <1>d, <1>e DEF WaitHeader, ReceiverReady, HaveStatus, ReadInv, Have
<1>10. CASE WriteHeader
  <2>1. CASE UNCHANGED devVars
    BY <1>10, <1>c, <1>e, <2>1 DEF WriteHeader
  <2>2. ASSUME NEW clean \in BOOLEAN, AcceptHeader(call.blob, clean), Goto("receiver"), Stay
        PROVE  OwnInv'
    <3>1. UNCHANGED <<reg, modeReq, mode, due, imported, call>> /\ pc' = "receiver" /\ pc = "header"
      BY <1>10, <2>2, GotoType DEF AcceptHeader, WriteHeader, callVars
    <3>2. sess'.blob \in {call.blob, NoBlob}
      BY <1>a, <2>2, <3>1, HeaderStep DEF OwnInv
    <3>3. QED
      BY <1>a, <3>1, <3>2 DEF OwnInv
  <2>3. QED
    BY <1>10, <1>c, <2>1, <2>2 DEF WriteHeader
<1>11. CASE WaitReceiver
  BY <1>11, <1>c, <1>d, <1>e DEF WaitReceiver
<1>12. CASE Guard
  BY <1>12, <1>e DEF Guard, GuardSlept
<1>13. CASE Confirm
  <2>1. CASE InStep
    BY <1>13, <2>1, <1>e DEF Confirm
  <2>2. CASE ~InStep
    BY <1>13, <2>2, <1>c, <1>e DEF Confirm
  <2>3. QED
    BY <2>1, <2>2
<1>14. CASE WriteBlock
  <2>1. CASE Return("false")
    BY <1>c, <2>1
  <2>2. CASE ~Return("false")
    <3>1. UNCHANGED call /\ pc = "write" /\ pc' \in {"write", "progress"}
      BY <1>14, <2>2, GotoType DEF WriteBlock, pollVars, callVars
    <3>2. UNCHANGED <<reg, modeReq, mode, due, imported>> /\ sess'.blob = sess.blob
      BY <1>14, <1>a, BlockStep DEF WriteBlock, AcceptBlock, devVars
    <3>3. QED
      BY <1>a, <3>1, <3>2 DEF OwnInv
  <2>3. QED
    BY <2>1, <2>2
<1>15. CASE WaitProgress
  BY <1>15, <1>c, <1>d, <1>e DEF WaitProgress
<1>16. CASE WaitFinal
  BY <1>16, <1>a, <1>c, <1>d, <1>e DEF WaitFinal, HaveStatus, ReadInv, Have
<1>17. CASE WaitClosed
  BY <1>17, <1>c, <1>d DEF WaitClosed
<1>18. CASE DevNext /\ UNCHANGED hostVars
  BY <1>18, DeviceStepOwn
<1>19. CASE UNCHANGED vars
  BY <1>a, <1>19 DEF OwnInv, vars, devVars, hostVars, pollVars, callVars
<1>20. QED
  BY <1>1, <1>2, <1>3, <1>4, <1>5, <1>6, <1>7, <1>8, <1>9, <1>10, <1>11, <1>12, <1>13,
     <1>14, <1>15, <1>16, <1>17, <1>18, <1>19 DEF Next, HostStep

-----------------------------------------------------------------------------
\* What the SDK has read

\* What a step of the module may make of its import: it takes no blob from
\* anywhere, and begins to receive only what a header announced.
LEMMA DeviceMove ==
  ASSUME DeviceTypeOK, DeviceInv, DevNext
  PROVE  /\ sess'.blob \in {sess.blob, NoBlob}
         /\ Parsed => Parsed'
         /\ ImportOpen' => sess'.rx = IF ImportOpen THEN sess.rx ELSE 0
         /\ reg'.status = "RECEIVING" =>
              \/ reg.status = "WAIT_HEADER" /\ ~Parsed
              \/ /\ reg.status = "RECEIVING"
                 /\ \/ reg'.done = reg.done /\ (armed => armed')
                    \/ CountChunk /\ reg'.done = sess.rx
         /\ reg'.status = "SUCCESS" => reg.status = "SUCCESS" \/ sess.blob # NoBlob
         /\ imported \subseteq imported'
<1> USE DEF ImportOpen, Parsed
<1>1. CASE SwitchMode
  <2>1. CASE ImportOpen
    BY <1>1, <2>1, StopStep DEF SwitchMode
  <2>2. CASE ~ImportOpen
    BY <1>1, <2>2 DEF SwitchMode, DeviceInv
  <2>3. QED
    BY <2>1, <2>2
<1>2. CASE OpenImport
  BY <1>2 DEF OpenImport, DeviceInv, NoSession, ClearedReg
<1>3. CASE RefuseImport \/ Fail
  BY <1>3, StopStep DEF RefuseImport, Fail
<1>4. CASE ParseHeader
  BY <1>4 DEF ParseHeader, DeviceTypeOK, FlashRegs
<1>5. CASE CountChunk
  BY <1>5 DEF CountChunk, DeviceTypeOK, FlashRegs
<1>6. CASE BeginParsing
  BY <1>6 DEF BeginParsing, DeviceTypeOK, FlashRegs
<1>7. CASE Commit
  <2>1. reg'.status = "SUCCESS" /\ sess'.blob = NoBlob /\ imported \subseteq imported'
    BY <1>7, StopStep DEF Commit
  <2>2. sess.blob # NoBlob
    BY <1>7 DEF Commit, DeviceInv
  <2>3. QED
    BY <2>1, <2>2
<1>8. CASE Arm \/ CloseMode \/ Booted
  BY <1>8 DEF Arm, CloseMode, Booted
<1>9. CASE Restart
  BY <1>9 DEF Restart, NoSession, ClearedReg
<1>10. QED
  BY <1>1, <1>2, <1>3, <1>4, <1>5, <1>6, <1>7, <1>8, <1>9 DEF DevNext

\* A wait that has just begun, or polls again, has read nothing.
LEMMA NothingRead == rd' \in {1, Failed} => ReadInv'
BY DEF ReadInv, Have, Failed

LEMMA GetStatusRead == IInv /\ GetStatus => ReadInv'
<1> SUFFICES ASSUME IInv, GetStatus PROVE ReadInv'
  OBVIOUS
<1>a. /\ TypeOK /\ DeviceTypeOK /\ StatusTypeOK /\ DeviceInv /\ OwnInv /\ ReadInv
  BY DEF IInv, TypeOK
<1>b. rd \in 1..4 /\ UNCHANGED <<devVars, pc, call>>
  BY DEF GetStatus, ReadStatusReg, callVars
<1>1. CASE RetryStatus
  BY <1>1, NothingRead DEF RetryStatus
<1>2. CASE snap' = ReadInto(rd) /\ rd' = rd + 1
  <2> USE DEF ReadInv, Parsed, Have, devVars, ImportOpen, IsTerminal, DataPcs
  <2>1. CASE rd = 1
    <3>1. snap' = [snap EXCEPT !.status = reg.status] /\ rd' = 2
      BY <1>2, <2>1 DEF ReadInto
    <3>2. snap'.status = reg.status
      BY <3>1, <1>a DEF StatusTypeOK, FlashRegs
    <3>3. QED
      BY <1>a, <1>b, <3>1, <3>2 DEF OwnInv, DeviceInv
  <2>2. CASE rd = 2
    <3>1. snap' = [snap EXCEPT !.result = reg.result] /\ rd' = 3
      BY <1>2, <2>2 DEF ReadInto
    <3>2. snap'.status = snap.status
      BY <3>1, <1>a DEF StatusTypeOK, FlashRegs
    <3>3. QED
      BY <1>a, <1>b, <2>2, <3>1, <3>2
  <2>3. CASE rd = 3
    <3>1. snap' = [snap EXCEPT !.done = reg.done] /\ rd' = 4
      BY <1>2, <2>3 DEF ReadInto
    <3>2. /\ snap'.status = snap.status /\ snap'.done = reg.done /\ reg.done \in Nat
      BY <3>1, <1>a DEF StatusTypeOK, DeviceTypeOK, FlashRegs
    <3>3. QED
      BY <1>a, <1>b, <2>3, <3>1, <3>2
  <2>4. CASE rd = 4
    <3>1. snap' = [snap EXCEPT !.total = reg.total] /\ rd' = 5
      BY <1>2, <2>4 DEF ReadInto
    <3>2. snap'.status = snap.status /\ snap'.done = snap.done
      BY <3>1, <1>a DEF StatusTypeOK, FlashRegs
    <3>3. QED
      BY <1>a, <1>b, <2>4, <3>1, <3>2
  <2>5. QED
    BY <1>b, <2>1, <2>2, <2>3, <2>4
<1>3. QED
  BY <1>1, <1>2 DEF GetStatus, ReadStatusReg

LEMMA StepRead == IInv /\ [Next]_vars => ReadInv'
<1> SUFFICES ASSUME IInv, [Next]_vars PROVE ReadInv'
  OBVIOUS
<1>a. /\ TypeOK /\ DeviceTypeOK /\ StatusTypeOK /\ CallInv /\ DeviceInv /\ OwnInv /\ ReadInv
      /\ sess.rx \in Nat /\ reg.done \in Nat /\ snap.done \in Nat
  BY DEF IInv, TypeOK, DeviceTypeOK, StatusTypeOK, Sessions, FlashRegs
<1>1. CASE GetStatus
  BY <1>1, GetStatusRead
<1>2. CASE (HostStep /\ ~GetStatus /\ ~WriteBlock) \/ \E m \in Modes, b \in Blobs : CallTransfer(m, b)
  <2>1. rd' = 1
    BY <1>2, <1>a, GotoType, PollAgainType, ContinueType, RepollType
    DEF HostStep, WaitBoot, CheckInitial, WaitSettled, WaitSettledMode, WriteMode, WaitSwitched,
        WaitHeader, WriteHeader, WaitReceiver, Guard, GuardSlept, Confirm, WaitProgress,
        WaitFinal, WaitClosed, Return, CallTransfer
  <2>2. QED
    BY <2>1, NothingRead
<1>3. CASE WriteBlock
  <2>1. pc' = "write" \/ rd' = 1
    BY <1>3, GotoType DEF WriteBlock, Return, pollVars
  <2>2. QED
    BY <2>1, NothingRead DEF ReadInv
<1>4. CASE DevNext /\ UNCHANGED hostVars
  <2>1. UNCHANGED <<pc, call, snap, rd>>
    BY <1>4 DEF hostVars, pollVars, callVars
  <2>2. /\ sess'.blob \in {sess.blob, NoBlob}
        /\ Parsed => Parsed'
        /\ reg'.status = "SUCCESS" => reg.status = "SUCCESS" \/ sess.blob # NoBlob
        /\ imported \subseteq imported'
    BY <1>a, <1>4, DeviceMove
  <2>3. ASSUME reg'.status = "RECEIVING", Parsed
        PROVE  reg.status = "RECEIVING" /\ reg.done <= reg'.done
    BY <1>a, <1>4, <2>3, DeviceMove DEF DeviceInv
  <2>4. ASSUME pc \in {"receiver", "confirm"}, rd \in 4..Have, snap.status = "RECEIVING",
               reg'.status = "RECEIVING"
        PROVE  snap.done <= reg'.done
    <3>1. Parsed
      BY <1>a, <2>4 DEF ReadInv, Have
    <3>2. reg'.done \in Nat
      BY <1>a, <1>4, DeviceStepType DEF DeviceTypeOK, FlashRegs
    <3>3. QED
      BY <1>a, <2>3, <2>4, <3>1, <3>2 DEF ReadInv
  <2>5. QED
    BY <1>a, <2>1, <2>2, <2>4 DEF ReadInv, OwnInv, Have
<1>5. CASE UNCHANGED vars
  BY <1>a, <1>5 DEF ReadInv, Parsed, vars, devVars, hostVars, pollVars, callVars
<1>6. QED
  BY <1>1, <1>2, <1>3, <1>4, <1>5 DEF Next

-----------------------------------------------------------------------------
\* What the module has received

\* The chunk the SDK writes is the one the receiver waits for.
LEMMA ChunkMeets ==
  ASSUME IInv, pc = "write", reg.status = "RECEIVING"
  PROVE  ChunkEnd = sent + Chunk /\ sess.rx < ChunkEnd /\ sess.rx \in Nat
<1>1. reg.done = sent /\ reg.total = Size[call.blob] /\ sess.rx <= Position
  BY DEF IInv, StreamInv, OwnInv, DeviceInv, DataPcs, ImportOpen
<1>2. sent \in Nat /\ Size[call.blob] \in Nat /\ sess.rx \in Nat
  BY CallType DEF IInv, TypeOK, DeviceTypeOK, Sessions
<1>3. ChunkEnd = sent + Chunk
  BY <1>1, <1>2, SpiDeviceAssumption DEF ChunkEnd, Chunk, Lesser
<1>4. Position \in Nat /\ Position < sent + Chunk /\ Chunk \in Nat
  BY ChunkType DEF IInv
<1> HIDE DEF Chunk, Position
<1>5. QED
  BY <1>1, <1>2, <1>3, <1>4

LEMMA DeviceStepStream == IInv /\ DevNext /\ UNCHANGED hostVars => StreamInv'
<1> SUFFICES ASSUME IInv, DevNext, UNCHANGED hostVars PROVE StreamInv'
  OBVIOUS
<1>a. /\ TypeOK /\ DeviceTypeOK /\ CallInv /\ DeviceInv /\ OwnInv /\ StreamInv
      /\ sess.rx \in Nat /\ reg.done \in Nat /\ sent \in Nat
  BY DEF IInv, TypeOK, DeviceTypeOK, Sessions, FlashRegs
<1>b. UNCHANGED <<pc, call, sent, queued>> /\ Position' = Position
  BY DEF hostVars, pollVars, callVars, Position
<1>c. pc = "write" => Position \in Nat
  BY <1>a, ChunkType
<1>d. Parsed => Parsed'
  BY <1>a, DeviceMove
<1>e. ImportOpen' => sess'.rx = IF ImportOpen THEN sess.rx ELSE 0
  BY <1>a, DeviceMove
<1> HIDE DEF Position
\* Until the chunk is written, the module counts nothing new.
<1>f. ASSUME pc \in {"guard", "confirm", "write"}, reg'.status = "RECEIVING"
      PROVE  reg.status = "RECEIVING" /\ reg'.done = reg.done /\ (armed => armed')
  <2>1. Parsed
    BY <1>a, <1>f DEF StreamInv
  <2>2. reg.status = "RECEIVING"
    BY <1>a, <1>f, <2>1, DeviceMove
  <2>3. ~CountChunk
    <3>1. CASE pc = "write"
      BY <2>2, <3>1, ChunkMeets DEF CountChunk
    <3>2. CASE pc # "write"
      BY <1>a, <1>f, <2>2, <3>2 DEF StreamInv, CountChunk, DataPcs, ImportOpen
    <3>3. QED
      BY <3>1, <3>2
  <2>4. QED
    BY <1>a, <1>f, <2>1, <2>2, <2>3, DeviceMove
<1>g. ASSUME pc \in DataPcs \ {"write"}, ImportOpen' PROVE sess'.rx <= sent
  BY <1>a, <1>e, <1>g DEF StreamInv
<1>h. ASSUME pc = "write", ImportOpen' PROVE sess'.rx <= Position
  BY <1>a, <1>c, <1>e, <1>h DEF StreamInv
<1>1. QED
  BY <1>a, <1>b, <1>d, <1>f, <1>g, <1>h DEF StreamInv

LEMMA StepStream == IInv /\ [Next]_vars => StreamInv'
<1> SUFFICES ASSUME IInv, [Next]_vars PROVE StreamInv'
  OBVIOUS
<1>a. /\ TypeOK /\ DeviceTypeOK /\ StatusTypeOK
      /\ CallInv /\ DeviceInv /\ OwnInv /\ ReadInv /\ StreamInv
      /\ sess.rx \in Nat /\ reg.done \in Nat /\ sent \in Nat /\ snap.done \in Nat
  BY DEF IInv, TypeOK, DeviceTypeOK, StatusTypeOK, Sessions, FlashRegs
<1> USE DEF DataPcs, ImportOpen
<1>c. ASSUME NEW p, pc' = p, p \notin DataPcs PROVE StreamInv'
  BY <1>c DEF StreamInv
<1>r. ASSUME NEW v, Return(v) PROVE StreamInv'
  BY <1>c, <1>r, GotoType DEF Return
\* The call goes on at p: what it needs to know of the module by then.
<1>e. ASSUME NEW p, Goto(p) \/ Continue(p) \/ Repoll(p), UNCHANGED <<sent, call>>, UNCHANGED devVars,
             p # "write",
             p \in DataPcs /\ ImportOpen => sess.rx <= sent,
             p \in {"guard", "confirm", "progress", "final"} => Parsed,
             p \in {"guard", "confirm"} /\ reg.status = "RECEIVING" => reg.done = sent,
             PromptArm /\ p = "confirm" /\ reg.status = "RECEIVING" => armed
      PROVE  StreamInv'
  BY <1>e, <1>a, GotoType, ContinueType, RepollType DEF StreamInv, Parsed, devVars
<1>d. ASSUME PollAgain, Stay, UNCHANGED devVars PROVE StreamInv'
  BY <1>a, <1>d, PollAgainType DEF StreamInv, Parsed, Position, Stay, devVars, callVars
<1> USE DEF Stay, callVars
<1>1. CASE \E m \in Modes, b \in Blobs : CallTransfer(m, b)
  BY <1>1, <1>c, GotoType DEF CallTransfer
<1>2. CASE GetStatus
  <2>1. pc # "write"
    BY <1>2 DEF GetStatus, PollPcs
  <2>2. UNCHANGED <<pc, sent, call, devVars>>
    BY <1>2 DEF GetStatus, ReadStatusReg
  <2>3. QED
    BY <1>a, <2>1, <2>2 DEF StreamInv, Parsed, devVars
<1>3. CASE WaitBoot \/ CheckInitial \/ WaitSettled
  BY <1>3, <1>d, <1>e, <1>r DEF WaitBoot, CheckInitial, WaitSettled
<1>4. CASE WaitSettledMode \/ WaitSwitched
  BY <1>4, <1>d, <1>e, <1>r DEF WaitSettledMode, WaitSwitched
<1>5. CASE WriteMode
  BY <1>5, <1>c, <1>r, GotoType DEF WriteMode
<1>6. CASE WaitHeader
  <2>1. ImportOpen => sess.rx <= sent
    BY <1>6, <1>a DEF WaitHeader, OwnInv, DeviceInv
  <2>2. QED
    BY <1>6, <2>1, <1>d, <1>e, <1>r DEF WaitHeader
<1>7. CASE WriteHeader
  <2>1. CASE Return("false")
    BY <1>r, <2>1
  <2>2. CASE ~Return("false")
    <3>1. pc = "header" /\ pc' = "receiver" /\ UNCHANGED <<sent, call>>
      BY <1>7, <2>2, GotoType DEF WriteHeader
    <3>2. UNCHANGED reg /\ sess'.rx = sess.rx
      BY <1>7, <1>a, HeaderStep DEF WriteHeader, AcceptHeader, devVars
    <3>3. QED
      BY <1>a, <3>1, <3>2 DEF StreamInv
  <2>3. QED
    BY <2>1, <2>2
<1>8. CASE WaitReceiver
  <2>1. ImportOpen => sess.rx <= sent
    BY <1>8, <1>a DEF WaitReceiver, StreamInv
  <2>2. ASSUME InStep PROVE Parsed /\ (reg.status = "RECEIVING" => reg.done = sent)
    <3>1. Parsed /\ (reg.status = "RECEIVING" => sent <= reg.done)
      BY <1>8, <1>a, <2>2 DEF WaitReceiver, InStep, HaveStatus, ReadInv, Have
    <3>2. QED
      BY <1>a, <2>1, <3>1 DEF DeviceInv
  <2>3. QED
    BY <1>8, <2>1, <2>2, <1>d, <1>e, <1>r DEF WaitReceiver
<1>9. CASE Guard
  <2>1. /\ Parsed
        /\ ImportOpen => sess.rx <= sent
        /\ reg.status = "RECEIVING" => reg.done = sent /\ sess.rx = sent
    BY <1>9, <1>a DEF Guard, StreamInv, DeviceInv
  <2>2. PromptArm /\ reg.status = "RECEIVING" => armed
    BY <1>9, <2>1 DEF Guard, GuardSlept
  <2>3. QED
    BY <1>9, <2>1, <2>2, <1>e DEF Guard, GuardSlept
<1>10. CASE Confirm
  <2>1. CASE InStep
    <3>1. pc = "confirm" /\ pc' = "write" /\ queued' = Chunk /\ UNCHANGED <<sent, call>> /\ UNCHANGED devVars
      BY <1>10, <2>1, GotoType DEF Confirm, Chunk
    <3>2. Position' = sent
      <4>1. Chunk \in Nat /\ Chunk' = Chunk
        BY <1>a, <3>1, ChunkType, SpiDeviceAssumption DEF Chunk
      <4>2. Position' = sent + Chunk - Chunk
        BY <3>1 DEF Position, Chunk
      <4> HIDE DEF Chunk, Position
      <4>3. QED
        BY <1>a, <4>1, <4>2
    <3>3. QED
      BY <1>a, <3>1, <3>2 DEF StreamInv, Parsed, devVars
  <2>2. CASE ~InStep
    <3>1. ImportOpen => sess.rx <= sent
      BY <1>10, <1>a DEF Confirm, StreamInv
    <3>2. QED
      BY <1>10, <2>2, <3>1, <1>e, <1>r DEF Confirm
  <2>3. QED
    BY <2>1, <2>2
<1>11. CASE WriteBlock
  <2>1. CASE Return("false")
    BY <1>r, <2>1
  <2>2. CASE ~Return("false")
    <3>1. /\ pc = "write" /\ queued' = queued - 1 /\ UNCHANGED call
          /\ \/ pc' = "write" /\ UNCHANGED sent
             \/ pc' = "progress" /\ sent' = Position + 1
      BY <1>11, <2>2, GotoType DEF WriteBlock, pollVars
    <3>2. UNCHANGED <<reg, armed>> /\ sess'.blob = sess.blob
          /\ (sess'.rx = sess.rx \/ sess'.rx = sess.rx + 1)
      BY <1>11, <1>a, BlockStep DEF WriteBlock, AcceptBlock, devVars
    <3>3. Position \in Nat /\ queued \in Nat /\ Chunk \in Nat /\ Position = sent + Chunk - queued
      BY <1>a, <3>1, ChunkType, SpiDeviceAssumption
    <3>4. pc' = "write" => Position' = sent + Chunk - queued'
      BY <3>1 DEF Position, Chunk
    <3> HIDE DEF Position, Chunk
    <3>5. pc' = "write" => Position' = Position + 1
      BY <1>a, <3>1, <3>3, <3>4
    <3>6. ImportOpen => sess'.rx <= Position + 1
      BY <1>a, <3>1, <3>2, <3>3 DEF StreamInv
    <3>7. Parsed' /\ reg'.status = reg.status
      BY <1>a, <3>1, <3>2 DEF StreamInv, Parsed
    <3>8. CASE pc' = "write"
      BY <1>a, <3>1, <3>2, <3>5, <3>6, <3>7, <3>8 DEF StreamInv
    <3>9. CASE pc' = "progress"
      BY <3>1, <3>2, <3>6, <3>7, <3>9 DEF StreamInv
    <3>10. QED
      BY <3>1, <3>8, <3>9
  <2>3. QED
    BY <2>1, <2>2
<1>12. CASE WaitProgress
  <2>1. Parsed /\ (ImportOpen => sess.rx <= sent)
    BY <1>12, <1>a DEF WaitProgress, StreamInv
  <2>2. QED
    BY <1>12, <2>1, <1>d, <1>e, <1>r DEF WaitProgress
<1>13. CASE WaitFinal
  BY <1>13, <1>d, <1>e, <1>r DEF WaitFinal
<1>14. CASE WaitClosed
  BY <1>14, <1>d, <1>r DEF WaitClosed
<1>15. CASE DevNext /\ UNCHANGED hostVars
  BY <1>15, DeviceStepStream
<1>16. CASE UNCHANGED vars
  BY <1>a, <1>16 DEF StreamInv, Parsed, Position, vars, devVars, hostVars, pollVars
<1>17. QED
  BY <1>1, <1>2, <1>3, <1>4, <1>5, <1>6, <1>7, <1>8, <1>9, <1>10, <1>11, <1>12, <1>13,
     <1>14, <1>15, <1>16 DEF Next, HostStep

-----------------------------------------------------------------------------
\* The invariant and what follows from it

LEMMA InitInv == Init => IInv
<1> SUFFICES ASSUME Init PROVE IInv
  OBVIOUS
<1>1. Base
  BY InitBase
<1>2. OfferedInv
  BY DEF Init, DevInit, OfferedInv, NoMisroute, NoSession
<1>3. OwnInv /\ ReadInv /\ StreamInv
  BY DEF Init, StatusInit, OwnInv, ReadInv, StreamInv, DataPcs
<1>4. QED
  BY <1>1, <1>2, <1>3 DEF Base, IInv

LEMMA StepInv == IInv /\ [Next]_vars => IInv'
<1> SUFFICES ASSUME IInv, [Next]_vars PROVE IInv'
  OBVIOUS
<1>1. TypeOK' /\ CallInv' /\ DeviceInv'
  BY StepType, StepCall, StepDevice DEF IInv
<1>2. OfferedInv' /\ OwnInv' /\ ReadInv' /\ StreamInv'
  BY StepOffered, StepOwn, StepRead, StepStream
<1>3. QED
  BY <1>1, <1>2 DEF IInv

\* Whatever the module does and whatever fails, the invariant is kept.
THEOREM Inductive == Spec => []IInv
BY InitInv, StepInv, PTL DEF Spec

\* No mode imports a blob that was not offered for it, although a failed call
\* leaves its import, or its request for one, behind (run_spi_blob_transfer has
\* no abort).
THEOREM Routed == Spec => []NoMisroute
<1>1. IInv => NoMisroute
  BY DEF IInv, OfferedInv
<1>2. QED
  BY <1>1, Inductive, PTL

\* From the header on, an open import is the call's own: the mode that read back
\* cannot be left for another one.
THEOREM Owned == Spec => []OwnImport
<1>1. IInv => OwnImport
  BY DEF IInv, OwnInv, OwnImport, DataPcs
<1>2. QED
  BY <1>1, Inductive, PTL

\* When the guard time is enough to arm the receiver, every block meets one that
\* takes it: the two readings of the status around the guard are enough.
THEOREM NothingLost == ASSUME PromptArm PROVE Spec => []NoBlockLost
<1>1. IInv => NoBlockLost
  BY ChunkMeets DEF IInv, StreamInv, NoBlockLost
<1>2. QED
  BY <1>1, Inductive, PTL

\* What holds while a call runs, all of it.
THEOREM TransferIsSafe == ASSUME PromptArm PROVE Spec => []TransferSafe
BY Routed, Owned, NothingLost, PTL DEF TransferSafe

\* "true" is returned only by the last wait, which saw the mode back at NONE.
LEMMA VerdictStep ==
  ASSUME IInv, [Next]_vars, ret' = "true", ret # "true"
  PROVE  pc = "closing" /\ mode = NONE /\ UNCHANGED devVars /\ Return("true")
<1>b. ASSUME NEW v, Return(v) PROVE ret' = v
  BY <1>b DEF Return
<1> USE DEF Stay, callVars
<1>1. CASE \E m \in Modes, b \in Blobs : CallTransfer(m, b)
  BY <1>1 DEF CallTransfer
<1>2. CASE GetStatus \/ WaitBoot \/ CheckInitial \/ WaitSettled
  BY <1>2, <1>b DEF GetStatus, WaitBoot, CheckInitial, WaitSettled
<1>3. CASE WaitSettledMode \/ WriteMode \/ WaitSwitched \/ WaitHeader
  BY <1>3, <1>b DEF WaitSettledMode, WriteMode, WaitSwitched, WaitHeader
<1>4. CASE WriteHeader \/ WaitReceiver \/ Guard \/ WriteBlock
  BY <1>4, <1>b DEF WriteHeader, WaitReceiver, Guard, WriteBlock
<1>5. CASE Confirm
  BY <1>5, <1>b DEF Confirm
<1>6. CASE WaitProgress \/ WaitFinal
  BY <1>6, <1>b DEF WaitProgress, WaitFinal
<1>7. CASE WaitClosed
  BY <1>7, <1>b DEF WaitClosed, ModeClosed
<1>8. CASE UNCHANGED hostVars
  BY <1>8 DEF hostVars
<1>9. QED
  BY <1>1, <1>2, <1>3, <1>4, <1>5, <1>6, <1>7, <1>8 DEF Next, HostStep, vars

\* A call that returned true left no import open and no mode that could open
\* one: the bridge is free for the metadata stream.
THEOREM BridgeFree == Spec => TrueLeavesBridgeFree
<1>1. IInv /\ [Next]_vars => (ret' = "true" /\ ret # "true" => mode = NONE /\ ~ImportOpen)
  BY VerdictStep DEF IInv, DeviceInv
<1>2. QED
  BY <1>1, Inductive, PTL DEF Spec, TrueLeavesBridgeFree

-----------------------------------------------------------------------------
\* Refinement

LEMMA PromiseInit == Init => Promise!Init
BY DEF Init, DevInit, StatusInit, Promise!Init

\* A step that leaves the offer, the store and the verdict alone is a stutter.
LEMMA PromiseStutter ==
  UNCHANGED <<call, offered, store, imported, ret>> /\ (pc # "idle" <=> pc' # "idle")
    => UNCHANGED Promise!vars
BY DEF Promise!vars

LEMMA PromiseDevice ==
  ASSUME IInv, DevNext, UNCHANGED hostVars PROVE [Promise!Next]_(Promise!vars)
<1>a. UNCHANGED <<pc, call, offered, ret>>
  BY DEF hostVars, pollVars, callVars
<1>1. CASE Commit
  <2>1. mode \in Modes /\ sess.blob \in Blobs /\ <<mode, sess.blob>> \in offered
    BY <1>1, BlobType DEF Commit, IInv, TypeOK, DeviceTypeOK, DeviceInv, OfferedInv, ImportOpen
  <2>2. Promise!Import(mode, sess.blob)
    BY <1>1, <1>a, <2>1 DEF Commit, Promise!Import
  <2>3. QED
    BY <2>1, <2>2 DEF Promise!Next
<1>2. CASE ~Commit
  <2>1. UNCHANGED <<store, imported>>
    BY <1>2 DEF DevNext, SwitchMode, OpenImport, RefuseImport, ParseHeader, Arm, CountChunk,
                BeginParsing, Fail, CloseMode, Restart, Booted
  <2>2. QED
    BY <1>a, <2>1, PromiseStutter
<1>3. QED
  BY <1>1, <1>2

LEMMA PromiseReturn ==
  ASSUME IInv, NEW v \in {"true", "false"}, Return(v), pc # "idle",
         UNCHANGED <<store, imported>>,
         v = "true" => <<call.mode, call.blob>> \in imported
  PROVE  Promise!Next
<1>1. pc' = "idle" /\ ret' = v /\ UNCHANGED offered
  BY GotoType DEF Return
<1>2. Promise!Return(v)
  BY <1>1 DEF Promise!Return
<1>3. QED
  BY <1>2 DEF Promise!Next

LEMMA PromiseHost ==
  ASSUME IInv, HostStep PROVE [Promise!Next]_(Promise!vars)
<1>a. UNCHANGED <<store, imported>> /\ UNCHANGED offered
  BY HostFrame DEF devVars, RequestMode, AcceptHeader, AcceptBlock
<1>b. TypeOK /\ StatusTypeOK /\ OwnInv
  BY DEF IInv, TypeOK
<1>c. pc # "idle"
  BY DEF HostStep, GetStatus, PollPcs, WaitBoot, CheckInitial, WaitSettled, WaitSettledMode, WriteMode,
         WaitSwitched, WaitHeader, WriteHeader, WaitReceiver, Guard, Confirm, WriteBlock,
         WaitProgress, WaitFinal, WaitClosed
<1>1. ASSUME Return("false") PROVE Promise!Next
  BY <1>1, <1>a, <1>c, PromiseReturn
<1>2. ASSUME pc' # "idle", UNCHANGED callVars PROVE UNCHANGED Promise!vars
  BY <1>2, <1>a, <1>c, PromiseStutter DEF callVars
<1>3. ASSUME NEW p, p # "idle", Goto(p) \/ Continue(p) \/ Repoll(p), UNCHANGED callVars
      PROVE  UNCHANGED Promise!vars
  BY <1>2, <1>3, <1>b, GotoType, ContinueType, RepollType
<1>4. ASSUME PollAgain, Stay PROVE UNCHANGED Promise!vars
  BY <1>2, <1>4, <1>b, <1>c, PollAgainType DEF Stay
<1> USE DEF Stay
<1>5. CASE GetStatus
  BY <1>5, <1>c, <1>2 DEF GetStatus, ReadStatusReg
<1>6. CASE WaitBoot \/ CheckInitial \/ WaitSettled \/ WaitSettledMode
  BY <1>6, <1>1, <1>3, <1>4 DEF WaitBoot, CheckInitial, WaitSettled, WaitSettledMode
<1>7. CASE WriteMode \/ WaitSwitched \/ WaitHeader \/ WriteHeader
  BY <1>7, <1>1, <1>3, <1>4 DEF WriteMode, WaitSwitched, WaitHeader, WriteHeader
<1>8. CASE WaitReceiver \/ Guard
  BY <1>8, <1>1, <1>3, <1>4 DEF WaitReceiver, Guard, GuardSlept
<1>9. CASE Confirm
  <2>1. CASE InStep
    BY <1>9, <2>1, <1>3 DEF Confirm
  <2>2. CASE ~InStep
    BY <1>9, <2>2, <1>1, <1>3 DEF Confirm
  <2>3. QED
    BY <2>1, <2>2
<1>10. CASE WriteBlock
  <2>1. CASE queued > 1 /\ ~Return("false")
    BY <1>10, <1>2, <2>1 DEF WriteBlock, pollVars
  <2>2. CASE ~(queued > 1) /\ ~Return("false")
    BY <1>10, <1>3, <2>2 DEF WriteBlock
  <2>3. QED
    BY <2>1, <2>2, <1>1
<1>11. CASE WaitProgress \/ WaitFinal
  BY <1>11, <1>1, <1>3, <1>4 DEF WaitProgress, WaitFinal
<1>12. CASE WaitClosed
  <2>1. CASE Return("true")
    BY <1>12, <1>a, <1>b, <1>c, <2>1, PromiseReturn DEF WaitClosed, OwnInv
  <2>2. QED
    BY <1>12, <2>1, <1>1, <1>4 DEF WaitClosed
<1>13. QED
  BY <1>5, <1>6, <1>7, <1>8, <1>9, <1>10, <1>11, <1>12 DEF HostStep

LEMMA PromiseStep == IInv /\ [Next]_vars => [Promise!Next]_(Promise!vars)
<1> SUFFICES ASSUME IInv, [Next]_vars PROVE [Promise!Next]_(Promise!vars)
  OBVIOUS
<1>1. ASSUME NEW m \in Modes, NEW b \in Blobs, CallTransfer(m, b) PROVE Promise!Next
  <2>1. pc = "idle" /\ pc' = "boot" /\ call' = [mode |-> m, blob |-> b]
    BY <1>1, GotoType DEF CallTransfer
  <2>2. Promise!Offer(m, b)
    BY <1>1, <2>1 DEF CallTransfer, Promise!Offer
  <2>3. QED
    BY <2>2 DEF Promise!Next
<1>2. CASE UNCHANGED vars
  BY <1>2, PromiseStutter DEF vars, devVars, hostVars, pollVars, callVars
<1>3. QED
  BY <1>1, <1>2, PromiseHost, PromiseDevice DEF Next

\* A transfer over SPI is an atomic offer: the module imports it or not, only a
\* call whose own blob was imported while it ran returns true.
THEOREM Implements == Spec => ImplementsBlobImport
BY PromiseInit, PromiseStep, Inductive, PTL DEF Spec, ImplementsBlobImport, Promise!Spec
=============================================================================
