------------------------ MODULE I2cBlobTransferProofs -----------------------
(***************************************************************************)
(* Proofs of the safety properties of I2cBlobTransfer, for any operations, *)
(* blobs, sizes and bounds.                                                *)
(*                                                                         *)
(* The parts of the inductive invariant say, in this order: the loop       *)
(* counters and the call agree with where the SDK is; what the module's    *)
(* registers imply about its import; nothing but this call's import can    *)
(* open or be open; a status that was read still holds where the SDK       *)
(* relies on it; and what the module has received of the call's stream.    *)
(***************************************************************************)
EXTENDS I2cBlobTransfer, TLAPS

\* From the request on, the import belongs to the call.
ClaimedPcs == {"maxWrite", "giveUp"} \cup DataPcs

CallInv ==
  /\ rd \in 1..4 => tries < Retries
  /\ call.transfer => call.op \in Ops /\ call.blob \in Blobs
                      /\ <<call.op, call.blob>> \in offered
  /\ pc = "idle" => ~call.transfer
  /\ pc \notin {"idle", "abort", "abortWait"} => call.transfer
  /\ call.transfer => ret = "none"
  /\ pc \notin DataPcs \cup {"giveUp"} => sent = 0
  /\ pc \in {"write", "drain"} => sent < StreamSize
  /\ pc \in DataPcs => sent <= StreamSize

DeviceInv ==
  /\ ImportOpen => boot /\ sess.op \in Ops
  /\ ~ImportOpen => fifo = EmptyFifo /\ sess.rx = 0
  /\ ~boot => reg.status = "IDLE" /\ ~opPend
  /\ Accepted > 0 => fifo.blob \in Blobs
  /\ fifo.lo <= fifo.hi
  /\ sess.rx > 0 => sess.blob \in Blobs
  /\ reg.status \in {"RECEIVING", "PARSING"} => sess.rx >= HeaderLen
  /\ reg.status = "SUCCESS" => reg.result = "OK"

\* What was sent into the open import was offered for its operation.
OfferedInv ==
  /\ NoMisroute
  /\ imported \subseteq offered
  /\ Accepted > 0 => <<sess.op, fifo.blob>> \in offered
  /\ sess.rx > 0 => <<sess.op, sess.blob>> \in offered

OwnInv ==
  /\ pc \in {"boot", "initial", "settle", "abortWait", "request"} =>
       (opPend => opReg = ABORT)
  /\ pc = "request" => ~ImportOpen
  /\ pc = "waitHeader" =>
       /\ opPend => opReg = call.op /\ ~ImportOpen
       /\ ~opPend => reg.status \in {"WAIT_HEADER", "FAILED", "IDLE"}
  /\ pc \in ClaimedPcs => ~opPend
  /\ pc \in ClaimedPcs \cup {"waitHeader"} /\ ImportOpen => sess.op = call.op
  /\ pc \in {"waitHeader", "maxWrite"} /\ ImportOpen =>
       reg.status = "WAIT_HEADER" /\ sess.rx = 0 /\ Accepted = 0

\* A status read in this call, in the places where an old one would matter.
ReadInv ==
  /\ pc \in {"initial", "settle", "abortWait"} \cup DataPcs /\ rd \in 2..Have
       /\ IsTerminal(snap.status) => ~ImportOpen
  /\ pc = "abortWait" /\ rd \in 2..Have /\ snap.status = "IDLE" => reg.status = "IDLE"
  /\ pc = "waitHeader" /\ rd \in 2..Have /\ snap.status = "WAIT_HEADER" => ~opPend
  /\ pc = "final" /\ rd \in 3..Have /\ snap.status = "SUCCESS"
       /\ snap.result # "OK" => reg.status # "SUCCESS"
  /\ pc = "progress" /\ rd \in 4..Have /\ ImportOpen => snap.done <= reg.done

StreamInv ==
  /\ pc \in ClaimedPcs =>
       /\ Accepted > 0 => fifo.blob = call.blob
       /\ sess.rx > 0 => sess.blob = call.blob
       /\ reg.status = "SUCCESS" => <<call.op, call.blob>> \in imported
  /\ pc = "final" /\ rd \in 2..Have /\ snap.status = "SUCCESS" =>
       <<call.op, call.blob>> \in imported
  /\ pc \in {"maxWrite", "write", "arm", "progress", "final"} => Accepted = 0
  /\ pc \in {"write", "drain", "final"} /\ ImportOpen => reg.done >= PayloadBytes(sent)
  /\ pc = "arm" => PayloadBytes(sent) = 0

IInv == TypeOK /\ CallInv /\ DeviceInv /\ OfferedInv /\ OwnInv /\ ReadInv /\ StreamInv

-----------------------------------------------------------------------------
\* Types

LEMMA ClearedRegType ==
  ASSUME NEW s \in Statuses, NEW r \in Results
  PROVE  ClearedReg(s, r) \in FlashRegs
BY DEF ClearedReg, FlashRegs

LEMMA NoneReg == ClearedReg("IDLE", "NONE") \in FlashRegs
BY ClearedRegType DEF Statuses, Results

LEMMA NoSessionType == NoSession \in Sessions /\ EmptyFifo \in Fifos
BY DEF NoSession, EmptyFifo, Sessions, Fifos

LEMMA StopType ==
  ASSUME DeviceTypeOK, NEW s \in Statuses, NEW r \in Results, Stop(s, r)
  PROVE  reg' \in FlashRegs /\ sess' \in Sessions /\ fifo' \in Fifos
BY NoSessionType DEF DeviceTypeOK, FlashRegs, Stop

\* No step of the module changes a variable's type.
LEMMA DeviceStepType == DeviceTypeOK /\ DeviceInv /\ DevNext => DeviceTypeOK'
<1> SUFFICES ASSUME DeviceTypeOK, DeviceInv, DevNext PROVE DeviceTypeOK'
  OBVIOUS
<1> USE NoneReg, NoSessionType
<1>1. CASE TakeAbort
  BY <1>1 DEF DeviceTypeOK, TakeAbort
<1>2. CASE TakeOp
  <2>1. reg' \in FlashRegs
    BY <1>2, ClearedRegType DEF TakeOp, Statuses, Results
  <2>2. sess' \in Sessions
    BY <1>2 DEF TakeOp, Sessions, DeviceTypeOK
  <2>3. QED
    BY <1>2, <2>1, <2>2 DEF TakeOp, DeviceTypeOK
<1>3. CASE RefuseOp
  BY <1>3, StopType DEF DeviceTypeOK, RefuseOp, Statuses, Results
<1>4. ASSUME NEW n \in 1..FifoCap, Drain(n) PROVE DeviceTypeOK'
  <2>1. n \in Nat /\ n <= fifo.hi - fifo.lo
    BY <1>4, DeviceAssumption DEF Drain, DeviceTypeOK, Fifos, Accepted
  <2>2. sess' \in Sessions
    <3> DEFINE blob == IF sess.rx = 0 THEN fifo.blob ELSE sess.blob
               intact == sess.intact /\ fifo.lo = sess.rx
                           /\ (sess.rx = 0 \/ fifo.blob = sess.blob)
    <3>1. sess' = [sess EXCEPT !.rx = sess.rx + n, !.blob = blob, !.intact = intact]
      BY <1>4 DEF Drain
    <3>2. blob \in Blobs \cup {NoBlob} /\ sess.rx + n \in Nat /\ intact \in BOOLEAN
      BY <2>1 DEF DeviceTypeOK, Sessions, Fifos
    <3> HIDE DEF blob, intact
    <3>3. QED
      BY <3>1, <3>2 DEF DeviceTypeOK, Sessions
  <2>3. fifo' \in Fifos
    <3>1. CASE n = Accepted
      BY <1>4, <3>1 DEF Drain
    <3>2. CASE n # Accepted
      BY <1>4, <2>1, <3>2 DEF Drain, DeviceTypeOK, Fifos
    <3>3. QED
      BY <3>1, <3>2
  <2>4. QED
    BY <1>4, <2>2, <2>3 DEF Drain, DeviceTypeOK
<1>5. CASE ParseHeader
  <2>1. sess.blob \in Blobs
    BY <1>5, DeviceAssumption DEF ParseHeader, DeviceInv, DeviceTypeOK, Sessions
  <2>2. Size[sess.blob] \in Nat
    BY <2>1, DeviceAssumption
  <2>3. reg' \in FlashRegs
    BY <1>5, <2>2 DEF ParseHeader, DeviceTypeOK, FlashRegs, Statuses
  <2>4. QED
    BY <1>5, <2>3 DEF ParseHeader, DeviceTypeOK
<1>6. ASSUME NEW n \in 1..reg.total, CountBytes(n) PROVE DeviceTypeOK'
  BY <1>6 DEF DeviceTypeOK, CountBytes, FlashRegs
<1>7. CASE BeginParsing
  BY <1>7 DEF DeviceTypeOK, BeginParsing, FlashRegs, Statuses
<1>8. CASE Commit
  <2>1. sess.op \in Ops /\ sess.blob \in Blobs
    BY <1>8, DeviceAssumption DEF Commit, DeviceInv, ImportOpen, DeviceTypeOK, Sessions
  <2>2. reg' \in FlashRegs /\ sess' \in Sessions /\ fifo' \in Fifos
    BY <1>8, StopType DEF Commit, Statuses, Results
  <2>3. QED
    BY <1>8, <2>1, <2>2 DEF Commit, DeviceTypeOK
<1>9. CASE Fail
  <2>1. reg' \in FlashRegs /\ sess' \in Sessions /\ fifo' \in Fifos
    BY <1>9, StopType DEF Fail, Statuses, Results
  <2>2. QED
    BY <1>9, <2>1 DEF Fail, DeviceTypeOK
<1>10. CASE Restart
  <2>1. resets' \in 0..MaxResets
    BY <1>10, DeviceAssumption DEF DeviceTypeOK, Restart
  <2>2. QED
    BY <1>10, <2>1 DEF DeviceTypeOK, Restart
<1>11. CASE Booted
  BY <1>11 DEF DeviceTypeOK, Booted
<1>12. QED
  BY <1>1, <1>2, <1>3, <1>4, <1>5, <1>6, <1>7, <1>8, <1>9, <1>10, <1>11 DEF DevNext

\* Nor does a bus access.
LEMMA BusType ==
  ASSUME DeviceTypeOK, DeviceInv
  PROVE  /\ \A o \in Ops \cup {ABORT} : RequestOp(o) => DeviceTypeOK'
         /\ \A b \in Blobs, lo, hi \in Nat, clean \in BOOLEAN :
              AcceptBytes(b, lo, hi, clean) => DeviceTypeOK'
<1>1. ASSUME NEW o \in Ops \cup {ABORT}, RequestOp(o) PROVE DeviceTypeOK'
  BY <1>1 DEF DeviceTypeOK, RequestOp
<1>2. ASSUME NEW b \in Blobs, NEW lo \in Nat, NEW hi \in Nat, NEW clean \in BOOLEAN,
             AcceptBytes(b, lo, hi, clean)
      PROVE  DeviceTypeOK'
  <2>1. [blob |-> b, lo |-> lo, hi |-> Lesser(hi, lo + FifoCap)] \in Fifos
    BY DeviceAssumption DEF Fifos, Lesser
  <2>2. fifo' \in Fifos
    BY <1>2, <2>1 DEF AcceptBytes, DeviceTypeOK
  <2>3. (sess.intact /\ clean /\ Accepted = 0) \in BOOLEAN
    OBVIOUS
  <2>4. sess' \in Sessions
    BY <1>2, <2>3 DEF AcceptBytes, DeviceTypeOK, Sessions
  <2>5. QED
    BY <1>2, <2>2, <2>4 DEF AcceptBytes, DeviceTypeOK
<1>3. QED
  BY <1>1, <1>2

-----------------------------------------------------------------------------
\* The SDK's variables

LEMMA ReadIntoType ==
  ASSUME DeviceTypeOK, StatusTypeOK, NEW k \in 1..4
  PROVE  ReadInto(k) \in FlashRegs
BY DEF DeviceTypeOK, StatusTypeOK, FlashRegs, ReadInto

LEMMA GotoType ==
  ASSUME NEW p, Goto(p) PROVE StatusTypeOK' /\ rd' = 1 /\ tries' = 0 /\ pc' = p
BY NoneReg, PollAssumption DEF Goto, FreshStatus, StatusTypeOK, Failed

LEMMA PollAgainType ==
  ASSUME StatusTypeOK, PollAgain PROVE StatusTypeOK' /\ rd' = 1 /\ tries' = 0 /\ pc' = pc
BY NoneReg, PollAssumption DEF PollAgain, Repoll, FreshStatus, StatusTypeOK, Failed

LEMMA ReadStatusType ==
  ASSUME DeviceTypeOK, StatusTypeOK, ReadStatusReg, tries < Retries
  PROVE  StatusTypeOK' /\ (rd' \in 1..4 => tries' < Retries)
<1>1. CASE RetryStatus /\ UNCHANGED <<pc, polls>>
  BY <1>1, NoneReg, PollAssumption DEF RetryStatus, StatusTypeOK, Failed
<1>2. CASE snap' = ReadInto(rd) /\ rd' = rd + 1 /\ UNCHANGED <<tries, pc, polls>>
  BY <1>2, ReadIntoType DEF StatusTypeOK, ReadStatusReg, Failed
<1>3. QED
  BY <1>1, <1>2 DEF ReadStatusReg

LEMMA DeviceUnchanged == DeviceTypeOK /\ UNCHANGED devVars => DeviceTypeOK'
BY DEF DeviceTypeOK, devVars

LEMMA ReturnType ==
  ASSUME TypeOK, NEW v \in {"true", "false"}, Return(v), DeviceTypeOK'
  PROVE  TypeOK'
<1>1. StatusTypeOK' /\ pc' = "idle"
  BY GotoType DEF Return
<1>2. QED
  BY <1>1, HostAssumption DEF Return, TypeOK, Pcs, NoCall

\* The stream of the call in progress
LEMMA StreamLenType ==
  ASSUME NEW o \in Ops, NEW b \in Blobs
  PROVE  StreamLen(o, b) \in Nat /\ StreamLen(o, b) > HeaderLen
<1>1. Size[b] \in Nat \ {0} /\ HeaderLen \in Nat /\ BlockLen \in Nat \ {0}
  BY DeviceAssumption
<1>2. Size[b] % BlockLen \in 0..BlockLen-1
  BY <1>1
<1>3. PaddingLen(Size[b]) \in Nat
  BY <1>1, <1>2 DEF PaddingLen
<1>4. QED
  BY <1>1, <1>3 DEF StreamLen

LEMMA CallType ==
  ASSUME TypeOK, CallInv, call.transfer
  PROVE  /\ call.op \in Ops /\ call.blob \in Blobs
         /\ Size[call.blob] \in Nat \ {0}
         /\ StreamSize \in Nat /\ StreamSize > HeaderLen
         /\ \A n \in Nat : PayloadBytes(n) \in Nat
<1>1. call.op \in Ops /\ call.blob \in Blobs
  BY DEF CallInv
<1>2. Size[call.blob] \in Nat \ {0} /\ HeaderLen \in Nat
  BY <1>1, DeviceAssumption
<1>3. QED
  BY <1>1, <1>2, StreamLenType DEF StreamSize, PayloadBytes, Lesser

LEMMA ChunkType ==
  ASSUME TypeOK, CallInv, pc \in {"write", "drain"}
  PROVE  /\ Chunk \in Nat \ {0}
         /\ sent + Chunk <= StreamSize
         /\ WireLen \in Nat \ {0}
<1>1. call.transfer /\ sent < StreamSize
  BY DEF CallInv
<1>2. StreamSize \in Nat /\ sent \in Nat /\ maxWrite \in Nat \ {0}
  BY <1>1, CallType DEF TypeOK
<1>3. Chunk \in Nat \ {0} /\ sent + Chunk <= StreamSize
  BY <1>1, <1>2 DEF Chunk, Lesser
<1>4. QED
  BY <1>3, HostAssumption DEF WireLen

LEMMA HostStepType == TypeOK /\ CallInv /\ DeviceInv /\ HostStep => TypeOK'
<1> SUFFICES ASSUME TypeOK, CallInv, DeviceInv, HostStep PROVE TypeOK'
  OBVIOUS
<1> USE DEF Pcs, PollPcs, DataPcs
<1>a. DeviceTypeOK /\ StatusTypeOK
  BY DEF TypeOK
<1>b. UNCHANGED devVars => DeviceTypeOK'
  BY <1>a, DeviceUnchanged
<1>c. ASSUME NEW v \in {"true", "false"}, Return(v), DeviceTypeOK' PROVE TypeOK'
  BY <1>c, ReturnType
<1>d. ASSUME NEW p \in Pcs, Goto(p), Stay, DeviceTypeOK' PROVE TypeOK'
  BY <1>d, GotoType DEF TypeOK, Stay, callVars
<1>e. ASSUME PollAgain, Stay, DeviceTypeOK' PROVE TypeOK'
  BY <1>a, <1>e, PollAgainType DEF TypeOK, Stay, callVars
<1>1. CASE GetStatus
  BY <1>1, <1>a, <1>b, ReadStatusType DEF GetStatus, TypeOK, CallInv, callVars, ReadStatusReg
<1>2. CASE WaitBoot
  BY <1>2, <1>b, <1>c, <1>d, <1>e DEF WaitBoot
<1>3. CASE CheckInitial
  BY <1>3, <1>b, <1>c, <1>d, <1>e DEF CheckInitial
<1>4. CASE WaitSettled
  BY <1>4, <1>b, <1>c, <1>d, <1>e DEF WaitSettled
<1>5. CASE RequestAbort
  <2>1. DeviceTypeOK'
    BY <1>5, <1>a, <1>b, BusType DEF RequestAbort
  <2>2. QED
    BY <1>5, <2>1, <1>c, <1>d DEF RequestAbort
<1>6. CASE WaitIdle
  BY <1>6, <1>b, <1>c, <1>d, <1>e DEF WaitIdle
<1>7. CASE RequestImport
  <2>1. call.op \in Ops \cup {ABORT}
    BY DEF TypeOK
  <2>2. DeviceTypeOK'
    BY <1>7, <2>1, <1>a, <1>b, BusType DEF RequestImport
  <2>3. QED
    BY <1>7, <2>2, <1>c, <1>d DEF RequestImport
<1>8. CASE WaitHeader
  BY <1>8, <1>b, <1>c, <1>d, <1>e DEF WaitHeader
<1>9. CASE ReadMaxWrite
  <2>1. maxWrite' \in Nat \ {0}
    BY <1>9, DeviceAssumption, HostAssumption DEF ReadMaxWrite, Lesser
  <2>2. QED
    BY <1>9, <2>1, <1>b, GotoType DEF ReadMaxWrite, TypeOK, callVars
<1>10. CASE WriteChunk
  <2>1. call.blob \in Blobs /\ sent \in Nat /\ WireLen \in Nat
    BY <1>10, ChunkType, CallType DEF WriteChunk, CallInv, TypeOK
  <2>2. sent + WireLen \in Nat
    BY <2>1
  <2>3. DeviceTypeOK'
    BY <1>10, <2>1, <2>2, <1>a, <1>b, BusType DEF WriteChunk
  <2>4. QED
    BY <1>10, <2>3, <1>d DEF WriteChunk
<1>11. CASE WaitDrained
  <2>1. CASE Advance
    <3>1. sent' \in Nat
      BY <1>11, <2>1, ChunkType DEF Advance, WaitDrained, TypeOK
    <3>2. pc' \in Pcs /\ StatusTypeOK'
      BY <2>1, GotoType DEF Advance, NextChunk
    <3>3. QED
      BY <1>11, <1>b, <2>1, <3>1, <3>2 DEF WaitDrained, Advance, TypeOK, callVars
  <2>2. QED
    BY <1>11, <2>1, <1>b, <1>c, <1>d, <1>e DEF WaitDrained
<1>12. CASE WaitArmed
  BY <1>12, <1>b, <1>d, <1>e DEF WaitArmed, NextChunk
<1>13. CASE WaitProgress
  BY <1>13, <1>b, <1>c, <1>d, <1>e DEF WaitProgress, NextChunk
<1>14. CASE WaitFinal
  BY <1>14, <1>b, <1>c, <1>d, <1>e DEF WaitFinal
<1>15. CASE GiveUp
  <2>1. DeviceTypeOK'
    BY <1>15, <1>a, <1>b, BusType DEF GiveUp
  <2>2. QED
    BY <1>15, <2>1, <1>c DEF GiveUp
<1>16. QED
  BY <1>1, <1>2, <1>3, <1>4, <1>5, <1>6, <1>7, <1>8, <1>9, <1>10, <1>11, <1>12,
     <1>13, <1>14, <1>15 DEF HostStep

LEMMA CallStepType ==
  ASSUME TypeOK, CallInv, CallAbort \/ \E o \in Ops, b \in Blobs : CallTransfer(o, b)
  PROVE  TypeOK'
<1>1. CASE CallAbort
  <2>1. DeviceTypeOK'
    BY <1>1, DeviceUnchanged DEF CallAbort, TypeOK
  <2>2. QED
    BY <1>1, <2>1, GotoType, HostAssumption DEF CallAbort, TypeOK, Pcs
<1>2. ASSUME NEW o \in Ops, NEW b \in Blobs, CallTransfer(o, b) PROVE TypeOK'
  <2>1. DeviceTypeOK'
    BY <1>2 DEF CallTransfer, TypeOK, DeviceTypeOK
  <2>2. calls' \in 0..MaxCalls
    BY <1>2, HostAssumption DEF CallTransfer, TypeOK
  <2>3. call' \in [transfer : BOOLEAN, op : Ops \cup {ABORT}, blob : Blobs \cup {NoBlob}]
    BY <1>2 DEF CallTransfer
  <2>4. offered' \subseteq Ops \X Blobs
    BY <1>2 DEF CallTransfer, TypeOK
  <2>5. QED
    BY <1>2, <2>1, <2>2, <2>3, <2>4, GotoType DEF CallTransfer, TypeOK, Pcs
<1>3. QED
  BY <1>1, <1>2

LEMMA HostUnchangedType ==
  ASSUME TypeOK, DeviceTypeOK', UNCHANGED hostVars PROVE TypeOK'
BY DEF TypeOK, StatusTypeOK, hostVars, pollVars, callVars

LEMMA StepType == TypeOK /\ CallInv /\ DeviceInv /\ [Next]_vars => TypeOK'
<1> SUFFICES ASSUME TypeOK, CallInv, DeviceInv, [Next]_vars PROVE TypeOK'
  OBVIOUS
<1>1. CASE DevNext /\ UNCHANGED hostVars
  BY <1>1, DeviceStepType, HostUnchangedType DEF TypeOK
<1>2. CASE UNCHANGED vars
  BY <1>2, DeviceUnchanged, HostUnchangedType DEF vars, TypeOK
<1>3. QED
  BY <1>1, <1>2, HostStepType, CallStepType DEF Next

-----------------------------------------------------------------------------
\* The call

LEMMA StepCall == TypeOK /\ CallInv /\ [Next]_vars => CallInv'
<1> SUFFICES ASSUME TypeOK, CallInv, [Next]_vars PROVE CallInv'
  OBVIOUS
<1> USE DEF PollPcs, DataPcs
<1>a. ASSUME NEW v, Return(v) PROVE CallInv'
  BY <1>a, GotoType, PollAssumption DEF CallInv, Return, NoCall
<1>b. ASSUME NEW p, Goto(p), Stay, call.transfer,
             p \notin DataPcs \cup {"giveUp"} => sent = 0,
             p \in {"write", "drain"} => sent < StreamSize,
             p \in DataPcs => sent <= StreamSize, p # "idle"
      PROVE  CallInv'
  BY <1>b, GotoType, PollAssumption DEF CallInv, Stay, callVars, StreamSize
<1>c. ASSUME PollAgain, Stay PROVE CallInv'
  BY <1>c, PollAgainType, PollAssumption DEF CallInv, Stay, callVars, StreamSize, TypeOK
<1>1. ASSUME NEW o \in Ops, NEW b \in Blobs, CallTransfer(o, b) PROVE CallInv'
  BY <1>1, GotoType, PollAssumption DEF CallTransfer, CallInv
<1>2. CASE CallAbort
  BY <1>2, GotoType, PollAssumption DEF CallAbort, CallInv
<1>3. CASE GetStatus
  BY <1>3, ReadStatusType DEF GetStatus, ReadStatusReg, CallInv, callVars, StreamSize, TypeOK
<1>4. CASE WaitBoot
  BY <1>4, <1>a, <1>b, <1>c DEF WaitBoot, CallInv
<1>5. CASE CheckInitial
  BY <1>5, <1>a, <1>b DEF CheckInitial, CallInv
<1>6. CASE WaitSettled
  BY <1>6, <1>b, <1>c DEF WaitSettled, CallInv
<1>7. CASE RequestAbort
  <2>1. CASE Goto("abortWait") /\ Stay
    BY <1>7, <2>1, GotoType, PollAssumption DEF RequestAbort, CallInv, Stay, callVars
  <2>2. QED
    BY <1>7, <2>1, <1>a DEF RequestAbort
<1>8. CASE WaitIdle
  BY <1>8, <1>a, <1>b, <1>c DEF WaitIdle, CallInv
<1>9. CASE RequestImport
  BY <1>9, <1>a, <1>b DEF RequestImport, CallInv
<1>10. CASE WaitHeader
  BY <1>10, <1>a, <1>b, <1>c DEF WaitHeader, CallInv
<1>11. CASE ReadMaxWrite
  <2>1. call.transfer /\ sent = 0 /\ StreamSize \in Nat /\ StreamSize > 0
    BY <1>11, CallType, DeviceAssumption DEF ReadMaxWrite, CallInv
  <2>2. QED
    BY <1>11, <2>1, GotoType, PollAssumption DEF ReadMaxWrite, CallInv, callVars, StreamSize
<1>12. CASE WriteChunk
  <2>1. call.transfer /\ sent < StreamSize
    BY <1>12 DEF WriteChunk, CallInv
  <2>2. QED
    BY <1>12, <2>1, <1>b DEF WriteChunk, CallInv
<1>13. CASE WaitDrained
  <2>1. call.transfer /\ sent < StreamSize
    BY <1>13 DEF WaitDrained, CallInv
  <2>2. CASE Advance
    <3>1. /\ sent' = sent + Chunk /\ sent' \in Nat /\ sent' <= StreamSize
          /\ StreamSize \in Nat /\ StreamSize' = StreamSize
      BY <1>13, <2>1, <2>2, ChunkType, CallType DEF WaitDrained, Advance, StreamSize, callVars, TypeOK
    <3>2. /\ pc' \in {"progress", "arm", "write", "final"}
          /\ pc' = "write" => sent' < StreamSize
          /\ rd' = 1 /\ tries' = 0
      BY <2>2, <3>1, GotoType DEF Advance, NextChunk
    <3>3. QED
      BY <2>1, <2>2, <3>1, <3>2, PollAssumption DEF Advance, CallInv, callVars
  <2>3. QED
    BY <1>13, <2>1, <2>2, <1>a, <1>b, <1>c DEF WaitDrained, CallInv
<1>14. CASE WaitArmed
  BY <1>14, <1>b, <1>c DEF WaitArmed, NextChunk, CallInv
<1>15. CASE WaitProgress
  BY <1>15, <1>a, <1>b, <1>c DEF WaitProgress, NextChunk, CallInv
<1>16. CASE WaitFinal
  BY <1>16, <1>a, <1>b, <1>c DEF WaitFinal, CallInv
<1>17. CASE GiveUp
  BY <1>17, <1>a DEF GiveUp
<1>18. CASE UNCHANGED hostVars
  BY <1>18 DEF CallInv, hostVars, pollVars, callVars, StreamSize
<1>19. QED
  BY <1>1, <1>2, <1>3, <1>4, <1>5, <1>6, <1>7, <1>8, <1>9, <1>10, <1>11, <1>12, <1>13,
     <1>14, <1>15, <1>16, <1>17, <1>18 DEF Next, HostStep, vars

-----------------------------------------------------------------------------
\* The module's registers

LEMMA DeviceStepInv == DeviceTypeOK /\ DeviceInv /\ DevNext => DeviceInv'
<1> SUFFICES ASSUME DeviceTypeOK, DeviceInv, DevNext PROVE DeviceInv'
  OBVIOUS
<1> USE DeviceAssumption
<1> USE DEF DeviceInv, ImportOpen, Accepted, EmptyFifo, NoSession, ClearedReg, Stop
<1>1. CASE TakeAbort
  BY <1>1 DEF TakeAbort
<1>2. CASE TakeOp
  BY <1>2 DEF TakeOp, DeviceTypeOK, Sessions
<1>3. CASE RefuseOp
  BY <1>3 DEF RefuseOp, DeviceTypeOK, FlashRegs
<1>4. ASSUME NEW n \in 1..FifoCap, Drain(n) PROVE DeviceInv'
  <2>1. n \in Nat \ {0} /\ n <= fifo.hi - fifo.lo /\ fifo.lo \in Nat /\ fifo.hi \in Nat
    BY <1>4 DEF Drain, DeviceTypeOK, Fifos
  <2>2. fifo.blob \in Blobs
    BY <2>1
  <2>3. /\ fifo'.lo <= fifo'.hi
        /\ fifo'.hi - fifo'.lo > 0 => fifo'.blob \in Blobs
    BY <1>4, <2>1, <2>2 DEF Drain, DeviceTypeOK, Fifos
  <2>4. sess'.rx = sess.rx + n /\ sess'.op = sess.op /\ sess'.blob \in Blobs /\ sess.rx \in Nat
    BY <1>4, <2>1, <2>2 DEF Drain, DeviceTypeOK, Sessions
  <2>5. QED
    BY <1>4, <2>1, <2>3, <2>4 DEF Drain
<1>5. CASE ParseHeader
  BY <1>5 DEF ParseHeader, DeviceTypeOK, FlashRegs
<1>6. ASSUME NEW n \in 1..reg.total, CountBytes(n) PROVE DeviceInv'
  BY <1>6 DEF CountBytes, DeviceTypeOK, FlashRegs
<1>7. CASE BeginParsing
  BY <1>7 DEF BeginParsing, DeviceTypeOK, FlashRegs
<1>8. CASE Commit
  BY <1>8 DEF Commit, DeviceTypeOK, FlashRegs
<1>9. CASE Fail
  BY <1>9 DEF Fail, DeviceTypeOK, FlashRegs
<1>10. CASE Restart
  BY <1>10 DEF Restart
<1>11. CASE Booted
  BY <1>11 DEF Booted
<1>12. QED
  BY <1>1, <1>2, <1>3, <1>4, <1>5, <1>6, <1>7, <1>8, <1>9, <1>10, <1>11 DEF DevNext

LEMMA BusDevice ==
  ASSUME DeviceTypeOK, DeviceInv
  PROVE  /\ \A o : RequestOp(o) => DeviceInv'
         /\ \A b \in Blobs, lo, hi \in Nat, clean \in BOOLEAN :
              lo <= hi /\ AcceptBytes(b, lo, hi, clean) => DeviceInv'
<1>1. ASSUME NEW o, RequestOp(o) PROVE DeviceInv'
  BY <1>1 DEF DeviceTypeOK, DeviceInv, RequestOp, ImportOpen, Accepted
<1>2. ASSUME NEW b \in Blobs, NEW lo \in Nat, NEW hi \in Nat, NEW clean \in BOOLEAN,
             lo <= hi, AcceptBytes(b, lo, hi, clean)
      PROVE  DeviceInv'
  <2>1. CASE reg.status \in {"WAIT_HEADER", "RECEIVING"}
    <3>1. /\ fifo'.lo <= fifo'.hi
          /\ fifo'.hi - fifo'.lo > 0 => fifo'.blob \in Blobs
      BY <1>2, <2>1, DeviceAssumption DEF AcceptBytes, DeviceInv, DeviceTypeOK, Fifos, Lesser, Accepted
    <3>2. sess'.op = sess.op /\ sess'.blob = sess.blob /\ sess'.rx = sess.rx
      BY <1>2, <2>1 DEF AcceptBytes, DeviceTypeOK, Sessions
    <3>3. QED
      BY <1>2, <2>1, <3>1, <3>2 DEF AcceptBytes, DeviceInv, ImportOpen, Accepted
  <2>2. CASE reg.status \notin {"WAIT_HEADER", "RECEIVING"}
    BY <1>2, <2>2 DEF AcceptBytes, DeviceInv, ImportOpen, Accepted
  <2>3. QED
    BY <2>1, <2>2
<1>3. QED
  BY <1>1, <1>2

LEMMA DeviceInvUnchanged == DeviceInv /\ UNCHANGED devVars => DeviceInv'
BY DEF DeviceInv, devVars, ImportOpen, Accepted

LEMMA StepDevice == TypeOK /\ CallInv /\ DeviceInv /\ [Next]_vars => DeviceInv'
<1> SUFFICES ASSUME TypeOK, CallInv, DeviceInv, [Next]_vars PROVE DeviceInv'
  OBVIOUS
<1>a. DeviceTypeOK
  BY DEF TypeOK
<1>1. CASE RequestAbort \/ RequestImport \/ GiveUp
  BY <1>1, <1>a, BusDevice, DeviceInvUnchanged DEF RequestAbort, RequestImport, GiveUp
<1>2. CASE WriteChunk
  <2>1. call.blob \in Blobs /\ sent \in Nat /\ WireLen \in Nat
    BY <1>2, ChunkType, CallType DEF WriteChunk, CallInv, TypeOK
  <2>2. sent + WireLen \in Nat /\ sent <= sent + WireLen
    BY <2>1
  <2>3. QED
    BY <1>2, <1>a, <2>1, <2>2, BusDevice, DeviceInvUnchanged DEF WriteChunk
<1>3. CASE \E o \in Ops, b \in Blobs : CallTransfer(o, b)
  BY <1>3 DEF CallTransfer, DeviceInv, ImportOpen, Accepted
<1>4. CASE UNCHANGED devVars
  BY <1>4, DeviceInvUnchanged
<1>5. CASE DevNext
  BY <1>a, <1>5, DeviceStepInv
<1>6. QED
  BY <1>1, <1>2, <1>3, <1>4, <1>5
  DEF Next, HostStep, vars, CallAbort, GetStatus, WaitBoot, CheckInitial, WaitSettled,
      WaitIdle, WaitHeader, ReadMaxWrite, WaitDrained, WaitArmed, WaitProgress, WaitFinal

Base == TypeOK /\ CallInv /\ DeviceInv

LEMMA InitBase == Init => Base
<1> SUFFICES ASSUME Init PROVE Base
  OBVIOUS
<1>1. DeviceTypeOK
  <2>1. store \in [Ops -> Blobs \cup {NoBlob}] /\ resets \in 0..MaxResets
    BY DeviceAssumption DEF Init, DevInit
  <2>2. QED
    BY <2>1, NoneReg, NoSessionType DEF Init, DevInit, DeviceTypeOK
<1>2. StatusTypeOK
  BY NoneReg, PollAssumption DEF Init, StatusInit, StatusTypeOK, Failed
<1>3. TypeOK
  BY <1>1, <1>2, HostAssumption DEF Init, StatusInit, TypeOK, Pcs, NoCall
<1>4. CallInv
  BY PollAssumption DEF Init, StatusInit, CallInv, NoCall, PollPcs, DataPcs
<1>5. DeviceInv
  BY DEF Init, DevInit, DeviceInv, ImportOpen, Accepted, ClearedReg, NoSession, EmptyFifo
<1>6. QED
  BY <1>3, <1>4, <1>5 DEF Base

LEMMA StepBase == Base /\ [Next]_vars => Base'
BY StepType, StepCall, StepDevice DEF Base

\* The variables keep their types: in particular no loop of the SDK polls or
\* retries beyond its bound.
THEOREM TypeCorrect == Spec => []TypeOK
<1>1. Spec => []Base
  BY InitBase, StepBase, PTL DEF Spec
<1>2. Base => TypeOK
  BY DEF Base
<1>3. QED
  BY <1>1, <1>2, PTL

-----------------------------------------------------------------------------
\* Only offered blobs

\* Where the SDK is when a step of a call changes the module or the call.
LEMMA HostFrame ==
  ASSUME HostStep
  PROVE  /\ UNCHANGED offered
         /\ \/ UNCHANGED devVars
            \/ WriteChunk
            \/ (\E o : RequestOp(o)) /\ pc \in {"abort", "request", "giveUp"}
<1>1. UNCHANGED offered
  BY DEF HostStep, GetStatus, WaitBoot, CheckInitial, WaitSettled, RequestAbort, WaitIdle,
         RequestImport, WaitHeader, ReadMaxWrite, WriteChunk, WaitDrained, WaitArmed,
         WaitProgress, WaitFinal, GiveUp, Return, Stay, callVars, Advance
<1>2. CASE RequestAbort \/ RequestImport \/ GiveUp
  BY <1>1, <1>2 DEF RequestAbort, RequestImport, GiveUp
<1>3. CASE WriteChunk
  BY <1>1, <1>3
<1>4. CASE GetStatus \/ WaitBoot \/ CheckInitial \/ WaitSettled \/ WaitIdle \/ WaitHeader
  BY <1>1, <1>4 DEF GetStatus, WaitBoot, CheckInitial, WaitSettled, WaitIdle, WaitHeader
<1>5. CASE ReadMaxWrite \/ WaitDrained \/ WaitArmed \/ WaitProgress \/ WaitFinal
  BY <1>1, <1>5 DEF ReadMaxWrite, WaitDrained, WaitArmed, WaitProgress, WaitFinal
<1>6. QED
  BY <1>1, <1>2, <1>3, <1>4, <1>5 DEF HostStep

LEMMA DeviceStepOffered == DeviceTypeOK /\ DeviceInv /\ OfferedInv /\ DevNext
                             /\ UNCHANGED offered => OfferedInv'
<1> SUFFICES ASSUME DeviceTypeOK, DeviceInv, OfferedInv, DevNext, UNCHANGED offered
             PROVE  OfferedInv'
  OBVIOUS
<1> USE DeviceAssumption
<1> USE DEF OfferedInv, NoMisroute, Accepted
<1>1. CASE TakeAbort
  BY <1>1 DEF TakeAbort, NoSession, EmptyFifo
<1>2. CASE TakeOp
  BY <1>2 DEF TakeOp, NoSession, EmptyFifo
<1>3. CASE RefuseOp
  BY <1>3 DEF RefuseOp, Stop, NoSession, EmptyFifo
<1>4. ASSUME NEW n \in 1..FifoCap, Drain(n) PROVE OfferedInv'
  <2>1. n \in Nat \ {0} /\ n <= fifo.hi - fifo.lo /\ fifo.lo \in Nat /\ fifo.hi \in Nat
    BY <1>4 DEF Drain, DeviceTypeOK, Fifos
  <2>2. <<sess.op, fifo.blob>> \in offered
    BY <2>1
  <2>3. fifo'.hi - fifo'.lo > 0 => fifo'.blob = fifo.blob
    BY <1>4, <2>1 DEF Drain, EmptyFifo, DeviceTypeOK, Fifos
  <2>4. sess'.op = sess.op /\ sess'.blob = IF sess.rx = 0 THEN fifo.blob ELSE sess.blob
    BY <1>4 DEF Drain, DeviceTypeOK, Sessions
  <2>5. sess.rx \in Nat
    BY DEF DeviceTypeOK, Sessions
  <2>6. QED
    BY <1>4, <2>1, <2>2, <2>3, <2>4, <2>5 DEF Drain
<1>5. CASE ParseHeader
  BY <1>5 DEF ParseHeader
<1>6. ASSUME NEW n \in 1..reg.total, CountBytes(n) PROVE OfferedInv'
  BY <1>6 DEF CountBytes
<1>7. CASE BeginParsing
  BY <1>7 DEF BeginParsing
<1>8. CASE Commit
  <2>1. sess.rx > 0 /\ sess.op \in Ops
    BY <1>8 DEF Commit, DeviceInv, ImportOpen, DeviceTypeOK, Sessions
  <2>2. store'[sess.op] = sess.blob /\ \A o \in Ops \ {sess.op} : store'[o] = store[o]
    BY <1>8, <2>1 DEF Commit, DeviceTypeOK
  <2>3. QED
    BY <1>8, <2>1, <2>2 DEF Commit, Stop, NoSession, EmptyFifo
<1>9. CASE Fail
  BY <1>9 DEF Fail, Stop, NoSession, EmptyFifo
<1>10. CASE Restart
  BY <1>10 DEF Restart, NoSession, EmptyFifo
<1>11. CASE Booted
  BY <1>11 DEF Booted
<1>12. QED
  BY <1>1, <1>2, <1>3, <1>4, <1>5, <1>6, <1>7, <1>8, <1>9, <1>10, <1>11 DEF DevNext

LEMMA StepOffered == IInv /\ [Next]_vars => OfferedInv'
<1> SUFFICES ASSUME IInv, [Next]_vars PROVE OfferedInv'
  OBVIOUS
<1>a. TypeOK /\ DeviceTypeOK /\ CallInv /\ DeviceInv /\ OfferedInv /\ OwnInv
  BY DEF IInv, TypeOK
<1>1. ASSUME NEW o \in Ops, NEW b \in Blobs, CallTransfer(o, b) PROVE OfferedInv'
  BY <1>1, <1>a DEF CallTransfer, OfferedInv, NoMisroute, Accepted
<1>2. CASE WriteChunk /\ ~ UNCHANGED devVars
  <2>1. PICK clean \in BOOLEAN : AcceptBytes(call.blob, sent, sent + WireLen, clean)
    BY <1>2 DEF WriteChunk
  <2>2. <<call.op, call.blob>> \in offered /\ (ImportOpen => sess.op = call.op) /\ UNCHANGED offered
    BY <1>2, <1>a DEF WriteChunk, CallInv, OwnInv, ClaimedPcs, DataPcs, Stay, callVars
  <2>3. sess'.op = sess.op /\ sess'.rx = sess.rx /\ sess'.blob = sess.blob
    BY <2>1, <1>a DEF AcceptBytes, DeviceTypeOK, Sessions
  <2>4. UNCHANGED <<store, imported>>
    BY <2>1 DEF AcceptBytes
  <2>5. CASE reg.status \in {"WAIT_HEADER", "RECEIVING"}
    <3>1. sess.op = call.op /\ (fifo'.blob = call.blob \/ fifo' = fifo)
      BY <2>1, <2>2, <2>5 DEF AcceptBytes, ImportOpen
    <3>2. QED
      BY <1>a, <2>2, <2>3, <2>4, <3>1 DEF OfferedInv, NoMisroute, Accepted
  <2>6. CASE reg.status \notin {"WAIT_HEADER", "RECEIVING"}
    BY <1>a, <2>1, <2>2, <2>3, <2>4, <2>6 DEF AcceptBytes, OfferedInv, NoMisroute, Accepted
  <2>7. QED
    BY <2>5, <2>6
<1>3. CASE UNCHANGED offered /\ (UNCHANGED devVars \/ \E o : RequestOp(o))
  BY <1>3, <1>a DEF devVars, RequestOp, OfferedInv, NoMisroute, Accepted
<1>4. CASE DevNext /\ UNCHANGED hostVars
  BY <1>a, <1>4, DeviceStepOffered DEF hostVars, callVars
<1>5. QED
  BY <1>1, <1>2, <1>3, <1>4, HostFrame DEF Next, CallAbort, vars, hostVars, callVars

-----------------------------------------------------------------------------
\* The import of the call in progress

LEMMA StepOwn == PromptOp /\ IInv /\ [Next]_vars => OwnInv'
<1> SUFFICES ASSUME PromptOp, IInv, [Next]_vars PROVE OwnInv'
  OBVIOUS
<1>a. /\ TypeOK /\ DeviceTypeOK /\ StatusTypeOK
      /\ CallInv /\ DeviceInv /\ OwnInv /\ ReadInv
  BY DEF IInv, TypeOK
<1>b. sess.rx \in Nat /\ fifo.lo \in Nat /\ fifo.hi \in Nat
  BY <1>a DEF DeviceTypeOK, Sessions, Fifos
<1> USE DEF ClaimedPcs, DataPcs, ImportOpen, Accepted
<1>c. ASSUME NEW v, Return(v) PROVE OwnInv'
  BY <1>c, GotoType DEF OwnInv, Return
<1>d. ASSUME PollAgain, Stay, UNCHANGED devVars PROVE OwnInv'
  BY <1>a, <1>d, PollAgainType DEF OwnInv, Stay, devVars, callVars
<1>e. ASSUME NEW p, Goto(p), Stay, UNCHANGED devVars,
             \/ pc \in ClaimedPcs /\ p \in DataPcs \cup {"giveUp"}
             \/ pc \in {"boot", "initial", "settle"} /\ p \in {"initial", "settle", "abort"}
             \/ pc \in {"initial", "settle", "abortWait"} /\ p = "request" /\ ~ImportOpen
             \/ pc = "waitHeader" /\ p = "maxWrite" /\ ~opPend
      PROVE  OwnInv'
  BY <1>a, <1>e, GotoType DEF OwnInv, Stay, devVars, callVars
<1>1. ASSUME NEW o \in Ops, NEW b \in Blobs, CallTransfer(o, b) PROVE OwnInv'
  BY <1>1, GotoType DEF CallTransfer, OwnInv
<1>2. CASE CallAbort
  BY <1>2, GotoType DEF CallAbort, OwnInv
<1>3. CASE GetStatus
  BY <1>3, <1>a DEF GetStatus, ReadStatusReg, OwnInv, devVars, callVars
<1>4. CASE WaitBoot
  BY <1>4, <1>c, <1>d, <1>e DEF WaitBoot
<1>5. CASE CheckInitial
  BY <1>5, <1>a, <1>c, <1>e DEF CheckInitial, HaveStatus, ReadInv, Have
<1>6. CASE WaitSettled
  BY <1>6, <1>a, <1>d, <1>e DEF WaitSettled, HaveStatus, ReadInv, Have
<1>7. CASE RequestAbort
  <2>1. CASE RequestOp(ABORT) /\ Goto("abortWait")
    BY <2>1, GotoType DEF RequestOp, OwnInv
  <2>2. QED
    BY <1>7, <1>c, <2>1 DEF RequestAbort
<1>8. CASE WaitIdle
  BY <1>8, <1>a, <1>c, <1>d, <1>e DEF WaitIdle, PayloadIdle, HaveStatus, ReadInv, Have
<1>9. CASE RequestImport
  <2>1. CASE RequestOp(call.op) /\ Goto("waitHeader") /\ Stay
    BY <1>9, <1>a, <2>1, GotoType DEF RequestImport, RequestOp, OwnInv, DeviceInv, Stay, callVars
  <2>2. QED
    BY <1>9, <1>c, <2>1 DEF RequestImport
<1>10. CASE WaitHeader
  BY <1>10, <1>a, <1>c, <1>d, <1>e DEF WaitHeader, ReceiverReady, HaveStatus, ReadInv, Have
<1>11. CASE ReadMaxWrite
  BY <1>11, <1>a, GotoType DEF ReadMaxWrite, OwnInv, devVars, callVars
<1>12. CASE WriteChunk
  <2>1. CASE UNCHANGED devVars
    BY <1>12, <1>e, <2>1 DEF WriteChunk
  <2>2. ASSUME NEW clean \in BOOLEAN, AcceptBytes(call.blob, sent, sent + WireLen, clean)
        PROVE  OwnInv'
    <3>1. sess'.op = sess.op
      BY <2>2, <1>a DEF AcceptBytes, DeviceTypeOK, Sessions
    <3>2. QED
      BY <1>12, <1>a, <2>2, <3>1, GotoType DEF WriteChunk, AcceptBytes, OwnInv, Stay, callVars
  <2>3. QED
    BY <1>12, <2>1, <2>2 DEF WriteChunk
<1>13. CASE WaitDrained
  <2>1. CASE Advance
    BY <1>13, <1>a, <2>1, GotoType DEF WaitDrained, Advance, NextChunk, OwnInv, devVars, callVars
  <2>2. QED
    BY <1>13, <2>1, <1>c, <1>d, <1>e DEF WaitDrained
<1>14. CASE WaitArmed
  BY <1>14, <1>d, <1>e DEF WaitArmed, NextChunk
<1>15. CASE WaitProgress
  BY <1>15, <1>c, <1>d, <1>e DEF WaitProgress, NextChunk
<1>16. CASE WaitFinal
  BY <1>16, <1>c, <1>d, <1>e DEF WaitFinal
<1>17. CASE GiveUp
  BY <1>17, <1>c DEF GiveUp
<1>18. CASE DevNext /\ UNCHANGED hostVars
  <2>1. UNCHANGED <<pc, call>>
    BY <1>18 DEF hostVars, pollVars, callVars
  <2>a. ASSUME NEW st \in {"SUCCESS", "FAILED"}, NEW r, Stop(st, r)
        PROVE  /\ reg'.status = st /\ sess' = NoSession
               /\ fifo' = EmptyFifo
    BY <2>a, <1>a DEF Stop, DeviceTypeOK, FlashRegs
  <2>2. CASE TakeAbort \/ TakeOp \/ RefuseOp
    <3>1. CASE TakeAbort
      BY <1>a, <2>1, <3>1, DeviceAssumption
      DEF OwnInv, TakeAbort, CallInv, ClearedReg, NoSession, EmptyFifo
    <3>2. CASE TakeOp
      BY <1>a, <2>1, <3>2 DEF OwnInv, TakeOp, ClearedReg, NoSession, EmptyFifo
    <3>3. CASE RefuseOp
      BY <1>a, <2>1, <2>a, <3>3 DEF OwnInv, RefuseOp
    <3>4. QED
      BY <2>2, <3>1, <3>2, <3>3
  <2>3. ASSUME NEW n \in 1..FifoCap, Drain(n) PROVE OwnInv'
    <3>1. sess'.op = sess.op
      BY <2>3, <1>a DEF Drain, DeviceTypeOK, Sessions
    <3>2. QED
      BY <1>a, <1>b, <2>1, <2>3, <3>1, DeviceAssumption DEF OwnInv, Drain
  <2>4. CASE ParseHeader \/ BeginParsing
    BY <1>a, <1>b, <2>1, <2>4, DeviceAssumption
    DEF OwnInv, ParseHeader, BeginParsing, DeviceTypeOK, FlashRegs
  <2>5. ASSUME NEW n \in 1..reg.total, CountBytes(n) PROVE OwnInv'
    BY <1>a, <2>1, <2>5 DEF OwnInv, CountBytes, DeviceTypeOK, FlashRegs
  <2>6. CASE Commit \/ Fail
    BY <1>a, <2>1, <2>a, <2>6 DEF OwnInv, Commit, Fail
  <2>7. CASE Restart \/ Booted
    BY <1>a, <2>1, <2>7 DEF OwnInv, Restart, Booted, ClearedReg
  <2>8. QED
    BY <1>18, <2>2, <2>3, <2>4, <2>5, <2>6, <2>7 DEF DevNext
<1>19. CASE UNCHANGED vars
  BY <1>a, <1>19 DEF OwnInv, vars, devVars, hostVars, pollVars, callVars
<1>20. QED
  BY <1>1, <1>2, <1>3, <1>4, <1>5, <1>6, <1>7, <1>8, <1>9, <1>10, <1>11, <1>12, <1>13,
     <1>14, <1>15, <1>16, <1>17, <1>18, <1>19 DEF Next, HostStep

-----------------------------------------------------------------------------
\* What the SDK has read

\* A wait that has just begun, or polls again, has read nothing.
LEMMA NothingRead == rd' \in {1, Failed} => ReadInv'
BY DEF ReadInv, Have, Failed

LEMMA GetStatusRead == IInv /\ GetStatus => ReadInv'
<1> SUFFICES ASSUME IInv, GetStatus PROVE ReadInv'
  OBVIOUS
<1>a. /\ TypeOK /\ DeviceTypeOK /\ StatusTypeOK /\ DeviceInv /\ OwnInv /\ ReadInv
  BY DEF IInv, TypeOK
<1>b. rd \in 1..4 /\ UNCHANGED <<devVars, pc>>
  BY DEF GetStatus, ReadStatusReg
<1>1. CASE RetryStatus
  BY <1>1, NothingRead DEF RetryStatus
<1>2. CASE snap' = ReadInto(rd) /\ rd' = rd + 1
  <2> USE DEF ReadInv, Have, devVars, ImportOpen, IsTerminal, DataPcs
  <2>1. CASE rd = 1
    <3>1. snap' = [snap EXCEPT !.status = reg.status] /\ rd' = 2
      BY <1>2, <2>1 DEF ReadInto
    <3>2. snap'.status = reg.status
      BY <3>1, <1>a DEF StatusTypeOK, FlashRegs
    <3>3. QED
      BY <1>a, <1>b, <3>1, <3>2 DEF OwnInv
  <2>2. CASE rd = 2
    <3>1. snap' = [snap EXCEPT !.result = reg.result] /\ rd' = 3
      BY <1>2, <2>2 DEF ReadInto
    <3>2. snap'.status = snap.status /\ snap'.result = reg.result
      BY <3>1, <1>a DEF StatusTypeOK, FlashRegs
    <3>3. QED
      BY <1>a, <1>b, <2>2, <3>1, <3>2 DEF DeviceInv
  <2>3. CASE rd = 3
    <3>1. snap' = [snap EXCEPT !.done = reg.done] /\ rd' = 4
      BY <1>2, <2>3 DEF ReadInto
    <3>2. /\ snap'.status = snap.status /\ snap'.result = snap.result
          /\ snap'.done = reg.done /\ reg.done \in Nat
      BY <3>1, <1>a DEF StatusTypeOK, DeviceTypeOK, FlashRegs
    <3>3. QED
      BY <1>a, <1>b, <2>3, <3>1, <3>2
  <2>4. CASE rd = 4
    <3>1. snap' = [snap EXCEPT !.total = reg.total] /\ rd' = 5
      BY <1>2, <2>4 DEF ReadInto
    <3>2. snap'.status = snap.status /\ snap'.result = snap.result /\ snap'.done = snap.done
      BY <3>1, <1>a DEF StatusTypeOK, FlashRegs
    <3>3. QED
      BY <1>a, <1>b, <2>4, <3>1, <3>2
  <2>5. QED
    BY <1>b, <2>1, <2>2, <2>3, <2>4
<1>3. QED
  BY <1>1, <1>2 DEF GetStatus, ReadStatusReg

LEMMA StepRead == IInv /\ [Next]_vars => ReadInv'
<1> SUFFICES ASSUME IInv, [Next]_vars PROVE ReadInv'
  OBVIOUS
<1>a. /\ TypeOK /\ DeviceTypeOK /\ StatusTypeOK /\ CallInv /\ DeviceInv /\ OwnInv /\ ReadInv
  BY DEF IInv, TypeOK
<1>1. CASE GetStatus
  BY <1>1, GetStatusRead
<1>2. CASE (HostStep /\ ~GetStatus) \/ CallAbort \/ \E o \in Ops, b \in Blobs : CallTransfer(o, b)
  <2>1. rd' = 1
    BY <1>2, GotoType, PollAgainType, <1>a
    DEF HostStep, WaitBoot, CheckInitial, WaitSettled, RequestAbort, WaitIdle, RequestImport,
        WaitHeader, ReadMaxWrite, WriteChunk, WaitDrained, WaitArmed, WaitProgress, WaitFinal,
        GiveUp, Return, Advance, NextChunk, CallAbort, CallTransfer
  <2>2. QED
    BY <2>1, NothingRead
<1>3. CASE DevNext /\ UNCHANGED hostVars
  <2>1. UNCHANGED <<pc, call, snap, rd>>
    BY <1>3 DEF hostVars, pollVars, callVars
  <2> USE DEF ReadInv, ImportOpen, DataPcs, ClaimedPcs, IsTerminal, Have
  <2>a. ASSUME NEW st \in {"SUCCESS", "FAILED"}, NEW r, Stop(st, r)
        PROVE  reg'.status = st
    BY <2>a, <1>a DEF Stop, DeviceTypeOK, FlashRegs
  <2>2. CASE TakeAbort \/ Restart
    BY <1>a, <2>1, <2>2 DEF OwnInv, TakeAbort, Restart, ClearedReg
  <2>3. CASE TakeOp
    BY <1>a, <2>1, <2>3 DEF OwnInv, TakeOp
  <2>4. CASE RefuseOp
    BY <1>a, <2>1, <2>a, <2>4 DEF OwnInv, RefuseOp
  <2>5. CASE Booted \/ \E n \in 1..FifoCap : Drain(n)
    <3>1. UNCHANGED <<reg, opPend>>
      BY <2>5 DEF Booted, Drain
    <3>2. QED
      BY <1>a, <2>1, <3>1
  <2>6. CASE ParseHeader \/ BeginParsing
    <3>1. /\ reg.status \in {"WAIT_HEADER", "RECEIVING"}
          /\ reg'.status \in {"RECEIVING", "PARSING"}
          /\ reg'.done = reg.done
          /\ opPend' = opPend
      BY <2>6, <1>a DEF ParseHeader, BeginParsing, DeviceTypeOK, FlashRegs
    <3>2. QED
      BY <1>a, <2>1, <3>1
  <2>7. ASSUME NEW n \in 1..reg.total, CountBytes(n) PROVE ReadInv'
    <3>1. /\ UNCHANGED opPend /\ reg'.status = reg.status
          /\ snap.done \in Nat /\ reg.done \in Nat /\ reg'.done \in Nat
          /\ reg'.done > reg.done
      BY <2>7, <1>a DEF CountBytes, DeviceTypeOK, StatusTypeOK, FlashRegs
    <3>2. QED
      BY <1>a, <2>1, <3>1
  <2>8. CASE Commit
    BY <1>a, <2>1, <2>a, <2>8 DEF Commit, Have
  <2>9. CASE Fail
    BY <1>a, <2>1, <2>a, <2>9 DEF Fail
  <2>10. QED
    BY <1>3, <2>2, <2>3, <2>4, <2>5, <2>6, <2>7, <2>8, <2>9 DEF DevNext
<1>4. CASE UNCHANGED vars
  BY <1>a, <1>4 DEF ReadInv, vars, devVars, hostVars, pollVars, ImportOpen
<1>5. QED
  BY <1>1, <1>2, <1>3, <1>4 DEF Next

-----------------------------------------------------------------------------
\* What the module has received

LEMMA DeviceStepStream == IInv /\ DevNext /\ UNCHANGED hostVars => StreamInv'
<1> SUFFICES ASSUME IInv, DevNext, UNCHANGED hostVars PROVE StreamInv'
  OBVIOUS
<1>a. /\ DeviceTypeOK /\ CallInv /\ DeviceInv /\ OwnInv /\ StreamInv
  BY DEF IInv, TypeOK
<1>b. UNCHANGED <<pc, call, snap, rd, sent>>
  BY DEF hostVars, pollVars, callVars
<1>d. PayloadBytes(sent)' = PayloadBytes(sent)
  BY <1>b DEF PayloadBytes
<1>e. pc \in ClaimedPcs => PayloadBytes(sent) \in Nat
  BY CallType DEF IInv, TypeOK, CallInv, ClaimedPcs, DataPcs
<1>f. sess.rx \in Nat /\ fifo.lo \in Nat /\ fifo.hi \in Nat /\ reg.done \in Nat
  BY <1>a DEF DeviceTypeOK, Sessions, Fifos, FlashRegs
<1> USE DEF StreamInv, ClaimedPcs, DataPcs, ImportOpen, Accepted
<1>1. CASE TakeAbort \/ TakeOp \/ RefuseOp
  <2>1. opPend /\ UNCHANGED imported
    BY <1>1 DEF TakeAbort, TakeOp, RefuseOp
  <2>2. QED
    BY <1>a, <1>b, <2>1 DEF OwnInv
<1>2. ASSUME NEW n \in 1..FifoCap, Drain(n) PROVE StreamInv'
  <2>1. n \in Nat \ {0} /\ n <= fifo.hi - fifo.lo
    BY <1>2, <1>f, DeviceAssumption DEF Drain
  <2>2. fifo'.hi - fifo'.lo > 0 => fifo'.blob = fifo.blob
    BY <1>2, <2>1, <1>a DEF Drain, EmptyFifo, DeviceTypeOK, Fifos
  <2>3. sess'.blob = IF sess.rx = 0 THEN fifo.blob ELSE sess.blob
    BY <1>2, <1>a DEF Drain, DeviceTypeOK, Sessions
  <2>4. UNCHANGED <<reg, imported>>
    BY <1>2 DEF Drain
  <2>5. QED
    BY <1>a, <1>b, <1>d, <1>e, <1>f, <2>1, <2>2, <2>3, <2>4
<1>3. CASE ParseHeader \/ BeginParsing
  <2>1. /\ reg.status \in {"WAIT_HEADER", "RECEIVING"}
        /\ reg'.status \in {"RECEIVING", "PARSING"}
        /\ reg'.done = reg.done
        /\ UNCHANGED <<sess, fifo, imported>>
    BY <1>3, <1>a DEF ParseHeader, BeginParsing, DeviceTypeOK, FlashRegs
  <2>2. QED
    BY <1>a, <1>b, <1>d, <2>1
<1>4. ASSUME NEW n \in 1..reg.total, CountBytes(n) PROVE StreamInv'
  <2>1. /\ reg'.status = reg.status /\ reg'.done \in Nat /\ reg'.done > reg.done
        /\ UNCHANGED <<sess, fifo, imported>>
    BY <1>4, <1>a DEF CountBytes, DeviceTypeOK, FlashRegs
  <2>2. QED
    BY <1>a, <1>b, <1>d, <1>e, <1>f, <2>1
<1>5. CASE Commit
  <2>1. pc \in ClaimedPcs => sess.op = call.op /\ sess.blob = call.blob
    BY <1>5, <1>a, <1>f, DeviceAssumption DEF Commit, OwnInv, DeviceInv
  <2>2. imported' = imported \cup {<<sess.op, sess.blob>>} /\ sess' = NoSession /\ fifo' = EmptyFifo
    BY <1>5 DEF Commit, Stop
  <2>3. reg'.status = "SUCCESS"
    BY <1>5, <1>a DEF Commit, Stop, DeviceTypeOK, FlashRegs
  <2>4. QED
    BY <1>a, <1>b, <1>d, <2>1, <2>2, <2>3 DEF NoSession, EmptyFifo
<1>6. CASE Fail
  <2>1. reg'.status = "FAILED" /\ sess' = NoSession /\ fifo' = EmptyFifo /\ UNCHANGED imported
    BY <1>6, <1>a DEF Fail, Stop, DeviceTypeOK, FlashRegs
  <2>2. QED
    BY <1>a, <1>b, <1>d, <2>1 DEF NoSession, EmptyFifo
<1>7. CASE Restart
  BY <1>7, <1>a, <1>b, <1>d DEF Restart, ClearedReg, NoSession, EmptyFifo
<1>8. CASE Booted
  BY <1>8, <1>a, <1>b, <1>d DEF Booted
<1>9. QED
  BY <1>1, <1>2, <1>3, <1>4, <1>5, <1>6, <1>7, <1>8 DEF DevNext

LEMMA StepStream == IInv /\ [Next]_vars => StreamInv'
<1> SUFFICES ASSUME IInv, [Next]_vars PROVE StreamInv'
  OBVIOUS
<1>a. /\ TypeOK /\ DeviceTypeOK /\ StatusTypeOK
      /\ CallInv /\ DeviceInv /\ OwnInv /\ ReadInv /\ StreamInv
  BY DEF IInv, TypeOK
<1>b. /\ sess.rx \in Nat /\ fifo.lo \in Nat /\ fifo.hi \in Nat
      /\ reg.done \in Nat /\ snap.done \in Nat /\ sent \in Nat
  BY <1>a DEF TypeOK, DeviceTypeOK, StatusTypeOK, Sessions, Fifos, FlashRegs
<1>c. pc \in ClaimedPcs => PayloadBytes(sent) \in Nat
  BY <1>a, <1>b, CallType DEF CallInv, ClaimedPcs, DataPcs
<1>d. UNCHANGED <<call, sent>> => PayloadBytes(sent)' = PayloadBytes(sent)
  BY DEF PayloadBytes
<1> USE DEF StreamInv, ClaimedPcs, DataPcs, ImportOpen, Accepted
<1>e. ASSUME NEW v, Return(v) PROVE StreamInv'
  BY <1>e, GotoType DEF Return
<1>f. ASSUME PollAgain, Stay, UNCHANGED devVars PROVE StreamInv'
  BY <1>a, <1>d, <1>f, PollAgainType DEF Stay, devVars, callVars
<1>g. ASSUME NEW p \in Pcs \ ClaimedPcs, Goto(p) PROVE StreamInv'
  BY <1>g, GotoType
\* The SDK goes on streaming: what it needs to know of the module by then.
<1>h. ASSUME NEW p \in DataPcs \cup {"giveUp"}, Goto(p), Stay, UNCHANGED devVars,
             pc \in ClaimedPcs,
             p \in DataPcs => Accepted = 0,
             p \in {"write", "drain", "final"} /\ ImportOpen
               => reg.done >= PayloadBytes(sent),
             p = "arm" => PayloadBytes(sent) = 0
      PROVE  StreamInv'
  BY <1>a, <1>d, <1>h, GotoType DEF Stay, devVars, callVars
<1>1. CASE CallAbort \/ \E o \in Ops, b \in Blobs : CallTransfer(o, b)
  BY <1>1, <1>g DEF CallAbort, CallTransfer, Pcs, PollPcs
<1>2. CASE GetStatus
  <2>1. UNCHANGED <<pc, call, sent, reg, sess, fifo, imported>> /\ rd \in 1..4
    BY <1>2 DEF GetStatus, ReadStatusReg, devVars, callVars
  <2>2. rd' \in 2..Have => rd' = rd + 1 /\ snap' = ReadInto(rd)
    BY <1>2 DEF GetStatus, ReadStatusReg, RetryStatus, Have, Failed
  <2>3. ASSUME rd' \in 2..Have
        PROVE  snap'.status = IF rd = 1 THEN reg.status ELSE snap.status
    BY <2>1, <2>2, <2>3, <1>a DEF ReadInto, StatusTypeOK, FlashRegs
  <2>4. QED
    BY <1>a, <1>d, <2>1, <2>2, <2>3 DEF Have
<1>3. CASE WaitBoot \/ CheckInitial \/ WaitSettled
  BY <1>3, <1>e, <1>f, <1>g DEF WaitBoot, CheckInitial, WaitSettled, Pcs, PollPcs
<1>4. CASE RequestAbort \/ WaitIdle \/ RequestImport
  BY <1>4, <1>e, <1>f, <1>g DEF RequestAbort, WaitIdle, RequestImport, Pcs, PollPcs
<1>5. CASE WaitHeader
  <2>1. CASE ReceiverReady /\ Goto("maxWrite") /\ Stay
    <3>1. ~opPend
      BY <1>5, <1>a, <2>1 DEF WaitHeader, ReadInv, ReceiverReady, HaveStatus, Have
    <3>2. reg.status # "SUCCESS" /\ sess.rx = 0 /\ fifo.hi - fifo.lo = 0
      BY <1>5, <1>a, <1>b, <3>1 DEF WaitHeader, OwnInv, DeviceInv, EmptyFifo
    <3>3. QED
      BY <1>5, <2>1, <3>2, GotoType DEF WaitHeader, devVars
  <2>2. QED
    BY <1>5, <1>e, <1>f, <2>1 DEF WaitHeader
<1>6. CASE ReadMaxWrite
  <2>1. sent = 0 /\ UNCHANGED <<sent, call>> /\ UNCHANGED devVars /\ pc = "maxWrite"
    BY <1>6, <1>a DEF ReadMaxWrite, CallInv, callVars
  <2>2. PayloadBytes(sent) = 0
    BY <2>1, DeviceAssumption DEF PayloadBytes
  <2>3. QED
    BY <1>6, <1>a, <1>b, <1>d, <2>1, <2>2, GotoType DEF ReadMaxWrite, devVars
<1>7. CASE WriteChunk
  <2>1. CASE UNCHANGED devVars
    BY <1>7, <1>a, <1>h, <2>1 DEF WriteChunk
  <2>2. ASSUME NEW clean \in BOOLEAN, AcceptBytes(call.blob, sent, sent + WireLen, clean)
        PROVE  StreamInv'
    <3>1. sess'.rx = sess.rx /\ sess'.blob = sess.blob /\ UNCHANGED <<reg, imported>>
          /\ (fifo' = fifo \/ fifo'.blob = call.blob)
      BY <2>2, <1>a DEF AcceptBytes, DeviceTypeOK, Sessions
    <3>2. pc = "write" /\ pc' \in {"drain", "giveUp"} /\ rd' = 1 /\ UNCHANGED <<call, sent>>
      BY <1>7, GotoType DEF WriteChunk, Stay, callVars
    <3>3. QED
      BY <1>a, <1>d, <3>1, <3>2
  <2>3. QED
    BY <1>7, <2>1, <2>2 DEF WriteChunk
<1>8. CASE WaitDrained
  <2>1. CASE Drained /\ Advance
    <3>1. pc = "drain" /\ sent' = sent + Chunk /\ UNCHANGED <<call, devVars>>
      BY <1>8, <2>1 DEF WaitDrained, Advance, callVars
    <3>2. PayloadBytes(sent)' = PayloadBytes(sent + Chunk) /\ PayloadBytes(sent + Chunk) \in Nat
      BY <3>1, <1>a, <1>b, ChunkType, CallType DEF PayloadBytes, CallInv
    <3>3. fifo.hi - fifo.lo = 0
      BY <2>1 DEF Drained
    <3>4. /\ rd' = 1
          /\ \/ pc' = "progress"
             \/ pc' \in {"arm", "write", "final"} /\ PayloadBytes(sent + Chunk) = 0
      BY <2>1, <3>2, GotoType DEF Advance, NextChunk
    <3>5. QED
      BY <1>a, <1>b, <3>1, <3>2, <3>3, <3>4 DEF devVars
  <2>2. QED
    BY <1>8, <2>1, <1>e, <1>f, <1>h DEF WaitDrained
<1>9. CASE WaitArmed
  BY <1>9, <1>a, <1>b, <1>f, <1>h DEF WaitArmed, NextChunk
<1>10. CASE WaitProgress
  <2>1. CASE Reached /\ NextChunk(sent) /\ Stay
    <3>1. ImportOpen => reg.done >= PayloadBytes(sent)
      BY <1>10, <1>a, <1>b, <1>c, <2>1 DEF WaitProgress, Reached, HaveStatus, ReadInv, Have
    <3>2. QED
      BY <1>10, <1>a, <2>1, <3>1, <1>h DEF WaitProgress, NextChunk
  <2>2. QED
    BY <1>10, <2>1, <1>e, <1>f, <1>h DEF WaitProgress
<1>11. CASE WaitFinal
  BY <1>11, <1>e, <1>f, <1>h DEF WaitFinal
<1>12. CASE GiveUp
  BY <1>12, <1>e DEF GiveUp
<1>13. CASE DevNext /\ UNCHANGED hostVars
  BY <1>13, DeviceStepStream
<1>14. CASE UNCHANGED vars
  BY <1>a, <1>d, <1>14 DEF vars, devVars, hostVars, pollVars, callVars
<1>15. QED
  BY <1>1, <1>2, <1>3, <1>4, <1>5, <1>6, <1>7, <1>8, <1>9, <1>10, <1>11, <1>12, <1>13, <1>14
  DEF Next, HostStep

-----------------------------------------------------------------------------
\* The invariant and what follows from it

LEMMA InitInv == Init => IInv
<1> SUFFICES ASSUME Init PROVE IInv
  OBVIOUS
<1>1. Base
  BY InitBase
<1>2. OfferedInv
  BY DEF Init, DevInit, OfferedInv, NoMisroute, Accepted, NoSession, EmptyFifo
<1>3. OwnInv /\ ReadInv /\ StreamInv
  BY DEF Init, StatusInit, OwnInv, ReadInv, StreamInv, ClaimedPcs, DataPcs
<1>4. QED
  BY <1>1, <1>2, <1>3 DEF Base, IInv

LEMMA StepInv == PromptOp /\ IInv /\ [Next]_vars => IInv'
<1> SUFFICES ASSUME PromptOp, IInv, [Next]_vars PROVE IInv'
  OBVIOUS
<1>1. TypeOK' /\ CallInv' /\ DeviceInv'
  BY StepType, StepCall, StepDevice DEF IInv
<1>2. OfferedInv' /\ OwnInv' /\ ReadInv' /\ StreamInv'
  BY StepOffered, StepOwn, StepRead, StepStream
<1>3. QED
  BY <1>1, <1>2 DEF IInv

\* An application that lets the module act upon a request before it calls again
\* keeps the invariant.
THEOREM Inductive == ASSUME PromptOp PROVE Spec => []IInv
<1>1. IInv /\ [Next]_vars => IInv'
  BY StepInv
<1>2. QED
  BY <1>1, InitInv, PTL DEF Spec

\* No operation imports a blob that was not offered for it, whatever
\* was left open by earlier calls (run_i2c_blob_transfer claims the receiver).
THEOREM Routed == ASSUME PromptOp PROVE Spec => []NoMisroute
<1>1. IInv => NoMisroute
  BY DEF IInv, OfferedInv
<1>2. QED
  BY <1>1, Inductive, PTL

\* Once the receiver was seen ready, an open import is the call's own.
THEOREM Owned == ASSUME PromptOp PROVE Spec => []OwnImport
<1>1. IInv => OwnImport
  BY DEF IInv, OwnInv, OwnImport, ClaimedPcs
<1>2. QED
  BY <1>1, Inductive, PTL

\* A chunk is written only into an empty FIFO.
THEOREM NeverOverrun == ASSUME PromptOp PROVE Spec => []WriteOnlyWhenDrained
<1>1. IInv => WriteOnlyWhenDrained
  BY DEF IInv, StreamInv, WriteOnlyWhenDrained
<1>2. QED
  BY <1>1, Inductive, PTL

\* The next chunk follows only when the module has counted the earlier ones.
THEOREM Acknowledged == ASSUME PromptOp PROVE Spec => []AckedIsReceived
<1>1. IInv => AckedIsReceived
  BY DEF IInv, StreamInv, AckedIsReceived
<1>2. QED
  BY <1>1, Inductive, PTL

\* The four registers of a SUCCESS verdict belong to the same import, although
\* they are not read at once.
THEOREM Untorn == ASSUME PromptOp PROVE Spec => []VerdictNotTorn
<1>1. IInv => VerdictNotTorn
  BY DEF IInv, ReadInv, VerdictNotTorn, HaveStatus, Have
<1>2. QED
  BY <1>1, Inductive, PTL

\* What holds while a call runs, all of it.
THEOREM TransferIsSafe == ASSUME PromptOp PROVE Spec => []TransferSafe
BY Routed, Owned, Acknowledged, Untorn, PTL DEF TransferSafe

\* "true" is returned by a transfer at its last wait only, and by an abort only
\* when it saw the receiver idle with ABORT as the last request.
LEMMA VerdictStep ==
  ASSUME IInv, [Next]_vars
  PROVE  /\ ret' = "true" /\ ret # "true" =>
              pc = "final" /\ HaveStatus /\ snap.status = "SUCCESS"
         /\ abortRet' = "true" /\ abortRet # "true" =>
              pc = "abortWait" /\ PayloadIdle /\ UNCHANGED devVars
<1>a. TypeOK /\ CallInv
  BY DEF IInv
<1>b. ASSUME NEW v, Return(v)
      PROVE  /\ ret' = IF call.transfer THEN v ELSE ret
             /\ abortRet' = IF call.transfer THEN abortRet ELSE v
  BY <1>b DEF Return
<1> USE DEF Stay, callVars
<1>1. CASE CallAbort \/ \E o \in Ops, b \in Blobs : CallTransfer(o, b)
  BY <1>1 DEF CallAbort, CallTransfer
<1>2. CASE GetStatus \/ CheckInitial \/ WaitSettled \/ RequestAbort
  BY <1>2, <1>b DEF GetStatus, CheckInitial, WaitSettled, RequestAbort
<1>3. CASE WaitBoot
  BY <1>3, <1>b DEF WaitBoot
<1>4. CASE WaitIdle
  BY <1>4, <1>b DEF WaitIdle
<1>5. CASE RequestImport \/ WaitHeader \/ ReadMaxWrite \/ WriteChunk
  BY <1>5, <1>b DEF RequestImport, WaitHeader, ReadMaxWrite, WriteChunk
<1>6. CASE WaitDrained \/ WaitArmed \/ WaitProgress
  BY <1>6, <1>b DEF WaitDrained, Advance, WaitArmed, WaitProgress
<1>7. CASE WaitFinal
  BY <1>7, <1>a, <1>b DEF WaitFinal, CallInv
<1>8. CASE GiveUp
  BY <1>8, <1>b DEF GiveUp
<1>9. CASE UNCHANGED hostVars
  BY <1>9 DEF hostVars
<1>10. QED
  BY <1>1, <1>2, <1>3, <1>4, <1>5, <1>6, <1>7, <1>8, <1>9 DEF Next, HostStep, vars

\* A transfer that returns true had its own blob imported by its own operation
\* after the call began, for any module that keeps to the register protocol.
THEOREM TrueIsImported == ASSUME PromptOp PROVE Spec => TrueMeansImported
<1>1. IInv /\ [Next]_vars =>
        (ret' = "true" /\ ret # "true" => <<call.op, call.blob>> \in imported)
  BY VerdictStep DEF IInv, StreamInv, HaveStatus, Have
<1>2. QED
  BY <1>1, Inductive, PTL DEF Spec, TrueMeansImported

\* An abort that returns true left the receiver idle, with nothing requested
\* that could open it again.
THEOREM AbortIsIdle == ASSUME PromptOp PROVE Spec => AbortLeavesIdle
<1>1. ASSUME IInv, [Next]_vars, abortRet' = "true", abortRet # "true"
      PROVE  reg.status = "IDLE" /\ (opPend => opReg = ABORT)
  <2>1. pc = "abortWait" /\ PayloadIdle
    BY <1>1, VerdictStep
  <2>2. QED
    BY <1>1, <2>1 DEF IInv, ReadInv, OwnInv, PayloadIdle, HaveStatus, Have
<1>2. IInv /\ [Next]_vars =>
        (abortRet' = "true" /\ abortRet # "true" =>
           reg.status = "IDLE" /\ (opPend => opReg = ABORT))
  BY <1>1
<1>3. QED
  BY <1>2, Inductive, PTL DEF Spec, AbortLeavesIdle

\* A transfer that ends while it streams, without the abort of GiveUp, leaves no
\* import open.
THEOREM NeverAbandoned == ASSUME PromptOp PROVE Spec => NoSilentAbandon
<1>1. ASSUME IInv, [Next]_vars, pc \in DataPcs, pc' = "idle" PROVE ~ImportOpen
  <2>a. (pc = "drain" \/ pc = "progress") /\ GotFailed => ~ImportOpen
    BY <1>1 DEF IInv, ReadInv, GotFailed, HaveStatus, Have, IsTerminal, DataPcs
  <2>b. pc = "final" /\ HaveStatus /\ IsTerminal(snap.status) => ~ImportOpen
    BY <1>1 DEF IInv, ReadInv, HaveStatus, Have, DataPcs
  <2>1. CASE GetStatus
    BY <1>1, <2>1 DEF GetStatus, ReadStatusReg, DataPcs
  <2>2. CASE WriteChunk \/ WaitArmed
    BY <1>1, <2>2, GotoType, PollAgainType DEF WriteChunk, WaitArmed, NextChunk, IInv, TypeOK, DataPcs
  <2>3. CASE WaitDrained
    BY <1>1, <2>a, <2>3, GotoType, PollAgainType
    DEF WaitDrained, Advance, NextChunk, IInv, TypeOK, DataPcs
  <2>4. CASE WaitProgress
    BY <1>1, <2>a, <2>4, GotoType, PollAgainType
    DEF WaitProgress, NextChunk, IInv, TypeOK, DataPcs
  <2>5. CASE WaitFinal
    BY <1>1, <2>b, <2>5, GotoType, PollAgainType DEF WaitFinal, IInv, TypeOK, DataPcs
  <2>6. CASE UNCHANGED hostVars
    BY <1>1, <2>6 DEF hostVars, pollVars, DataPcs
  <2>7. QED
    BY <1>1, <2>1, <2>2, <2>3, <2>4, <2>5, <2>6
    DEF Next, HostStep, vars, CallTransfer, CallAbort, WaitBoot, CheckInitial, WaitSettled,
        RequestAbort, WaitIdle, RequestImport, WaitHeader, ReadMaxWrite, GiveUp, DataPcs
<1>2. IInv /\ [Next]_vars =>
        (pc \in DataPcs /\ pc' = "idle" /\ ret' = "false" => ~ImportOpen)
  BY <1>1
<1>3. QED
  BY <1>2, Inductive, PTL DEF Spec, NoSilentAbandon

\* What a call says when it ends, and what it leaves behind.
THEOREM EndsAsItSays == ASSUME PromptOp PROVE Spec => EndsWell
BY TrueIsImported, NeverAbandoned, AbortIsIdle, PTL DEF EndsWell

-----------------------------------------------------------------------------
\* Refinement

LEMMA PromiseInit == Init => Promise!Init
BY DEF Init, DevInit, NoCall, Promise!Init

\* A step that leaves the offer, the store and the verdict alone is a stutter.
LEMMA PromiseStutter ==
  UNCHANGED <<call, offered, store, imported, ret>> => UNCHANGED Promise!vars
BY DEF Promise!vars

LEMMA PromiseDevice ==
  ASSUME IInv, DevNext, UNCHANGED hostVars PROVE [Promise!Next]_(Promise!vars)
<1>a. UNCHANGED <<call, offered, ret>>
  BY DEF hostVars, callVars
<1>1. CASE Commit
  <2>1. sess.op \in Ops /\ sess.blob \in Blobs /\ <<sess.op, sess.blob>> \in offered
    BY <1>1, DeviceAssumption
    DEF Commit, IInv, TypeOK, DeviceTypeOK, Sessions, DeviceInv, OfferedInv, ImportOpen
  <2>2. Promise!Import(sess.op, sess.blob)
    BY <1>1, <1>a, <2>1 DEF Commit, Promise!Import
  <2>3. QED
    BY <2>1, <2>2 DEF Promise!Next
<1>2. CASE UNCHANGED <<store, imported>>
  BY <1>a, <1>2, PromiseStutter
<1>3. QED
  BY <1>1, <1>2 DEF DevNext, TakeAbort, TakeOp, RefuseOp, Drain, ParseHeader, CountBytes,
                    BeginParsing, Fail, Restart, Booted

LEMMA PromiseReturn ==
  ASSUME IInv, [Next]_vars, NEW v \in {"true", "false"}, Return(v), UNCHANGED <<store, imported>>
  PROVE  [Promise!Next]_(Promise!vars)
<1>1. CASE call.transfer
  <2>1. ret # "true"
    BY <1>1 DEF IInv, CallInv
  <2>2. v = "true" => <<call.op, call.blob>> \in imported
    BY <1>1, <2>1, VerdictStep DEF Return, IInv, StreamInv, HaveStatus, Have
  <2>3. Promise!Return(v)
    BY <1>1, <2>2 DEF Return, Promise!Return, NoCall
  <2>4. QED
    BY <2>3 DEF Promise!Next
<1>2. CASE ~call.transfer
  BY <1>2 DEF Return, NoCall, Promise!vars
<1>3. QED
  BY <1>1, <1>2

LEMMA PromiseStep == IInv /\ [Next]_vars => [Promise!Next]_(Promise!vars)
<1> SUFFICES ASSUME IInv, [Next]_vars PROVE [Promise!Next]_(Promise!vars)
  OBVIOUS
<1>1. ASSUME NEW o \in Ops, NEW b \in Blobs, CallTransfer(o, b)
      PROVE  [Promise!Next]_(Promise!vars)
  <2>1. ~call.transfer
    BY <1>1 DEF CallTransfer, IInv, CallInv
  <2>2. Promise!Offer(o, b)
    BY <1>1, <2>1 DEF CallTransfer, Promise!Offer
  <2>3. QED
    BY <2>2 DEF Promise!Next
<1>2. CASE CallAbort
  BY <1>2, PromiseStutter DEF CallAbort, devVars
<1>3. CASE HostStep
  <2>1. UNCHANGED <<store, imported>>
    BY <1>3, HostFrame DEF devVars, RequestOp, WriteChunk, AcceptBytes
  <2>2. UNCHANGED <<call, offered, ret>> \/ \E v \in {"true", "false"} : Return(v)
    <3> USE DEF Stay, callVars
    <3>1. CASE GetStatus \/ WaitBoot \/ CheckInitial \/ WaitSettled \/ RequestAbort
      BY <3>1 DEF GetStatus, WaitBoot, CheckInitial, WaitSettled, RequestAbort
    <3>2. CASE WaitIdle \/ RequestImport \/ WaitHeader \/ ReadMaxWrite \/ WriteChunk
      BY <3>2 DEF WaitIdle, RequestImport, WaitHeader, ReadMaxWrite, WriteChunk
    <3>3. CASE WaitDrained \/ WaitArmed \/ WaitProgress \/ WaitFinal \/ GiveUp
      BY <3>3 DEF WaitDrained, Advance, WaitArmed, WaitProgress, WaitFinal, GiveUp
    <3>4. QED
      BY <1>3, <3>1, <3>2, <3>3 DEF HostStep
  <2>3. QED
    BY <2>1, <2>2, PromiseStutter, PromiseReturn
<1>4. CASE DevNext /\ UNCHANGED hostVars
  BY <1>4, PromiseDevice
<1>5. CASE UNCHANGED vars
  BY <1>5, PromiseStutter DEF vars, devVars, hostVars, callVars
<1>6. QED
  BY <1>1, <1>2, <1>3, <1>4, <1>5 DEF Next

\* The register protocol implements the promise of the transfer functions: an
\* offer, imported at most as offered, with a true verdict only when it was.
THEOREM Implements == ASSUME PromptOp PROVE Spec => ImplementsBlobImport
<1>1. IInv /\ [Next]_vars => [Promise!Next]_(Promise!vars)
  BY PromiseStep
<1>2. QED
  BY <1>1, PromiseInit, Inductive, PTL DEF Spec, ImplementsBlobImport, Promise!Spec
=============================================================================
