------------------------- MODULE ModuleCommandsProofs ------------------------
(***************************************************************************)
(* Theorems about the command channel, for every image, rectangle, loop    *)
(* bound and number of module restarts.                                    *)
(*                                                                         *)
(* TypeInv adds to the types how far a call has come, which bounds the     *)
(* divisions sent: what locals.size is when they are counted.  ExchangeInv *)
(* says what the module's side of a command looks like at each point of    *)
(* the SDK's side of it, in a call that met nothing of an earlier one.     *)
(* EffectInv says what has arrived in the module by each step of a         *)
(* download, which replies are out and how far the reply counter has       *)
(* moved for them; and which coefficients are set.                         *)
(***************************************************************************)
EXTENDS ModuleCommands, TLAPS

CallInv ==
  /\ op = "idle" => step = 1 /\ io = "write" /\ sent = 0
  /\ op = "affine" => want \in Rects /\ sent = 0
  /\ op = "load" => want \in Types \X Fws
  /\ io = "send" => op = "load" /\ step = SendStep
  /\ step < SendStep => sent = 0
  /\ op = "load" /\ step = SendStep /\ io # "send" => sent < locals.size \div Division

TypeInv == TypeOK /\ CallInv

\* The module's side of the command the SDK waits for
Waiting ==
  \/ inbox = Command /\ running = None
  \/ inbox = None /\ running = Command /\ status = RUNNING
  \/ inbox = None /\ running = None /\ answered = Command

\* What a restart leaves of the command registers
Dropped ==
  disturbed /\ inbox = None /\ running = None /\ status = NOT_EFFECTIVE /\ value = 0

ExchangeInv ==
  op # "idle" /\ ~met =>
    /\ io # "poll" => inbox = None /\ running = None
    /\ io = "poll" => Waiting \/ Dropped
    /\ io = "return" => answered = Command \/ Dropped

\* What disturbs a call: a command met, or a restart.
MetIsDisturbed == met => disturbed

-----------------------------------------------------------------------------
\* The quotient and remainder of the lengths in the code are naturals.
LEMMA DivMod ==
  ASSUME NEW n \in Nat, NEW d \in Nat \ {0}
  PROVE  n \div d \in Nat /\ n % d \in 0..d-1
  OBVIOUS

\* What a step of the script writes is a command.
LEMMA CommandIsCommand ==
  ASSUME TypeInv, op # "idle", io # "send"
  PROVE  Command \in Commands /\ Command # None
<1>1. Id \in Ids
  <2>1. CASE op = "affine"
    <3>1. step \in 1..6
      BY <2>1 DEF TypeInv, TypeOK, CallTypeOK, Steps
    <3>2. Id = AffineIds[step]
      BY <2>1 DEF Id
    <3> QED BY <3>1, <3>2 DEF Ids
  <2>2. CASE op = "load"
    <3>1. step \in 1..13
      BY <2>2 DEF TypeInv, TypeOK, CallTypeOK, Steps, LoadScript
    <3>2. CASE step = 10
      BY <2>2, <3>2 DEF Id, SendStep, Ids
    <3>3. CASE step # 10
      <4>1. Id = LoadScript[step]
        BY <2>2, <3>3 DEF Id, SendStep
      <4> QED BY <3>1, <3>3, <4>1 DEF LoadScript, Ids, Setters
    <3> QED BY <3>2, <3>3
  <2> QED BY <2>1, <2>2 DEF TypeInv, TypeOK, CallTypeOK
<1>2. Argument \in Nat
  <2>1. CASE op = "affine"
    <3>1. step \in 1..6 /\ want \in [1..6 -> Values]
      BY <2>1, ModuleCommandsAssumption DEF TypeInv, CallInv, TypeOK, CallTypeOK, Steps
    <3>2. want[step] \in Nat
      BY <3>1, CommandModuleAssumption
    <3>3. Id \notin Setters /\ Id # "WAIT"
      <4>1. Id = AffineIds[step]
        BY <2>1 DEF Id
      <4> QED BY <3>1, <4>1 DEF AffineIds, Setters
    <3> QED BY <2>1, <3>2, <3>3 DEF Argument, Setters
  <2>2. CASE op # "affine"
    BY <2>2 DEF Argument, TypeInv, TypeOK, CallTypeOK
  <2> QED BY <2>1, <2>2
<1> QED BY <1>1, <1>2, NoCommandAssumption DEF Command, Commands
-----------------------------------------------------------------------------
\* Types

LEMMA EndType ==
  ASSUME CommandTypeOK, NEW o \in 0..3, NEW v \in Nat, End(o, v)
  PROVE  /\ inbox' \in Commands \cup {None} /\ running' \in Commands \cup {None}
         /\ status' \in 0..3 /\ value' \in Nat
         /\ answered' \in Commands \cup {None} /\ resets' \in 0..MaxResets
BY DEF CommandTypeOK, End

\* A command that takes a value answers with a natural.
LEMMA AnswersType ==
  ASSUME CommandTypeOK, running # None, \E v \in Answers(running.arg) : End(FINISHED, v)
  PROVE  /\ running.arg \in Nat
         /\ inbox' \in Commands \cup {None} /\ running' \in Commands \cup {None}
         /\ status' \in 0..3 /\ value' \in Nat
         /\ answered' \in Commands \cup {None} /\ resets' \in 0..MaxResets
<1>1. running.arg \in Nat
  BY DEF CommandTypeOK, Commands
<1>2. PICK v \in Answers(running.arg) : End(FINISHED, v)
  OBVIOUS
<1>3. v \in Nat /\ FINISHED \in 0..3
  BY <1>1, <1>2 DEF Answers, FINISHED
<1> QED BY <1>1, <1>2, <1>3, EndType

\* No step of the module changes a variable's type.
LEMMA DeviceStepType == CommandTypeOK /\ DevNext => CommandTypeOK'
<1> SUFFICES ASSUME CommandTypeOK, DevNext PROVE CommandTypeOK'
  OBVIOUS
<1>1. CASE Latch
  BY <1>1 DEF Latch, CommandTypeOK, ddVars, RUNNING
<1>2. CASE Refuse
  <2>1. PICK o \in {NOT_EFFECTIVE, RUN_FAILED} : End(o, 0)
    BY <1>2 DEF Refuse
  <2>2. o \in 0..3
    BY DEF NOT_EFFECTIVE, RUN_FAILED
  <2> QED BY <1>2, <2>1, <2>2, EndType DEF Refuse, ddVars, CommandTypeOK
<1>3. CASE Prepare
  <2>1. End(FINISHED, 0) /\ FINISHED \in 0..3
    BY <1>3 DEF Prepare, FINISHED
  <2>2. dl' \in [phase : {"off", "prepared", "requested", "ready"}, type : Nat,
                 size : Nat, fw : Fws \cup {None}, got : Nat, intact : BOOLEAN]
    BY <1>3 DEF Prepare, Download
  <2>3. reply' \in [sts : {READY, DONE, ERROR}, own : BOOLEAN] \cup {None}
    BY <1>3 DEF Prepare, CommandTypeOK
  <2> QED BY <1>3, <2>1, <2>2, <2>3, EndType DEF Prepare, CommandTypeOK
<1>4. CASE SetParameter
  <2>1. running # None /\ \E v \in Answers(running.arg) : End(FINISHED, v)
    BY <1>4 DEF SetParameter
  <2>2. running.arg \in Nat
    BY <2>1, AnswersType
  <2>3. dl' \in [phase : {"off", "prepared", "requested", "ready"}, type : Nat,
                 size : Nat, fw : Fws \cup {None}, got : Nat, intact : BOOLEAN]
    BY <1>4, <2>2 DEF SetParameter, CommandTypeOK, Setters
  <2> QED BY <1>4, <2>1, <2>3, AnswersType DEF SetParameter, CommandTypeOK
<1>5. CASE CountChanged
  BY <1>5, AnswersType DEF CountChanged, Is, ddVars, CommandTypeOK
<1>6. CASE Tick
  <2>1. FINISHED \in 0..3 /\ cnt \in Nat /\ sts \in Nat /\ (IF busy THEN 1 ELSE 0) \in Nat
    BY CommandModuleAssumption DEF CommandTypeOK, FINISHED, READY, DONE, ERROR
  <2>2. \E v \in Nat : End(FINISHED, v)
    BY <1>6, <2>1 DEF Tick
  <2> QED BY <1>6, <2>1, <2>2, EndType DEF Tick, ddVars, CommandTypeOK
<1>7. CASE SetCoefficient
  <2>1. PICK k \in 1..6 : Is(AffineIds[k]) /\ affine' = [affine EXCEPT ![k] = running.arg]
    BY <1>7 DEF SetCoefficient
  <2>2. running # None /\ \E v \in Answers(running.arg) : End(FINISHED, v)
    BY <1>7, <2>1 DEF SetCoefficient, Is
  <2>3. affine' \in [1..6 -> Nat]
    BY <2>1, <2>2, AnswersType DEF CommandTypeOK
  <2> QED BY <1>7, <2>2, <2>3, AnswersType DEF SetCoefficient, ddVars, CommandTypeOK
<1>8. CASE DownloadReady
  BY <1>8 DEF DownloadReady, NewReply, CommandTypeOK, commandVars
<1>9. CASE DownloadDone
  BY <1>9 DEF DownloadDone, NewReply, CommandTypeOK, commandVars
<1>10. CASE DownloadFailed
  BY <1>10 DEF DownloadFailed, NewReply, CommandTypeOK, commandVars
<1>11. CASE Publish
  <2>1. (cnt + 1) % CntMod \in 0..CntMod-1
    <3>1. cnt + 1 \in Nat /\ CntMod \in Nat \ {0}
      BY CommandModuleAssumption DEF CommandTypeOK
    <3> QED BY <3>1, DivMod
  <2> QED BY <1>11, <2>1 DEF Publish, CommandTypeOK, commandVars
<1>12. CASE DivisionStored
  <2>1. busy' \in BOOLEAN
    BY <1>12 DEF DivisionStored
  <2> QED BY <1>12, <2>1 DEF DivisionStored, CommandTypeOK, commandVars
<1>13. CASE Restart
  <2>1. resets' \in 0..MaxResets
    BY <1>13, CommandModuleAssumption DEF Restart, CommandTypeOK
  <2>2. cnt' \in 0..CntMod-1 /\ affine' \in [1..6 -> Nat]
    BY <1>13, CommandModuleAssumption DEF Restart, PowerOn
  <2>3. dl' \in [phase : {"off", "prepared", "requested", "ready"}, type : Nat,
                 size : Nat, fw : Fws \cup {None}, got : Nat, intact : BOOLEAN]
    BY <1>13 DEF Restart, PowerOn, Download
  <2>4. busy' \in BOOLEAN
    BY <1>13 DEF Restart, PowerOn
  <2> QED
    BY <1>13, <2>1, <2>2, <2>3, <2>4
    DEF Restart, PowerOn, CommandTypeOK, NOT_EFFECTIVE, READY, DONE, ERROR
<1> QED
  BY <1>1, <1>2, <1>3, <1>4, <1>5, <1>6, <1>7, <1>8, <1>9, <1>10, <1>11, <1>12, <1>13
  DEF DevNext

LEMMA AcceptCommandType ==
  ASSUME CommandTypeOK, NEW c \in Commands, AcceptCommand(c)
  PROVE  CommandTypeOK'
BY DEF AcceptCommand, CommandTypeOK, ddVars

LEMMA AcceptDataType ==
  ASSUME CommandTypeOK, NEW f \in Fws, NEW k, NEW n \in Nat, NEW clean \in BOOLEAN,
         AcceptData(f, k, n, clean)
  PROVE  CommandTypeOK'
<1>1. CASE dl.phase # "ready" \/ n = 0
  BY <1>1 DEF AcceptData, CommandTypeOK, commandVars
<1>2. CASE ~(dl.phase # "ready" \/ n = 0)
  <2> DEFINE intact == dl.intact /\ clean /\ ~busy /\ k = dl.got /\ dl.fw \in {None, f}
             got == dl.got + n
  <2>1. intact \in BOOLEAN /\ got \in Nat
    BY DEF CommandTypeOK
  <2>2. dl' = [dl EXCEPT !.got = got, !.fw = f, !.intact = intact]
    BY <1>2 DEF AcceptData
  <2>3. busy' \in BOOLEAN
    BY <1>2 DEF AcceptData
  <2> HIDE DEF intact, got
  <2>4. dl' \in [phase : {"off", "prepared", "requested", "ready"}, type : Nat,
                 size : Nat, fw : Fws \cup {None}, got : Nat, intact : BOOLEAN]
    BY <2>1, <2>2 DEF CommandTypeOK
  <2> QED BY <2>3, <2>4 DEF AcceptData, CommandTypeOK, commandVars
<1> QED BY <1>1, <1>2

\* A write of the image, arrived or not, keeps the module's types.
LEMMA WriteType ==
  ASSUME CommandTypeOK, Image \in Fws, NEW k, NEW n \in Nat, Write(k, n)
  PROVE  CommandTypeOK'
<1>1. CASE UNCHANGED devVars
  BY <1>1 DEF CommandTypeOK, devVars, commandVars, ddVars
<1> QED BY <1>1, AcceptDataType DEF Write

LEMMA ReturnType ==
  ASSUME TypeInv, NEW v \in {"ok", "failed"}, Return(v)
  PROVE  CallTypeOK' /\ CallInv'
<1>1. locals' = NoLocals /\ 0 \div Division \in Nat
  BY CommandModuleAssumption, DivMod DEF Return
<1>2. sent' \in 0..(locals'.size \div Division)
  BY <1>1 DEF Return, NoLocals
<1>3. locals' \in [type : Nat, division : Nat, size : Nat, base : Nat]
  BY <1>1 DEF NoLocals
<1>4. met' \in BOOLEAN /\ disturbed' \in BOOLEAN /\ calls' \in 0..MaxCalls
  BY DEF Return, TypeInv, TypeOK, CallTypeOK
<1>5. polls' \in 0..MaxPolls-1 /\ rounds' \in 0..MaxRounds-1 /\ step' \in 1..Steps'
  BY ModuleCommandsAssumption DEF Return, Steps
<1>6. CallTypeOK'
  BY <1>2, <1>3, <1>4, <1>5 DEF Return, CallTypeOK
<1>7. CallInv'
  BY DEF Return, CallInv, SendStep
<1> QED BY <1>6, <1>7

LEMMA BeginType ==
  ASSUME TypeInv, NEW f, NEW w, NEW l, Begin(f, w, l),
         \/ f = "load" /\ w \in Types \X Fws
         \/ f = "affine" /\ w \in Rects,
         l \in [type : Nat, division : Nat, size : Nat, base : Nat]
  PROVE  CommandTypeOK' /\ CallTypeOK' /\ CallInv'
<1>1. CommandTypeOK'
  BY DEF Begin, TypeInv, TypeOK, CommandTypeOK, devVars, commandVars, ddVars
<1>2. l.size \div Division \in Nat
  BY CommandModuleAssumption, DivMod
<1>3. /\ calls' \in 0..MaxCalls /\ ret' = "none"
      /\ met' \in BOOLEAN /\ disturbed' \in BOOLEAN
  BY ModuleCommandsAssumption DEF Begin, TypeInv, TypeOK, CallTypeOK
<1>4. op' \in {"load", "affine"} /\ step' = 1 /\ io' = "write" /\ sent' = 0 /\ locals' = l
  BY DEF Begin, TypeInv, CallInv, posVars
<1>5. step' \in 1..Steps'
  BY <1>4 DEF Steps, LoadScript
<1>6. polls' \in 0..MaxPolls-1 /\ rounds' \in 0..MaxRounds-1
  BY DEF Begin, TypeInv, TypeOK, CallTypeOK, posVars
<1>7. CallTypeOK'
  BY <1>2, <1>3, <1>4, <1>5, <1>6 DEF Begin, CallTypeOK
<1>8. CallInv'
  BY <1>4 DEF Begin, CallInv, SendStep
<1> QED BY <1>1, <1>7, <1>8

\* Where in its script a call is when it comes to certain commands.
LEMMA IdStep ==
  ASSUME TypeInv, op # "idle"
  PROVE  /\ Id = "DOWNLOAD_STS" <=> op = "load" /\ step = SendStep
         /\ Id = "BEFORE_3" => op = "load" /\ step < SendStep
<1>1. CASE op = "affine"
  <2>1. step \in 1..6 /\ Id = AffineIds[step]
    BY <1>1 DEF TypeInv, TypeOK, CallTypeOK, Steps, Id
  <2> QED BY <1>1, <2>1 DEF AffineIds
<1>2. CASE op = "load" /\ step = SendStep
  BY <1>2 DEF Id
<1>3. CASE op = "load" /\ step # SendStep
  <2>1. step \in 1..13 /\ Id = LoadScript[step]
    BY <1>3 DEF TypeInv, TypeOK, CallTypeOK, Steps, LoadScript, Id
  <2> QED BY <1>3, <2>1 DEF LoadScript, SendStep
<1> QED BY <1>1, <1>2, <1>3 DEF TypeInv, TypeOK, CallTypeOK

\* The caller's variables hold what was passed to the commands or answered.
LEMMA LocalsType ==
  ASSUME TypeInv, op # "idle", NEW v \in Nat
  PROVE  /\ Locals(v) \in [type : Nat, division : Nat, size : Nat, base : Nat]
         /\ Id # "BEFORE_3" => Locals(v).size = locals.size
BY DEF Locals, TypeInv, TypeOK, CallTypeOK

LEMMA ModuleStepType == TypeInv /\ ModuleStep => TypeInv'
<1> SUFFICES ASSUME TypeInv, ModuleStep PROVE TypeInv'
  OBVIOUS
<1>1. CommandTypeOK'
  BY DeviceStepType DEF TypeInv, TypeOK, ModuleStep
<1>2. disturbed' \in BOOLEAN
  BY DEF ModuleStep, TypeInv, TypeOK, CallTypeOK
<1>3. UNCHANGED <<op, want, step, io, polls, locals, sent, rounds, ret, calls, met>>
  BY DEF ModuleStep, posVars
<1>4. Steps' = Steps
  BY <1>3 DEF Steps
<1> QED BY <1>1, <1>2, <1>3, <1>4 DEF TypeInv, TypeOK, CallTypeOK, CallInv

LEMMA WriteCommandType == TypeInv /\ WriteCommand => TypeInv'
<1> SUFFICES ASSUME TypeInv, WriteCommand PROVE TypeInv'
  OBVIOUS
<1>1. Command \in Commands /\ CommandTypeOK
  BY CommandIsCommand DEF WriteCommand, TypeInv, TypeOK
<1>2. CASE UNCHANGED devVars /\ GiveUp
  <2>1. CommandTypeOK'
    BY <1>1, <1>2 DEF CommandTypeOK, devVars, commandVars, ddVars
  <2> QED BY <1>2, <2>1, ReturnType DEF GiveUp, TypeInv, TypeOK
<1>3. CASE AcceptCommand(Command) /\ GiveUp
  BY <1>1, <1>3, AcceptCommandType, ReturnType DEF GiveUp, TypeInv, TypeOK
<1>4. CASE /\ AcceptCommand(Command)
           /\ io' = "poll"
           /\ polls' = 0
           /\ UNCHANGED <<step, sent, rounds, locals, callVars>>
  <2>1. CommandTypeOK'
    BY <1>1, <1>4, AcceptCommandType
  <2>2. polls' \in 0..MaxPolls-1
    BY <1>4, ModuleCommandsAssumption
  <2>3. Steps' = Steps
    BY <1>4 DEF Steps, callVars
  <2>4. CallTypeOK'
    BY <1>4, <2>2, <2>3 DEF TypeInv, TypeOK, CallTypeOK, callVars
  <2>5. CallInv'
    BY <1>4 DEF WriteCommand, TypeInv, CallInv, callVars
  <2> QED BY <2>1, <2>4, <2>5 DEF TypeInv, TypeOK
<1> QED BY <1>2, <1>3, <1>4 DEF WriteCommand

\* A poll leaves the call where it is, moves it to the answer, or ends it.
LEMMA PollStatusType == TypeInv /\ PollStatus => TypeInv'
<1> SUFFICES ASSUME TypeInv, PollStatus PROVE TypeInv'
  OBVIOUS
<1>1. CommandTypeOK'
  BY DEF PollStatus, TypeInv, TypeOK, CommandTypeOK, devVars, commandVars, ddVars
<1>2. CASE GiveUp
  BY <1>1, <1>2, ReturnType DEF GiveUp, TypeInv, TypeOK
<1>3. CASE ~GiveUp
  <2>1. /\ io' \in {"poll", "return"}
        /\ polls' \in 0..MaxPolls-1
        /\ UNCHANGED <<step, sent, rounds, locals, callVars>>
    <3>1. CASE io' = "return" /\ UNCHANGED <<step, polls, sent, rounds, locals, callVars>>
      BY <3>1 DEF TypeInv, TypeOK, CallTypeOK
    <3>2. CASE /\ PollsLeft
               /\ polls' = polls + 1
               /\ UNCHANGED <<step, io, sent, rounds, locals, callVars>>
      BY <3>2, ModuleCommandsAssumption
      DEF PollStatus, PollsLeft, TypeInv, TypeOK, CallTypeOK
    <3> QED BY <1>3, <3>1, <3>2 DEF PollStatus, TimedOut
  <2>2. Steps' = Steps
    BY <2>1 DEF Steps, callVars
  <2>3. CallTypeOK'
    BY <2>1, <2>2 DEF TypeInv, TypeOK, CallTypeOK, callVars
  <2>4. CallInv'
    BY <2>1 DEF PollStatus, TypeInv, CallInv, callVars
  <2> QED BY <1>1, <2>3, <2>4 DEF TypeInv, TypeOK
<1> QED BY <1>2, <1>3

LEMMA ReadReturnType == TypeInv /\ ReadReturn => TypeInv'
<1> SUFFICES ASSUME TypeInv, ReadReturn PROVE TypeInv'
  OBVIOUS
<1>1. CommandTypeOK'
  BY DEF ReadReturn, TypeInv, TypeOK, CommandTypeOK, devVars, commandVars, ddVars
<1>2. CASE GiveUp \/ Return("ok")
  BY <1>1, <1>2, ReturnType DEF GiveUp, TypeInv, TypeOK
<1>3. CASE Id = "DOWNLOAD_STS" /\ AfterDivision(value)
  <2>1. op = "load" /\ step = SendStep /\ sent < locals.size \div Division
    BY <1>3, IdStep DEF ReadReturn, TypeInv, CallInv
  <2>2. polls' \in 0..MaxPolls-1 /\ rounds' \in 0..MaxRounds-1
    BY <1>3, ModuleCommandsAssumption
    DEF AfterDivision, CountRound, TypeInv, TypeOK, CallTypeOK
  <2>3. UNCHANGED <<step, locals, callVars>> /\ Steps' = Steps
    BY <1>3 DEF AfterDivision, Steps, callVars
  <2>4. locals.size \div Division \in Nat /\ sent \in Nat
    <3>1. locals.size \in Nat /\ Division \in Nat \ {0}
      BY CommandModuleAssumption DEF TypeInv, TypeOK, CallTypeOK
    <3>2. locals.size \div Division \in Nat
      BY <3>1, DivMod
    <3> QED BY <3>2 DEF TypeInv, TypeOK, CallTypeOK
  <2>5. \/ io' = "send" /\ sent' = sent + 1
        \/ io' = "write" /\ sent' = sent
    BY <1>3 DEF AfterDivision
  <2>6. sent' \in 0..(locals.size \div Division)
    BY <2>1, <2>4, <2>5
  <2>7. CallTypeOK'
    BY <2>2, <2>3, <2>5, <2>6 DEF TypeInv, TypeOK, CallTypeOK, callVars
  <2>8. CallInv'
    BY <2>1, <2>3, <2>5 DEF TypeInv, CallInv, SendStep, callVars
  <2> QED BY <1>1, <2>7, <2>8 DEF TypeInv, TypeOK
<1>4. CASE Id # "DOWNLOAD_STS" /\ step < Steps /\ Advance /\ locals' = Locals(value)
  <2> DEFINE size == locals.size \div Division
  <2>1. value \in Nat /\ op # "idle"
    BY DEF TypeInv, TypeOK, CommandTypeOK, ReadReturn
  <2>2. /\ locals' \in [type : Nat, division : Nat, size : Nat, base : Nat]
        /\ Id # "BEFORE_3" => locals'.size = locals.size
    BY <1>4, <2>1, LocalsType
  <2>3. sent' = sent /\ (locals'.size # locals.size => sent = 0)
    BY <1>4, <2>1, <2>2, IdStep DEF Advance, TypeInv, CallInv
  <2>4. sent' \in 0..(locals'.size \div Division)
    BY <2>2, <2>3, CommandModuleAssumption, DivMod DEF TypeInv, TypeOK, CallTypeOK
  <2>5. step \in 1..Steps /\ Steps \in Nat
    BY DEF TypeInv, TypeOK, CallTypeOK, Steps, LoadScript
  <2>6. step' = step + 1 /\ step' \in 1..Steps'
    BY <1>4, <2>5 DEF Advance, Steps, callVars
  <2>7. /\ polls' \in 0..MaxPolls-1
        /\ io' = IF op = "load" /\ step + 1 = SendStep THEN "send" ELSE "write"
        /\ UNCHANGED <<rounds, callVars>>
    BY <1>4, ModuleCommandsAssumption DEF Advance
  <2>8. CallTypeOK'
    BY <2>2, <2>4, <2>6, <2>7 DEF TypeInv, TypeOK, CallTypeOK, callVars
  <2>9. op = "load" => step # SendStep
    BY <1>4, <2>1, IdStep
  <2>10. CallInv'
    BY <2>1, <2>3, <2>5, <2>6, <2>7, <2>9 DEF TypeInv, CallInv, SendStep, callVars
  <2> QED BY <1>1, <2>8, <2>10 DEF TypeInv, TypeOK
<1> QED BY <1>2, <1>3, <1>4 DEF ReadReturn

LEMMA SendTypes == TypeInv /\ (NoMemory \/ SendDivision \/ SendTail) => TypeInv'
<1> SUFFICES ASSUME TypeInv, NoMemory \/ SendDivision \/ SendTail PROVE TypeInv'
  OBVIOUS
<1>1. /\ CommandTypeOK /\ op = "load" /\ io = "send" /\ step = SendStep
      /\ Image \in Fws /\ Division \in Nat \ {0} /\ Block \in Nat \ {0}
  BY CommandModuleAssumption
  DEF TypeInv, TypeOK, CallInv, Image, NoMemory, SendDivision, SendTail
<1>2. locals.size \in Nat /\ locals.size % Division \in Nat /\ Division \div Block \in Nat
  <2>1. locals.size \in Nat
    BY DEF TypeInv, TypeOK, CallTypeOK
  <2>2. locals.size % Division \in 0..Division-1 /\ Division \div Block \in Nat
    BY <1>1, <2>1, DivMod
  <2> QED BY <1>1, <2>1, <2>2
<1>3. CASE GiveUp /\ CommandTypeOK'
  BY <1>3, ReturnType DEF GiveUp, TypeInv, TypeOK
<1>4. CASE NoMemory
  BY <1>1, <1>3, <1>4 DEF NoMemory, CommandTypeOK, devVars, commandVars, ddVars
<1>5. CASE SendDivision
  <2>1. ASSUME NEW m \in 0..(Division \div Block), Write(sent * Division, m * Block), GiveUp
        PROVE  TypeInv'
    <3>1. m * Block \in Nat
      BY <1>1, <1>2
    <3> QED BY <1>1, <1>3, <2>1, <3>1, WriteType
  <2>2. CASE /\ Write(sent * Division, Division)
             /\ io' = "write"
             /\ UNCHANGED <<step, polls, sent, rounds, locals, callVars>>
    <3>1. CommandTypeOK'
      BY <1>1, <2>2, WriteType
    <3>2. Steps' = Steps
      BY <2>2 DEF Steps, callVars
    <3>3. CallTypeOK'
      BY <2>2, <3>2 DEF TypeInv, TypeOK, CallTypeOK, callVars
    <3>4. CallInv'
      BY <1>1, <1>5, <2>2 DEF TypeInv, CallInv, SendDivision, callVars
    <3> QED BY <3>1, <3>3, <3>4 DEF TypeInv, TypeOK
  <2> QED BY <1>5, <2>1, <2>2 DEF SendDivision
<1>6. CASE SendTail
  <2> DEFINE left == (locals.size % Division) + Padding(locals.size)
  <2>1. Padding(locals.size) \in Nat
    <3>1. locals.size % Block \in 0..Block-1
      BY <1>1, <1>2, DivMod
    <3> QED BY <1>1, <3>1 DEF Padding
  <2>2. left \in Nat
    BY <1>2, <2>1
  <2> HIDE DEF left
  <2>3. ASSUME NEW m \in 0..left, Write(sent * Division, m), GiveUp
        PROVE  TypeInv'
    <3>1. m \in Nat
      BY <2>2
    <3> QED BY <1>1, <1>3, <2>3, <3>1, WriteType
  <2>4. CASE Write(sent * Division, left) /\ Advance /\ UNCHANGED locals
    <3>1. CommandTypeOK'
      BY <1>1, <2>2, <2>4, WriteType
    <3>2. step' = 11 /\ io' = "write" /\ UNCHANGED <<sent, rounds, callVars, locals>>
      BY <1>1, <2>4 DEF Advance, SendStep
    <3>3. step' \in 1..Steps' /\ polls' \in 0..MaxPolls-1
      BY <1>1, <2>4, <3>2, ModuleCommandsAssumption DEF Advance, Steps, LoadScript, callVars
    <3>4. CallTypeOK'
      BY <3>2, <3>3 DEF TypeInv, TypeOK, CallTypeOK, callVars
    <3>5. CallInv'
      BY <1>1, <3>2 DEF TypeInv, CallInv, SendStep, callVars
    <3> QED BY <3>1, <3>4, <3>5 DEF TypeInv, TypeOK
  <2> QED BY <1>6, <2>3, <2>4 DEF SendTail, left
<1> QED BY <1>4, <1>5, <1>6

LEMMA InitType == Init => TypeInv
<1> SUFFICES ASSUME Init PROVE TypeInv
  OBVIOUS
<1>1. resets \in 0..MaxResets /\ cnt \in 0..CntMod-1 /\ affine \in [1..6 -> Nat]
  BY CommandModuleAssumption DEF Init, DevInit
<1>2. dl \in [phase : {"off", "prepared", "requested", "ready"}, type : Nat,
             size : Nat, fw : Fws \cup {None}, got : Nat, intact : BOOLEAN]
  BY DEF Init, DevInit, Download
<1>3. busy \in BOOLEAN /\ met \in BOOLEAN /\ disturbed \in BOOLEAN
  BY DEF Init, DevInit
<1>4. CommandTypeOK
  BY <1>1, <1>2, <1>3 DEF Init, DevInit, CommandTypeOK, NOT_EFFECTIVE, READY, DONE, ERROR
<1>5. 0 \div Division \in Nat
  BY CommandModuleAssumption, DivMod
<1>6. sent \in 0..(locals.size \div Division)
  BY <1>5 DEF Init, NoLocals
<1>7. polls \in 0..MaxPolls-1 /\ rounds \in 0..MaxRounds-1 /\ calls \in 0..MaxCalls
  BY ModuleCommandsAssumption DEF Init
<1>8. CallTypeOK
  BY <1>3, <1>6, <1>7 DEF Init, CallTypeOK, Steps, NoLocals
<1>9. CallInv
  BY DEF Init, CallInv, SendStep
<1> QED BY <1>4, <1>8, <1>9 DEF TypeInv, TypeOK

LEMMA NextType == TypeInv /\ [Next]_vars => TypeInv'
<1> SUFFICES ASSUME TypeInv, [Next]_vars PROVE TypeInv'
  OBVIOUS
<1>1. ASSUME NEW f \in Fws, NEW t \in Types, CallLoad(f, t) PROVE TypeInv'
  <2> DEFINE l == [type |-> t, division |-> Size[f] \div Division, size |-> Size[f], base |-> 0]
  <2>1. l \in [type : Nat, division : Nat, size : Nat, base : Nat]
    BY CommandModuleAssumption, DivMod
  <2>2. Begin("load", <<t, f>>, l) /\ <<t, f>> \in Types \X Fws
    BY <1>1 DEF CallLoad
  <2> HIDE DEF l
  <2> QED BY <2>1, <2>2, BeginType DEF TypeInv, TypeOK
<1>2. ASSUME NEW r \in Rects, CallAffine(r) PROVE TypeInv'
  <2>1. NoLocals \in [type : Nat, division : Nat, size : Nat, base : Nat]
    BY DEF NoLocals
  <2> QED BY <1>2, <2>1, BeginType DEF CallAffine, TypeInv, TypeOK
<1>3. CASE UNCHANGED vars
  <2>1. Steps' = Steps
    BY <1>3 DEF vars, hostVars, callVars, Steps
  <2> QED
    BY <1>3, <2>1
    DEF vars, hostVars, callVars, posVars, devVars, commandVars, ddVars, TypeInv, TypeOK,
        CallTypeOK, CommandTypeOK, CallInv
<1> QED
  BY <1>1, <1>2, <1>3, WriteCommandType, PollStatusType, ReadReturnType, SendTypes,
     ModuleStepType
  DEF Next, HostStep

\* Every variable has its type, and no loop passes its bound.
THEOREM TypeCorrect == Spec => []TypeOK
<1>1. TypeInv => TypeOK
  BY DEF TypeInv
<1> QED BY <1>1, InitType, NextType, PTL DEF Spec

-----------------------------------------------------------------------------
\* The exchange of one command

\* The module changes the command registers by latching a command, by ending
\* one, or by restarting.
LEMMA DeviceExchange ==
  ASSUME CommandTypeOK, DevNext
  PROVE  \/ UNCHANGED commandVars /\ resets' = resets
         \/ Latch
         \/ /\ inbox' = inbox /\ running # None /\ running' = None
            /\ answered' = running /\ resets' = resets
         \/ PowerOn /\ resets' # resets
<1> DEFINE Ended ==
      /\ inbox' = inbox /\ running # None /\ running' = None
      /\ answered' = running /\ resets' = resets
<1>1. CASE Refuse
  BY <1>1 DEF Refuse, End
<1>2. CASE Prepare
  BY <1>2 DEF Prepare, End, Is
<1>3. CASE SetParameter
  BY <1>3 DEF SetParameter, End
<1>4. CASE CountChanged
  BY <1>4 DEF CountChanged, End, Is
<1>5. CASE Tick
  BY <1>5 DEF Tick, End, Is
<1>6. CASE SetCoefficient
  BY <1>6 DEF SetCoefficient, End, Is
<1>7. CASE DownloadReady \/ DownloadDone \/ DownloadFailed \/ Publish \/ DivisionStored
  BY <1>7 DEF DownloadReady, DownloadDone, DownloadFailed, Publish, DivisionStored
<1>8. CASE Restart
  <2>1. resets' # resets
    BY <1>8, CommandModuleAssumption DEF Restart, CommandTypeOK
  <2> QED BY <1>8, <2>1 DEF Restart
<1> QED BY <1>1, <1>2, <1>3, <1>4, <1>5, <1>6, <1>7, <1>8 DEF DevNext

LEMMA SameCommand ==
  ASSUME UNCHANGED <<op, want, step, locals>>
  PROVE  Command' = Command
BY DEF Command, Id, Argument

LEMMA ModuleExchange == TypeInv /\ ExchangeInv /\ ModuleStep => ExchangeInv'
<1> SUFFICES ASSUME TypeInv, ExchangeInv, ModuleStep, op # "idle", ~met
             PROVE  ExchangeInv'
  BY DEF ExchangeInv, ModuleStep
<1>1. /\ DevNext /\ CommandTypeOK
      /\ disturbed \in BOOLEAN /\ disturbed' = (disturbed \/ resets' # resets)
  BY DEF ModuleStep, TypeInv, TypeOK, CallTypeOK
<1>2. UNCHANGED <<op, io, met>> /\ Command' = Command
  BY SameCommand DEF ModuleStep, posVars
<1>3. CASE UNCHANGED commandVars /\ resets' = resets
  BY <1>1, <1>2, <1>3 DEF ExchangeInv, Waiting, Dropped, commandVars
<1>4. CASE Latch
  <2>1. io = "poll" /\ inbox = Command /\ running = None
    BY <1>4 DEF Latch, ExchangeInv, Waiting, Dropped
  <2> QED BY <1>2, <1>4, <2>1 DEF Latch, ExchangeInv, Waiting
<1>5. CASE inbox' = inbox /\ running # None /\ running' = None /\ answered' = running
  BY <1>1, <1>2, <1>5 DEF ExchangeInv, Waiting, Dropped
<1>6. CASE PowerOn /\ resets' # resets
  BY <1>1, <1>2, <1>6 DEF PowerOn, ExchangeInv, Dropped
<1> QED BY <1>1, <1>3, <1>4, <1>5, <1>6, DeviceExchange

LEMMA BeginExchange ==
  ASSUME TypeInv, NEW f, NEW w, NEW l, Begin(f, w, l)
  PROVE  ExchangeInv'
BY DEF Begin, TypeInv, CallInv, ExchangeInv, posVars, devVars, commandVars

LEMMA ReturnExchange ==
  ASSUME NEW v, Return(v)
  PROVE  ExchangeInv'
BY DEF Return, ExchangeInv

LEMMA WriteExchange == TypeInv /\ ExchangeInv /\ WriteCommand => ExchangeInv'
<1> SUFFICES ASSUME TypeInv, ExchangeInv, WriteCommand PROVE ExchangeInv'
  OBVIOUS
<1>1. CASE GiveUp
  BY <1>1, ReturnExchange DEF GiveUp
<1>2. CASE /\ AcceptCommand(Command)
           /\ io' = "poll"
           /\ UNCHANGED <<step, locals, callVars>>
  <2>1. Command' = Command
    BY <1>2, SameCommand DEF callVars
  <2> QED
    BY <1>2, <2>1 DEF WriteCommand, AcceptCommand, ExchangeInv, Waiting, callVars
<1> QED BY <1>1, <1>2 DEF WriteCommand

\* A status seen 1 ms after the write is not that of an earlier command.
LEMMA PollExchange ==
  ASSUME PromptLatch, TypeInv, ExchangeInv, PollStatus
  PROVE  ExchangeInv'
<1>1. CASE GiveUp
  BY <1>1, ReturnExchange DEF GiveUp
<1>2. CASE ~GiveUp
  <2>1. Command # None /\ inbox = None
    BY CommandIsCommand DEF PollStatus, Slept
  <2>2. /\ UNCHANGED <<step, locals, op, want, met, disturbed>>
        /\ UNCHANGED commandVars
    BY <1>2 DEF PollStatus, TimedOut, callVars, devVars
  <2>3. Command' = Command
    BY <2>2, SameCommand
  <2>4. \/ io' = "poll"
        \/ io' = "return" /\ status = FINISHED
    BY <1>2, Zenon DEF PollStatus, TimedOut
  <2> QED
    BY <2>1, <2>2, <2>3, <2>4
    DEF PollStatus, ExchangeInv, Waiting, Dropped, commandVars, FINISHED, RUNNING,
        NOT_EFFECTIVE
<1> QED BY <1>1, <1>2

LEMMA ReadExchange == ExchangeInv /\ ReadReturn => ExchangeInv'
<1> SUFFICES ASSUME ExchangeInv, ReadReturn PROVE ExchangeInv'
  OBVIOUS
<1>1. CASE GiveUp \/ Return("ok")
  BY <1>1, ReturnExchange DEF GiveUp
<1>2. CASE ~(GiveUp \/ Return("ok"))
  <2>1. io' \in {"send", "write"} /\ UNCHANGED <<op, met>> /\ UNCHANGED commandVars
    BY <1>2 DEF ReadReturn, AfterDivision, Advance, callVars, devVars
  <2> QED BY <2>1 DEF ReadReturn, ExchangeInv, commandVars
<1> QED BY <1>1, <1>2

LEMMA SendExchange ==
  ExchangeInv /\ (NoMemory \/ SendDivision \/ SendTail) => ExchangeInv'
<1> SUFFICES ASSUME ExchangeInv, NoMemory \/ SendDivision \/ SendTail PROVE ExchangeInv'
  OBVIOUS
<1>1. CASE GiveUp
  BY <1>1, ReturnExchange DEF GiveUp
<1>2. CASE ~GiveUp
  <2>1. io' = "write" \/ io' = "send"
    BY <1>2 DEF NoMemory, SendDivision, SendTail, Advance
  <2>2. io = "send" /\ UNCHANGED <<op, met>>
    BY <1>2 DEF NoMemory, SendDivision, SendTail, Advance, callVars
  <2>3. UNCHANGED commandVars
    BY <1>2 DEF NoMemory, SendDivision, SendTail, Write, AcceptData, devVars
  <2> QED BY <2>1, <2>2, <2>3 DEF ExchangeInv, commandVars
<1> QED BY <1>1, <1>2

LEMMA InitExchange == Init => ExchangeInv
BY DEF Init, ExchangeInv

LEMMA NextExchange ==
  ASSUME PromptLatch
  PROVE  TypeInv /\ ExchangeInv /\ [Next]_vars => ExchangeInv'
<1> SUFFICES ASSUME TypeInv, ExchangeInv, [Next]_vars PROVE ExchangeInv'
  OBVIOUS
<1>1. ASSUME NEW f \in Fws, NEW t \in Types, CallLoad(f, t) PROVE ExchangeInv'
  BY <1>1, BeginExchange DEF CallLoad
<1>2. ASSUME NEW r \in Rects, CallAffine(r) PROVE ExchangeInv'
  BY <1>2, BeginExchange DEF CallAffine
<1>3. CASE UNCHANGED vars
  <2>1. Command' = Command
    BY <1>3, SameCommand DEF vars, hostVars, callVars, posVars
  <2> QED
    BY <1>3, <2>1
    DEF vars, hostVars, callVars, posVars, devVars, commandVars, ExchangeInv, Waiting,
        Dropped
<1> QED
  BY <1>1, <1>2, <1>3, WriteExchange, PollExchange, ReadExchange, SendExchange, ModuleExchange
  DEF Next, HostStep

\* A call that met a command counts as disturbed from its beginning.
LEMMA MetDisturbed == Spec => []MetIsDisturbed
<1>1. Init => MetIsDisturbed
  BY DEF Init, MetIsDisturbed
<1>2. MetIsDisturbed /\ [Next]_vars => MetIsDisturbed'
  <2> SUFFICES ASSUME MetIsDisturbed, [Next]_vars PROVE MetIsDisturbed'
    OBVIOUS
  <2>1. ASSUME NEW v, Return(v) PROVE MetIsDisturbed'
    BY <2>1 DEF Return, MetIsDisturbed
  <2>2. ASSUME NEW f, NEW w, NEW l, Begin(f, w, l) PROVE MetIsDisturbed'
    BY <2>2 DEF Begin, MetIsDisturbed
  <2>3. CASE UNCHANGED callVars
    BY <2>3 DEF callVars, MetIsDisturbed
  <2>4. CASE HostStep
    BY <2>1, <2>3, <2>4
    DEF HostStep, WriteCommand, PollStatus, ReadReturn, NoMemory, SendDivision, SendTail,
        GiveUp, TimedOut, Advance, AfterDivision
  <2>5. CASE ModuleStep
    BY <2>5 DEF ModuleStep, MetIsDisturbed
  <2>6. CASE UNCHANGED vars
    BY <2>3, <2>6 DEF vars, hostVars
  <2> QED BY <2>2, <2>4, <2>5, <2>6 DEF Next, CallLoad, CallAffine
<1> QED BY <1>1, <1>2, PTL DEF Spec

LEMMA ExchangeCorrect ==
  ASSUME PromptLatch
  PROVE  Spec => [](TypeInv /\ ExchangeInv /\ MetIsDisturbed)
BY InitType, NextType, InitExchange, NextExchange, MetDisturbed, PTL DEF Spec

\* imx500_res_read and imx500_res_write return the module's answer to the
\* command they wrote, in a call that met no command of an earlier call and no
\* restart, if a written command is latched within the millisecond before the
\* first poll.
THEOREM OwnReplies ==
  ASSUME PromptLatch
  PROVE  Spec => []ReplyIsOwn
<1>1. TypeInv /\ ExchangeInv /\ MetIsDisturbed => ReplyIsOwn
  BY DEF TypeInv, CallInv, ExchangeInv, Dropped, MetIsDisturbed, ReplyIsOwn
<1> QED BY <1>1, ExchangeCorrect, PTL

\* Under the same assumption, such a call writes a command only when the module
\* has none left to latch or to run.
THEOREM CommandsInTurn ==
  ASSUME PromptLatch
  PROVE  Spec => []OneAtATime
<1>1. TypeInv /\ ExchangeInv /\ MetIsDisturbed => OneAtATime
  BY DEF ExchangeInv, MetIsDisturbed, OneAtATime
<1> QED BY <1>1, ExchangeCorrect, PTL

\* The two together: the answers are the SDK's own and its commands in turn.
THEOREM CommandsAreOwn ==
  ASSUME PromptLatch
  PROVE  Spec => []OwnCommands
BY OwnReplies, CommandsInTurn, PTL DEF OwnCommands

-----------------------------------------------------------------------------
\* What a call has achieved

\* The module has answered the command the SDK waits for.
Answered ==
  \/ io = "return"
  \/ io = "poll" /\ inbox = None /\ running = None /\ status = FINISHED

\* A reply to an earlier download is still to come.
Late == reply # None /\ reply.own = FALSE

Terminal == {DONE, ERROR}
AllReplies == {READY, DONE, ERROR}

\* The order of a download's replies: READY, then one that ends it
RepliesInv ==
  /\ dl.phase \in {"prepared", "requested"} =>
       replied = {} /\ (reply = None \/ reply.own = FALSE)
  /\ dl.phase = "ready" =>
       \/ reply = None /\ replied = {READY}
       \/ reply # None /\ reply.own = TRUE /\ reply.sts = READY /\ replied = {}
  /\ dl.phase = "off" =>
       \/ reply = None /\ sts \in replied /\ sts \in Terminal
       \/ reply # None /\ reply.own = TRUE /\ reply.sts \in Terminal /\ replied \subseteq {READY}
  /\ DONE \in replied \/ (reply # None /\ reply.own = TRUE /\ reply.sts = DONE) =>
       installed = want

\* The replies that may still come before the next download
Outstanding ==
  (IF reply = None THEN 0 ELSE 1) +
  (IF dl.phase = "off" THEN 0 ELSE IF dl.phase = "ready" THEN 1 ELSE 2)

\* The counter, now c, was b some p replies ago, and n may still come; if none
\* came, only those of R are among the download's replies s.
Since(b, c, n, s, R) ==
  \E p \in 0..3 :
    /\ b \in 0..CntMod-1
    /\ c = IF b + p < CntMod THEN b + p ELSE b + p - CntMod
    /\ p + n <= 3
    /\ p = 0 => s \subseteq R

\* The counter since the script read it
CountInv ==
  /\ step = 2 /\ Answered => Since(value, cnt, Outstanding, replied, {})
  /\ step \in 3..7 => Since(locals.base, cnt, Outstanding, replied, {})
  /\ step = 8 /\ Answered => Since(value, cnt, Outstanding, replied, AllReplies)
  /\ step = 9 /\ ~(Answered /\ value = READY) =>
       Since(locals.base, cnt, Outstanding, replied, AllReplies)
  /\ step = 9 /\ Answered /\ value = READY =>
       Since(locals.base, cnt, Outstanding, replied, {READY})
  /\ step \in 10..11 => Since(locals.base, cnt, Outstanding, replied, {READY})

\* A late reply comes before the first wait ends.
LateInv ==
  Late => /\ step = 2 /\ Answered => value = cnt
          /\ step > 2 => locals.base = cnt
          /\ step < 7 \/ (step = 7 /\ ~Answered)

\* The reply that ends the script is one to this download.
StsInv ==
  /\ step > 9 \/ (step = 9 /\ Answered /\ value = READY) => sts = READY \/ sts \in replied
  /\ step = 13 /\ Answered /\ value = DONE => DONE \in replied

\* The download has the caller's type.
ParamInv ==
  /\ step < 6 \/ (step = 6 /\ ~Answered) => dl.phase = "prepared"
  /\ step > 3 \/ (step = 3 /\ Answered) => dl.type = want[1]

\* The download has the caller's data, in whole blocks, division by division.
DataInv ==
  /\ dl.fw \in {None, want[2]}
  /\ dl.got % Block = 0
  /\ step < 10 \/ io = "send" \/ (step = 10 /\ Answered /\ value # 1) => busy = FALSE

Regular == RepliesInv /\ CountInv /\ LateInv /\ StsInv /\ ParamInv /\ DataInv

\* The module restarted after the download was prepared.
Wiped ==
  /\ disturbed /\ dl.phase = "off" /\ reply = None /\ sts = READY
  /\ step = 13 /\ Answered => value = READY
  /\ step = 1 => io = "return"

LoadInv == op = "load" /\ ~met /\ (step > 1 \/ Answered) => Wiped \/ Regular

AffineInv ==
  op = "affine" /\ ~disturbed =>
    \A k \in 1..6 : k < step \/ (k = step /\ Answered) => affine[k] = want[k]

\* The type is passed on as the caller gave it.
PassedInv == op = "load" /\ step < 4 => locals.type = want[1]

EffectInv == LoadInv /\ PassedInv /\ AffineInv

-----------------------------------------------------------------------------
\* The script

\* Which command each step of load_imx500_fw writes, and with which argument
LEMMA LoadCommand ==
  ASSUME TypeInv, op = "load"
  PROVE  /\ step \in 1..13
         /\ Command.id = IF step = 10 THEN "DOWNLOAD_STS" ELSE LoadScript[step]
         /\ step = 3 => Command.arg = locals.type
         /\ step \in {7, 11} => Command.arg = locals.base
<1>1. step \in 1..13
  BY DEF TypeInv, TypeOK, CallTypeOK, Steps, LoadScript
<1>2. Id = IF step = 10 THEN "DOWNLOAD_STS" ELSE LoadScript[step]
  BY DEF Id, SendStep
<1>3. step = 3 => Argument = locals.type
  BY <1>2 DEF Argument, LoadScript
<1>4. step \in {7, 11} => Argument = locals.base
  BY <1>2 DEF Argument, LoadScript
<1> QED BY <1>1, <1>2, <1>3, <1>4 DEF Command

\* And so the steps at which the module runs a given command
LEMMA StepOfCommand ==
  ASSUME TypeInv, op = "load"
  PROVE  /\ step \in 1..13
         /\ Command.id = "PREPARE" => step = 1
         /\ Command.id = "BEFORE_1" <=> step = 3
         /\ Command.id \in {"BEFORE_2", "BEFORE_3"} => step \in {4, 5}
         /\ Command.id = "BEFORE_4" <=> step = 6
         /\ Command.id = "WAIT" <=> step \in {7, 11}
         /\ Command.id = "CNT" <=> step \in {2, 8, 12}
         /\ Command.id = "STS" <=> step \in {9, 13}
         /\ Command.id = "DOWNLOAD_STS" <=> step = 10
         /\ \A k \in 1..6 : Command.id # AffineIds[k]
<1>1. step \in 1..13 /\ Command.id = IF step = 10 THEN "DOWNLOAD_STS" ELSE LoadScript[step]
  BY LoadCommand
<1> QED BY <1>1 DEF LoadScript, AffineIds

\* A running command is the call's own, and not yet answered.
LEMMA RunningIsOwn ==
  ASSUME TypeInv, ExchangeInv, op # "idle", ~met, running # None
  PROVE  running = Command /\ inbox = None /\ io = "poll" /\ ~Answered /\ status = RUNNING
BY DEF ExchangeInv, Waiting, Dropped, Answered

-----------------------------------------------------------------------------
\* The reply counter

LEMMA SinceStart ==
  ASSUME NEW c \in 0..CntMod-1, NEW n, n <= 3, n \in Nat, NEW s, NEW R, s \subseteq R
  PROVE  Since(c, c, n, s, R)
<1>1. CntMod \in Nat
  BY CommandModuleAssumption
<1> QED BY <1>1 DEF Since

\* A reply that comes, when n + 1 were outstanding
LEMMA SincePublish ==
  ASSUME NEW b, NEW c \in 0..CntMod-1, NEW n \in Nat, NEW s, NEW R, NEW s2, NEW R2,
         Since(b, c, n + 1, s, R)
  PROVE  Since(b, (c + 1) % CntMod, n, s2, R2)
<1>1. CntMod \in Nat /\ CntMod > 3
  BY CommandModuleAssumption
<1>2. (c + 1) % CntMod = IF c + 1 < CntMod THEN c + 1 ELSE 0
  BY <1>1
<1>3. PICK p \in 0..3 :
        /\ b \in 0..CntMod-1
        /\ c = IF b + p < CntMod THEN b + p ELSE b + p - CntMod
        /\ p + (n + 1) <= 3
  BY DEF Since
<1> DEFINE d == (c + 1) % CntMod
<1>4. d = IF b + (p + 1) < CntMod THEN b + (p + 1) ELSE b + (p + 1) - CntMod
  BY <1>1, <1>2, <1>3
<1>5. p + 1 \in 0..3 /\ (p + 1) + n <= 3 /\ p + 1 # 0
  BY <1>3
<1> HIDE DEF d
<1>6. Since(b, d, n, s2, R2)
  BY <1>3, <1>4, <1>5 DEF Since
<1> QED BY <1>6 DEF d

\* Fewer replies outstanding, or fewer published
LEMMA SinceKept ==
  ASSUME NEW b, NEW c, NEW n \in Nat, NEW m \in Nat, m <= n, NEW s, NEW R, NEW R2,
         Since(b, c, n, s, R), s \subseteq R => s \subseteq R2
  PROVE  Since(b, c, m, s, R2)
<1>1. PICK p \in 0..3 :
        /\ b \in 0..CntMod-1
        /\ c = IF b + p < CntMod THEN b + p ELSE b + p - CntMod
        /\ p + n <= 3
        /\ p = 0 => s \subseteq R
  BY DEF Since
<1>2. p + m <= 3
  BY <1>1
<1> QED BY <1>1, <1>2 DEF Since

\* The counter is what it was: no reply has come.
LEMMA SinceSame ==
  ASSUME NEW c, NEW n, NEW s, NEW R, Since(c, c, n, s, R)
  PROVE  s \subseteq R
<1>1. CntMod \in Nat /\ CntMod > 3
  BY CommandModuleAssumption
<1>2. PICK p \in 0..3 :
        /\ c \in 0..CntMod-1
        /\ c = IF c + p < CntMod THEN c + p ELSE c + p - CntMod
        /\ p = 0 => s \subseteq R
  BY DEF Since
<1>3. p = 0
  BY <1>1, <1>2
<1> QED BY <1>2, <1>3

-----------------------------------------------------------------------------
\* What the SDK's steps keep of the download

\* Steps that leave the download alone
LEMMA LoadFrame ==
  ASSUME TypeInv, LoadInv,
         UNCHANGED <<ddVars, op, want, step, locals, met>>,
         disturbed => disturbed',
         Answered' => Answered /\ value' = value,
         step \in {6, 7, 9} => (Answered => Answered'),
         io' = "send" => io = "send",
         io = "return" /\ step = 1 => io' = "return"
  PROVE  LoadInv'
<1> SUFFICES ASSUME op = "load", ~met, (step > 1 \/ Answered)' PROVE (Wiped \/ Regular)'
  BY DEF LoadInv
<1> DEFINE a == Answered
           b == Answered'
<1>1. step > 1 \/ a
  OBVIOUS
<1>2. UNCHANGED <<dl, busy, reply, cnt, sts, replied, installed>>
  BY DEF ddVars
<1>3. Outstanding' = Outstanding
  BY <1>2 DEF Outstanding
<1>4. CASE Wiped
  BY <1>2, <1>4 DEF Wiped
<1>5. CASE Regular
  <2>1. RepliesInv'
    BY <1>2, <1>5 DEF Regular, RepliesInv
  <2>2. CountInv'
    BY <1>2, <1>3, <1>5 DEF Regular, CountInv
  <2>3. LateInv'
    BY <1>2, <1>5 DEF Regular, LateInv, Late
  <2>4. StsInv'
    BY <1>2, <1>5 DEF Regular, StsInv
  <2>5. ParamInv'
    BY <1>2, <1>5 DEF Regular, ParamInv
  <2>6. DataInv'
    BY <1>2, <1>5 DEF Regular, DataInv
  <2> QED BY <2>1, <2>2, <2>3, <2>4, <2>5, <2>6 DEF Regular
<1> QED BY <1>1, <1>4, <1>5 DEF LoadInv

LEMMA AffineFrame ==
  ASSUME TypeInv, AffineInv,
         UNCHANGED <<affine, op, want, step>>,
         disturbed => disturbed',
         Answered' => Answered
  PROVE  AffineInv'
BY DEF AffineInv

LEMMA PassedFrame ==
  ASSUME PassedInv, UNCHANGED <<op, want, step, locals>>
  PROVE  PassedInv'
BY DEF PassedInv

LEMMA ReturnEffect ==
  ASSUME NEW v, Return(v)
  PROVE  EffectInv'
BY DEF Return, EffectInv, LoadInv, PassedInv, AffineInv

LEMMA BeginEffect ==
  ASSUME TypeInv, NEW f, NEW w, NEW l, Begin(f, w, l), f = "load" => l.type = w[1]
  PROVE  EffectInv'
<1>1. step' = 1 /\ ~Answered'
  BY DEF Begin, TypeInv, CallInv, posVars, Answered
<1>2. PassedInv'
  BY DEF Begin, PassedInv
<1> QED BY <1>1, <1>2 DEF EffectInv, LoadInv, AffineInv

LEMMA WriteEffect ==
  TypeInv /\ ExchangeInv /\ EffectInv /\ WriteCommand => EffectInv'
<1> SUFFICES ASSUME TypeInv, ExchangeInv, EffectInv, WriteCommand PROVE EffectInv'
  OBVIOUS
<1>1. CASE GiveUp
  BY <1>1, ReturnEffect DEF GiveUp
<1>2. CASE /\ AcceptCommand(Command)
           /\ io' = "poll"
           /\ UNCHANGED <<step, locals, callVars>>
  <2>1. Command # None /\ op # "idle" /\ io = "write"
    BY CommandIsCommand DEF WriteCommand
  <2>2. ~Answered /\ ~Answered'
    BY <1>2, <2>1 DEF AcceptCommand, Answered
  <2>3. UNCHANGED <<ddVars, op, want, step, locals, met, disturbed, affine>>
    BY <1>2 DEF AcceptCommand, callVars
  <2>4. LoadInv'
    BY <1>2, <2>1, <2>2, <2>3, LoadFrame DEF EffectInv
  <2>5. AffineInv'
    BY <2>2, <2>3, AffineFrame DEF EffectInv
  <2> QED BY <2>3, <2>4, <2>5, PassedFrame DEF EffectInv
<1> QED BY <1>1, <1>2 DEF WriteCommand

LEMMA PollEffect ==
  ASSUME PromptLatch, TypeInv, ExchangeInv, MetIsDisturbed, EffectInv, PollStatus
  PROVE  EffectInv'
<1>1. CASE GiveUp
  BY <1>1, ReturnEffect DEF GiveUp
<1>2. CASE ~GiveUp
  <2>1. inbox = None /\ op # "idle" /\ io = "poll"
    BY DEF PollStatus, Slept
  <2>2. /\ UNCHANGED <<step, locals, callVars, devVars>>
        /\ io' = "poll" \/ (io' = "return" /\ status = FINISHED)
    BY <1>2, Zenon DEF PollStatus, TimedOut
  <2>3. UNCHANGED <<ddVars, op, want, step, locals, met, disturbed, affine, value>>
    BY <2>2 DEF callVars, devVars, commandVars
  <2>4. CASE met
    BY <2>3, <2>4, PassedFrame DEF EffectInv, LoadInv, AffineInv, MetIsDisturbed
  <2>5. CASE ~met
    <3>1. status = FINISHED => running = None
      BY <2>1, <2>5 DEF ExchangeInv, Waiting, FINISHED, RUNNING, Dropped
    <3>2. Answered' <=> Answered
      BY <2>1, <2>2, <3>1 DEF Answered, devVars, commandVars
    <3>3. LoadInv'
      BY <2>1, <2>2, <2>3, <3>2, LoadFrame DEF EffectInv
    <3>4. AffineInv'
      BY <2>3, <3>2, AffineFrame DEF EffectInv
    <3> QED BY <2>3, <3>3, <3>4, PassedFrame DEF EffectInv
  <2> QED BY <2>4, <2>5
<1> QED BY <1>1, <1>2

\* What the caller's variables are after the answer of each step
LEMMA LoadLocals ==
  ASSUME TypeInv, op = "load", NEW v \in Nat
  PROVE  /\ step \in {2, 8, 12} => Locals(v).base = v
         /\ step \notin {2, 7, 8, 11, 12} => Locals(v).base = locals.base
         /\ step \notin {3, 6} => Locals(v).type = locals.type
<1>1. step \in 1..13 /\ Id = IF step = 10 THEN "DOWNLOAD_STS" ELSE LoadScript[step]
  BY LoadCommand DEF Command
<1>2. locals \in [type : Nat, division : Nat, size : Nat, base : Nat]
  BY DEF TypeInv, TypeOK, CallTypeOK
<1> QED BY <1>1, <1>2 DEF Locals, LoadScript

LEMMA ReadEffect ==
  TypeInv /\ ExchangeInv /\ EffectInv /\ ReadReturn => EffectInv'
<1> SUFFICES ASSUME TypeInv, ExchangeInv, EffectInv, ReadReturn PROVE EffectInv'
  OBVIOUS
<1>1. CASE GiveUp \/ Return("ok")
  BY <1>1, ReturnEffect DEF GiveUp
<1>2. CASE ~(GiveUp \/ Return("ok"))
  <2>1. /\ io = "return" /\ op # "idle" /\ Answered /\ value \in Nat
        /\ UNCHANGED <<dl, busy, reply, cnt, sts, replied, installed, affine, value>>
        /\ UNCHANGED <<op, want, met, disturbed>>
    BY <1>2
    DEF ReadReturn, Answered, devVars, commandVars, ddVars, AfterDivision, Advance, callVars,
        TypeInv, TypeOK, CommandTypeOK
  <2>2. io' \in {"send", "write"} /\ ~Answered'
    BY <1>2 DEF ReadReturn, AfterDivision, Advance, Answered
  <2>3. Outstanding' = Outstanding
    BY <2>1 DEF Outstanding
  <2>4. CASE Id = "DOWNLOAD_STS" /\ AfterDivision(value)
    <3>1. op = "load" /\ step = 10 /\ step' = step /\ locals' = locals
      BY <2>1, <2>4, IdStep DEF AfterDivision, SendStep
    <3>2. io' = "send" => value # 1
      BY <2>4 DEF AfterDivision, Stored
    <3>3. LoadInv'
      BY <2>1, <2>2, <2>3, <3>1, <3>2
      DEF EffectInv, LoadInv, Wiped, Regular, RepliesInv, CountInv, LateInv, Late, StsInv,
          ParamInv, DataInv
    <3> QED BY <2>1, <3>1, <3>3 DEF EffectInv, PassedInv, AffineInv
  <2>5. CASE /\ Id # "DOWNLOAD_STS" /\ step < Steps
             /\ Id = "STS" => GoodReply(value)
             /\ Advance /\ locals' = Locals(value)
    <3>1. step' = step + 1 /\ (op = "load" /\ step' # 10 => io' = "write")
      BY <2>1, <2>5 DEF Advance, SendStep
    <3>2. CASE op = "affine"
      <4>1. step \in Nat /\ op' = "affine"
        BY <2>1, <3>2 DEF TypeInv, TypeOK, CallTypeOK, Steps
      <4>2. AffineInv'
        BY <2>1, <2>2, <3>1, <3>2, <4>1 DEF EffectInv, AffineInv
      <4> QED BY <3>2, <4>1, <4>2 DEF EffectInv, LoadInv, PassedInv
    <3>9. op = "load" => PassedInv'
      BY <2>1, <2>5, <3>1, LoadLocals, StepOfCommand DEF EffectInv, PassedInv
    <3>3. CASE op = "load" /\ ~met
      <4>1. step \in 1..12 /\ step # 10
        BY <2>1, <2>5, <3>3, IdStep, StepOfCommand DEF Steps, LoadScript, SendStep
      <4>2. step = 9 => value = READY
        BY <2>5, <3>3, LoadCommand DEF GoodReply, LoadScript, SendStep, Command
      <4>3. CASE Wiped
        BY <2>1, <2>2, <3>1, <3>3, <3>9, <4>1, <4>3 DEF Wiped, LoadInv, EffectInv, AffineInv
      <4>4. CASE Regular
        <5>1. RepliesInv'
          BY <2>1, <4>4 DEF Regular, RepliesInv
        <5>2. CountInv'
          BY <2>1, <2>2, <2>3, <2>5, <3>1, <3>3, <4>1, <4>2, <4>4, LoadLocals
          DEF Regular, CountInv
        <5>3. LateInv'
          BY <2>1, <2>2, <2>5, <3>1, <3>3, <4>1, <4>4, LoadLocals DEF Regular, LateInv, Late
        <5>4. StsInv'
          BY <2>1, <2>2, <3>1, <4>1, <4>2, <4>4 DEF Regular, StsInv
        <5>5. ParamInv'
          BY <2>1, <2>2, <2>5, <3>1, <3>3, <4>1, <4>4, LoadLocals DEF Regular, ParamInv
        <5>6. DataInv'
          BY <2>1, <2>2, <3>1, <3>3, <4>1, <4>4 DEF Regular, DataInv
        <5>7. Regular'
          BY <5>1, <5>2, <5>3, <5>4, <5>5, <5>6 DEF Regular
        <5> QED BY <2>1, <3>3, <3>9, <5>7 DEF LoadInv, EffectInv, AffineInv
      <4> QED BY <2>1, <3>3, <4>3, <4>4 DEF EffectInv, LoadInv
    <3>4. CASE op = "load" /\ met
      BY <2>1, <3>4, <3>9 DEF EffectInv, LoadInv, AffineInv
    <3>5. op \in {"load", "affine"}
      BY <2>1 DEF TypeInv, TypeOK, CallTypeOK
    <3> QED BY <3>2, <3>3, <3>4, <3>5
  <2> QED BY <1>2, <2>4, <2>5 DEF ReadReturn
<1> QED BY <1>1, <1>2

-----------------------------------------------------------------------------
\* Blocks: lengths that are multiples of b

LEMMA Quotient ==
  ASSUME NEW a \in Nat, NEW b \in Nat \ {0}
  PROVE  a = b * (a \div b) + (a % b) /\ a \div b \in Nat /\ a % b \in 0..b-1
  OBVIOUS

LEMMA Multiple ==
  ASSUME NEW k \in Nat, NEW b \in Nat \ {0}
  PROVE  (b * k) % b = 0
  OBVIOUS

LEMMA Remainder ==
  ASSUME NEW k \in Nat, NEW b \in Nat \ {0}, NEW t \in 0..b-1
  PROVE  (b * k + t) % b = t
  OBVIOUS

LEMMA Distribute ==
  ASSUME NEW p \in Nat, NEW q \in Nat, NEW b \in Nat
  PROVE  b * p + b * q = b * (p + q) /\ p + q \in Nat
  OBVIOUS

LEMMA SumOfMultiples ==
  ASSUME NEW a \in Nat, NEW n \in Nat, NEW b \in Nat \ {0}, a % b = 0, n % b = 0
  PROVE  (a + n) % b = 0
<1> DEFINE q == a \div b
           p == n \div b
<1>1. a = b * q /\ q \in Nat
  BY Quotient
<1>2. n = b * p /\ p \in Nat
  BY Quotient
<1> HIDE DEF q, p
<1>3. a + n = b * (q + p) /\ q + p \in Nat
  BY <1>1, <1>2, Distribute
<1> QED BY <1>3, Multiple

LEMMA MultiplePlus ==
  ASSUME NEW m \in Nat, NEW b \in Nat \ {0}, NEW r \in Nat
  PROVE  (b * m + r) % b = r % b
<1> DEFINE s == r \div b
           t == r % b
<1>1. r = b * s + t /\ s \in Nat /\ t \in 0..b-1
  BY Quotient
<1> HIDE DEF s, t
<1>2. b * m + r = b * (m + s) + t /\ m + s \in Nat
  BY <1>1, Distribute
<1> QED BY <1>1, <1>2, Remainder DEF t

\* The tail of a division, in blocks, is the tail of the image.
LEMMA RemainderOfRemainder ==
  ASSUME NEW a \in Nat, NEW d \in Nat \ {0}, NEW b \in Nat \ {0}, d % b = 0
  PROVE  (a % d) % b = a % b
<1> DEFINE q == a \div d
           p == d \div b
           r == a % d
<1>1. a = d * q + r /\ q \in Nat /\ r \in Nat
  BY Quotient
<1>2. d = b * p /\ p \in Nat
  BY Quotient
<1> HIDE DEF q, p, r
<1>3. a = b * (p * q) + r /\ p * q \in Nat
  BY <1>1, <1>2
<1> QED BY <1>1, <1>3, MultiplePlus DEF r

\* Padding fills the last block.
LEMMA Padded ==
  ASSUME NEW a \in Nat, NEW b \in Nat \ {0}
  PROVE  (a + (IF a % b = 0 THEN 0 ELSE b - (a % b))) % b = 0
<1> DEFINE q == a \div b
           r == a % b
<1>1. a = b * q + r /\ q \in Nat /\ r \in 0..b-1
  BY Quotient
<1> HIDE DEF q, r
<1>2. CASE r = 0
  BY <1>1, <1>2, Multiple DEF r
<1>3. CASE r # 0
  <2> DEFINE n == a + (b - r)
  <2>1. n = b * (q + 1) /\ q + 1 \in Nat
    BY <1>1
  <2> HIDE DEF n
  <2>2. n % b = 0
    BY <2>1, Multiple
  <2> QED BY <1>3, <2>2 DEF n, r
<1> QED BY <1>2, <1>3

\* The tail rp2350_send_fw_to_imx500_sspi sends is a number of whole blocks.
LEMMA TailInBlocks ==
  ASSUME NEW n \in Nat
  PROVE  /\ (n % Division) + Padding(n) \in Nat
         /\ ((n % Division) + Padding(n)) % Block = 0
<1> DEFINE t == n % Division
<1>1. Division \in Nat \ {0} /\ Block \in Nat \ {0} /\ Division % Block = 0
  BY CommandModuleAssumption
<1>2. t \in Nat /\ t % Block = n % Block
  <2>1. t \in 0..Division-1
    BY <1>1, Quotient
  <2>2. (n % Division) % Block = n % Block
    BY <1>1, RemainderOfRemainder
  <2> QED BY <1>1, <2>1, <2>2
<1>3. n % Block \in 0..Block-1
  BY <1>1, Quotient
<1> HIDE DEF t
<1>4. Padding(n) = IF t % Block = 0 THEN 0 ELSE Block - (t % Block)
  BY <1>2 DEF Padding
<1>5. Padding(n) \in Nat
  BY <1>1, <1>2, <1>3, <1>4
<1>6. (t + (IF t % Block = 0 THEN 0 ELSE Block - (t % Block))) % Block = 0
  BY <1>1, <1>2, Padded
<1>7. t + Padding(n) \in Nat
  BY <1>2, <1>5
<1> QED BY <1>4, <1>6, <1>7 DEF t

-----------------------------------------------------------------------------
\* The data

\* Whole blocks of the image, arrived or lost, leave whole blocks.
LEMMA WriteData ==
  ASSUME TypeInv, op = "load", NEW k, NEW n \in Nat, n % Block = 0, Write(k, n)
  PROVE  /\ UNCHANGED <<inbox, running, status, value, reply, cnt, sts, replied, installed, affine>>
         /\ dl'.phase = dl.phase /\ dl'.type = dl.type
         /\ dl.phase = "off" => dl' = dl
         /\ dl.fw \in {None, want[2]} => dl'.fw \in {None, want[2]}
         /\ dl.got % Block = 0 => dl'.got % Block = 0
<1>1. CASE UNCHANGED devVars
  BY <1>1 DEF devVars, commandVars, ddVars
<1>2. ASSUME NEW clean \in BOOLEAN, AcceptData(Image, k, n, clean)
      PROVE  /\ dl'.phase = dl.phase /\ dl'.type = dl.type
             /\ dl.phase = "off" => dl' = dl
             /\ dl.fw \in {None, want[2]} => dl'.fw \in {None, want[2]}
             /\ dl.got % Block = 0 => dl'.got % Block = 0
  <2>1. CASE dl.phase # "ready" \/ n = 0
    BY <1>2, <2>1 DEF AcceptData
  <2>2. CASE ~(dl.phase # "ready" \/ n = 0)
    <3> DEFINE intact == dl.intact /\ clean /\ ~busy /\ k = dl.got /\ dl.fw \in {None, Image}
               got == dl.got + n
    <3>1. dl' = [dl EXCEPT !.got = got, !.fw = Image, !.intact = intact]
      BY <1>2, <2>2 DEF AcceptData
    <3>2. dl.got % Block = 0 => got % Block = 0
      <4>1. dl.got \in Nat /\ Block \in Nat \ {0}
        BY CommandModuleAssumption DEF TypeInv, TypeOK, CommandTypeOK
      <4> QED BY <4>1, SumOfMultiples
    <3> HIDE DEF intact, got
    <3>3. /\ dl'.phase = dl.phase /\ dl'.type = dl.type /\ dl'.fw = Image /\ dl'.got = got
      BY <3>1 DEF TypeInv, TypeOK, CommandTypeOK
    <3> QED BY <2>2, <3>2, <3>3 DEF Image
  <2> QED BY <2>1, <2>2
<1>3. (\E clean \in BOOLEAN : AcceptData(Image, k, n, clean)) =>
        UNCHANGED <<inbox, running, status, value, reply, cnt, sts, replied, installed, affine>>
  BY DEF AcceptData, commandVars
<1> QED BY <1>1, <1>2, <1>3 DEF Write

LEMMA SendEffect ==
  TypeInv /\ EffectInv /\ (NoMemory \/ SendDivision \/ SendTail) => EffectInv'
<1> SUFFICES ASSUME TypeInv, EffectInv, NoMemory \/ SendDivision \/ SendTail
             PROVE  EffectInv'
  OBVIOUS
<1>1. CASE GiveUp
  BY <1>1, ReturnEffect DEF GiveUp
<1>2. CASE ~GiveUp
  <2>1. op = "load" /\ io = "send" /\ step = 10 /\ ~Answered /\ io' = "write" /\ ~Answered'
    BY <1>2
    DEF NoMemory, SendDivision, SendTail, Advance, Answered, TypeInv, CallInv, SendStep
  <2>2. step' \in {10, 11} /\ UNCHANGED <<locals, op, want, met, disturbed>>
    BY <1>2, <2>1 DEF NoMemory, SendDivision, SendTail, Advance, callVars
  <2>3. \E k : \E n \in Nat : n % Block = 0 /\ Write(k, n)
    <3>1. CASE SendDivision
      <4> DEFINE k == sent * Division
      <4>1. Write(k, Division)
        BY <1>2, <3>1 DEF SendDivision
      <4>2. Division \in Nat /\ Division % Block = 0
        BY CommandModuleAssumption
      <4> HIDE DEF k
      <4> QED BY <4>1, <4>2
    <3>2. CASE SendTail
      <4> DEFINE k == sent * Division
                 n == (locals.size % Division) + Padding(locals.size)
      <4>1. locals.size \in Nat
        BY DEF TypeInv, TypeOK, CallTypeOK
      <4>2. n \in Nat /\ n % Block = 0
        BY <4>1, TailInBlocks
      <4>3. Write(k, n)
        BY <1>2, <3>2 DEF SendTail
      <4> HIDE DEF k, n
      <4> QED BY <4>2, <4>3
    <3> QED BY <1>2, <3>1, <3>2 DEF NoMemory
  <2>4. /\ UNCHANGED <<value, reply, cnt, sts, replied, installed, affine>>
        /\ dl'.phase = dl.phase /\ dl'.type = dl.type
        /\ dl.fw \in {None, want[2]} => dl'.fw \in {None, want[2]}
        /\ dl.got % Block = 0 => dl'.got % Block = 0
    BY <2>1, <2>3, WriteData
  <2>5. Outstanding' = Outstanding
    BY <2>4 DEF Outstanding
  <2>6. LoadInv'
    BY <2>1, <2>2, <2>4, <2>5
    DEF EffectInv, LoadInv, Wiped, Regular, RepliesInv, CountInv, LateInv, Late, StsInv,
        ParamInv, DataInv
  <2> QED BY <2>1, <2>2, <2>6 DEF EffectInv, PassedInv, AffineInv
<1> QED BY <1>1, <1>2

-----------------------------------------------------------------------------
\* The module's steps

LEMMA ModuleAffine ==
  ASSUME TypeInv, ExchangeInv, MetIsDisturbed, EffectInv, ModuleStep
  PROVE  AffineInv'
<1> SUFFICES ASSUME op = "affine", ~disturbed' PROVE AffineInv'
  BY DEF AffineInv, ModuleStep
<1>1. /\ UNCHANGED <<op, want, step, io>> /\ ~disturbed /\ ~met
      /\ DevNext /\ resets' = resets /\ disturbed' = disturbed /\ step \in 1..6
  BY DEF ModuleStep, posVars, MetIsDisturbed, TypeInv, TypeOK, CallTypeOK, Steps
<1>2. Command.id = AffineIds[step] /\ Command.arg = want[step]
  <2>1. Id = AffineIds[step]
    BY DEF Id
  <2>2. Id \notin {"BEFORE_1", "BEFORE_2", "BEFORE_3", "BEFORE_4", "WAIT"}
    BY <1>1, <2>1 DEF AffineIds
  <2>3. Argument = want[step]
    BY <2>2 DEF Argument
  <2> QED BY <2>1, <2>3 DEF Command
<1>3. running # None => running = Command /\ ~Answered
  BY <1>1, RunningIsOwn
<1>4. CASE UNCHANGED <<commandVars, affine>>
  <2>1. Answered' = Answered
    BY <1>1, <1>4 DEF Answered, commandVars
  <2> QED BY <1>1, <1>4, <2>1, AffineFrame DEF EffectInv
<1>5. CASE Latch
  <2>1. io # "return" /\ running' # None /\ affine' = affine
    BY <1>1, <1>5 DEF Latch, ExchangeInv, Waiting, Dropped
  <2>2. ~Answered'
    BY <1>1, <2>1 DEF Answered
  <2> QED BY <1>1, <2>1, <2>2, AffineFrame DEF EffectInv
<1>6. CASE Refuse
  <2>1. affine' = affine /\ status' # FINISHED /\ running # None
    BY <1>6 DEF Refuse, End, FINISHED, NOT_EFFECTIVE, RUN_FAILED
  <2>2. io = "poll"
    BY <1>1, <2>1, RunningIsOwn
  <2>3. ~Answered'
    BY <1>1, <2>1, <2>2 DEF Answered
  <2> QED BY <1>1, <2>1, <2>3, AffineFrame DEF EffectInv
<1>7. CASE SetCoefficient
  <2>1. PICK k \in 1..6 : Is(AffineIds[k]) /\ affine' = [affine EXCEPT ![k] = running.arg]
    BY <1>7 DEF SetCoefficient
  <2>2. k = step
    BY <1>1, <1>2, <1>3, <2>1 DEF Is, AffineIds
  <2>3. affine' = [affine EXCEPT ![step] = want[step]] /\ affine \in [1..6 -> Nat]
    BY <1>2, <1>3, <2>1, <2>2 DEF Is, TypeInv, TypeOK, CommandTypeOK
  <2>4. \A j \in 1..6 : j < step => affine'[j] = affine[j]
    BY <1>1, <2>3
  <2>5. affine'[step] = want[step]
    BY <1>1, <2>3
  <2> QED BY <1>1, <2>4, <2>5 DEF EffectInv, AffineInv
<1>8. CASE Prepare \/ SetParameter \/ CountChanged \/ Tick
  <2>1. running # None /\ running.id \in Setters \cup {"PREPARE", "WAIT", "CNT", "STS", "DOWNLOAD_STS"}
    BY <1>8 DEF Prepare, SetParameter, CountChanged, Tick, Is
  <2> QED BY <1>1, <1>2, <1>3, <2>1 DEF AffineIds, Setters
<1>9. CASE DownloadReady \/ DownloadDone \/ DownloadFailed \/ Publish \/ DivisionStored
  <2>1. UNCHANGED <<commandVars, affine>>
    BY <1>9 DEF DownloadReady, DownloadDone, DownloadFailed, Publish, DivisionStored
  <2> QED BY <1>4, <2>1
<1>10. CASE Restart
  BY <1>1, <1>10, CommandModuleAssumption DEF Restart, TypeInv, TypeOK, CommandTypeOK
<1> QED BY <1>1, <1>5, <1>6, <1>7, <1>8, <1>9, <1>10 DEF DevNext

\* At most three replies: a late one, and the two of the download
LEMMA OutstandingBound ==
  ASSUME TypeInv
  PROVE  Outstanding \in 0..3
BY DEF Outstanding, TypeInv, TypeOK, CommandTypeOK

\* A command ends, and the download stays as it is.
LEMMA EndedLoad ==
  ASSUME TypeInv, ExchangeInv, EffectInv, ModuleStep, op = "load", ~met,
         CountChanged \/ Tick
  PROVE  LoadInv'
<1>1. /\ UNCHANGED <<op, want, step, io, locals, met, dl, busy, reply, cnt, sts, replied, installed>>
      /\ disturbed => disturbed'
  BY DEF ModuleStep, posVars, CountChanged, Tick, ddVars
<1>2. running # None
  BY DEF CountChanged, Tick, Is
<1>3. running = Command /\ inbox = None /\ io = "poll" /\ ~Answered
  BY <1>2, RunningIsOwn
<1>4. step \in {2, 7, 8, 9, 10, 11, 12, 13}
  BY <1>2, <1>3, StepOfCommand DEF CountChanged, Tick, Is
<1>5. /\ step \in {2, 8, 12} => value' = cnt
      /\ step \in {9, 13} => value' = sts
      /\ step = 10 => value' = IF busy = TRUE THEN 1 ELSE 0
  BY <1>3, <1>4, StepOfCommand DEF CountChanged, Tick, Is, End
<1>6. step = 7 => cnt # locals.base
  BY <1>3, StepOfCommand, LoadCommand DEF CountChanged, Tick, Is
<1>7. Answered'
  BY <1>1, <1>2, <1>3 DEF CountChanged, Tick, End, Answered
<1>8. Outstanding' = Outstanding /\ Outstanding \in 0..3
  BY <1>1, OutstandingBound DEF Outstanding
<1>9. cnt \in 0..CntMod-1 /\ replied \subseteq AllReplies /\ busy \in BOOLEAN
  BY DEF TypeInv, TypeOK, CommandTypeOK, AllReplies
<1>10. CASE Wiped
  <2>1. Wiped'
    BY <1>1, <1>4, <1>5, <1>10 DEF Wiped
  <2> QED BY <2>1 DEF LoadInv
<1>11. CASE Regular
  <2>1. RepliesInv'
    BY <1>1, <1>11 DEF Regular, RepliesInv
  <2>2. CountInv'
    <3>1. step = 2 => Since(cnt, cnt, Outstanding, replied, {})
      <4>1. SUFFICES ASSUME step = 2 PROVE Since(cnt, cnt, Outstanding, replied, {})
        OBVIOUS
      <4>2. dl.phase = "prepared"
        BY <1>11, <4>1 DEF Regular, ParamInv
      <4>3. replied \subseteq {}
        BY <1>11, <4>2 DEF Regular, RepliesInv
      <4>4. Outstanding \in Nat /\ Outstanding <= 3
        BY <1>8
      <4> QED BY <1>9, <4>3, <4>4, SinceStart
    <3>2. step = 8 => Since(cnt, cnt, Outstanding, replied, AllReplies)
      <4>1. Outstanding \in Nat /\ Outstanding <= 3
        BY <1>8
      <4> QED BY <1>9, <4>1, SinceStart
    <3>3. step = 9 /\ sts = READY => replied \subseteq {READY}
      BY <1>11 DEF Regular, RepliesInv, Terminal, READY, DONE, ERROR, TypeInv, TypeOK, CommandTypeOK
    <3>4. step = 9 => Since(locals.base, cnt, Outstanding, replied, AllReplies)
      BY <1>3, <1>11 DEF Regular, CountInv
    <3>5. step = 9 /\ sts = READY => Since(locals.base, cnt, Outstanding, replied, {READY})
      BY <1>8, <3>3, <3>4, SinceKept
    <3> QED BY <1>1, <1>3, <1>4, <1>5, <1>7, <1>8, <1>11, <3>1, <3>2, <3>4, <3>5 DEF Regular, CountInv
  <2>3. LateInv'
    BY <1>1, <1>3, <1>4, <1>5, <1>6, <1>11 DEF Regular, LateInv, Late
  <2>4. StsInv'
    BY <1>1, <1>3, <1>4, <1>5, <1>11 DEF Regular, StsInv, READY, DONE
  <2>5. ParamInv'
    BY <1>1, <1>3, <1>4, <1>11 DEF Regular, ParamInv
  <2>6. DataInv'
    BY <1>1, <1>3, <1>4, <1>5, <1>9, <1>11 DEF Regular, DataInv
  <2>7. Regular'
    BY <2>1, <2>2, <2>3, <2>4, <2>5, <2>6 DEF Regular
  <2> QED BY <2>7 DEF LoadInv
<1> QED BY <1>4, <1>10, <1>11 DEF EffectInv, LoadInv

\* PREPARE begins the download anew.
LEMMA PrepareLoad ==
  ASSUME TypeInv, ExchangeInv, EffectInv, ModuleStep, op = "load", ~met, Prepare
  PROVE  LoadInv'
<1>1. /\ UNCHANGED <<op, want, step, io, locals, met>>
  BY DEF ModuleStep, posVars
<1>2. running # None
  BY DEF Prepare, Is
<1>3. running = Command
  BY <1>2, RunningIsOwn
<1>4. step = 1
  BY <1>3, StepOfCommand DEF Prepare, Is
<1>5. /\ dl' = Download("prepared") /\ busy' = FALSE /\ replied' = {}
      /\ reply' = None \/ reply'.own = FALSE
  BY DEF Prepare, TypeInv, TypeOK, CommandTypeOK
<1>6. 0 % Block = 0
  BY CommandModuleAssumption
<1>7. RepliesInv'
  BY <1>5 DEF RepliesInv, Download
<1>8. CountInv' /\ LateInv' /\ StsInv' /\ ParamInv'
  BY <1>1, <1>4, <1>5 DEF CountInv, LateInv, StsInv, ParamInv, Download
<1>9. DataInv'
  BY <1>1, <1>4, <1>5, <1>6 DEF DataInv, Download
<1>10. Regular'
  BY <1>7, <1>8, <1>9 DEF Regular
<1> QED BY <1>10 DEF LoadInv

\* The parameters
LEMMA ParameterLoad ==
  ASSUME TypeInv, ExchangeInv, EffectInv, ModuleStep, op = "load", ~met, SetParameter
  PROVE  LoadInv'
<1>1. /\ UNCHANGED <<op, want, step, io, locals, met, busy, reply, cnt, sts, replied, installed>>
      /\ disturbed => disturbed'
  BY DEF ModuleStep, posVars, SetParameter
<1>2. running = Command /\ inbox = None /\ io = "poll" /\ ~Answered
  BY RunningIsOwn DEF SetParameter
<1>3. step \in 3..6 /\ (running.id = "BEFORE_1" <=> step = 3) /\ (running.id = "BEFORE_4" <=> step = 6)
  BY <1>2, StepOfCommand DEF SetParameter, Setters
<1>4. running.arg \in Nat /\ (step = 3 => running.arg = want[1])
  BY <1>2, LoadCommand DEF SetParameter, TypeInv, TypeOK, CommandTypeOK, Commands, EffectInv, PassedInv
<1>5. Answered'
  BY <1>1, <1>2 DEF SetParameter, End, Answered
<1>6. CASE Wiped
  <2>1. dl' = dl
    BY <1>6 DEF SetParameter, Wiped
  <2>2. Wiped'
    BY <1>1, <1>3, <1>6, <2>1 DEF Wiped
  <2> QED BY <2>2 DEF LoadInv
<1>7. CASE Regular
  <2>1. dl.phase = "prepared"
    BY <1>2, <1>3, <1>7 DEF Regular, ParamInv
  <2>2. dl' = CASE running.id = "BEFORE_1" -> [dl EXCEPT !.type = running.arg]
                [] running.id = "BEFORE_2" -> dl
                [] running.id = "BEFORE_3" -> [dl EXCEPT !.size = running.arg]
                [] running.id = "BEFORE_4" -> [dl EXCEPT !.phase = "requested"]
    BY <2>1 DEF SetParameter
  <2>3. running.id \in Setters /\ dl \in [phase : {"off", "prepared", "requested", "ready"}, type : Nat,
             size : Nat, fw : Fws \cup {None}, got : Nat, intact : BOOLEAN]
    BY DEF SetParameter, TypeInv, TypeOK, CommandTypeOK
  <2>4. /\ dl'.phase = IF step = 6 THEN "requested" ELSE "prepared"
        /\ dl'.type = IF step = 3 THEN want[1] ELSE dl.type
        /\ dl'.fw = dl.fw /\ dl'.got = dl.got
    BY <1>3, <1>4, <2>1, <2>2, <2>3 DEF Setters
  <2>5. Outstanding' = Outstanding
    BY <1>1, <2>1, <2>4 DEF Outstanding
  <2>6. RepliesInv'
    BY <1>1, <1>7, <2>1, <2>4 DEF Regular, RepliesInv
  <2>7. CountInv'
    BY <1>1, <1>3, <1>7, <2>5 DEF Regular, CountInv
  <2>8. LateInv' /\ StsInv'
    BY <1>1, <1>3, <1>7 DEF Regular, LateInv, Late, StsInv
  <2>9. ParamInv'
    BY <1>1, <1>2, <1>3, <1>5, <1>7, <2>4 DEF Regular, ParamInv
  <2>10. DataInv'
    BY <1>1, <1>3, <1>7, <2>4 DEF Regular, DataInv
  <2>11. Regular'
    BY <2>6, <2>7, <2>8, <2>9, <2>10 DEF Regular
  <2> QED BY <2>11 DEF LoadInv
<1> QED BY <1>3, <1>6, <1>7 DEF EffectInv, LoadInv

\* The DD gets on with the download.
LEMMA ProgressLoad ==
  ASSUME TypeInv, EffectInv, ModuleStep, op = "load", ~met,
         DownloadReady \/ DownloadDone \/ DownloadFailed
  PROVE  LoadInv'
<1>1. /\ UNCHANGED <<op, want, step, io, locals, met, busy, cnt, sts, replied>>
      /\ UNCHANGED commandVars
      /\ disturbed => disturbed'
  BY DEF ModuleStep, posVars, DownloadReady, DownloadDone, DownloadFailed
<1>2. Answered' = Answered /\ value' = value
  BY <1>1 DEF Answered, commandVars
<1>3. /\ reply = None /\ reply' # None /\ reply'.own = TRUE
      /\ dl.phase \in {"requested", "ready"} /\ step \in 1..13
  <2>1. PICK code \in {READY, DONE, ERROR} : NewReply(code)
    BY DEF DownloadReady, DownloadDone, DownloadFailed
  <2>2. [sts |-> code, own |-> TRUE] \in [sts : {READY, DONE, ERROR}, own : BOOLEAN]
    BY <2>1
  <2>3. reply = None /\ reply' # None /\ reply'.own = TRUE
    BY <2>1, <2>2, NoCommandAssumption DEF NewReply
  <2> QED BY <2>3, StepOfCommand DEF DownloadReady, DownloadDone, DownloadFailed
<1>4. CASE ~(step > 1 \/ Answered)
  BY <1>1, <1>2, <1>4 DEF LoadInv
<1>5. CASE Wiped
  BY <1>3, <1>5 DEF Wiped
<1>6. CASE Regular
  <2>1. dl \in [phase : {"off", "prepared", "requested", "ready"}, type : Nat,
                size : Nat, fw : Fws \cup {None}, got : Nat, intact : BOOLEAN]
    BY DEF TypeInv, TypeOK, CommandTypeOK
  <2>2. /\ dl'.type = dl.type /\ dl'.fw = dl.fw /\ dl'.got = dl.got
        /\ \/ DownloadReady /\ dl'.phase = "ready" /\ reply'.sts = READY /\ dl.phase = "requested"
           \/ dl'.phase = "off" /\ reply'.sts \in Terminal
    BY <2>1 DEF DownloadReady, DownloadDone, DownloadFailed, NewReply, Terminal
  <2>3. replied \subseteq {READY}
    BY <1>3, <1>6 DEF Regular, RepliesInv
  <2>4. reply'.sts = DONE => installed' = want
    <3>1. CASE DownloadDone
      <4>1. step > 3 /\ dl.fw # None
        BY <1>3, <1>6, <3>1 DEF Regular, ParamInv, DownloadDone
      <4>2. dl.type = want[1] /\ dl.fw = want[2]
        BY <1>6, <4>1 DEF Regular, ParamInv, DataInv
      <4>3. want = <<want[1], want[2]>>
        BY DEF TypeInv, CallInv
      <4> QED BY <3>1, <4>2, <4>3 DEF DownloadDone
    <3>2. CASE DownloadReady \/ DownloadFailed
      BY <3>2 DEF DownloadReady, DownloadFailed, NewReply, READY, DONE, ERROR
    <3> QED BY <3>1, <3>2
  <2>5. Outstanding' \in Nat /\ Outstanding \in Nat /\ Outstanding' <= Outstanding
    BY <1>3, <2>2 DEF Outstanding
  <2>6. RepliesInv'
    BY <1>1, <1>3, <1>6, <2>2, <2>3, <2>4 DEF RepliesInv, READY, DONE, Regular
  <2>7. CountInv'
    <3>1. \A b, R : Since(b, cnt, Outstanding, replied, R)
                      => Since(b, cnt, Outstanding', replied, R)
      BY <2>5, SinceKept
    <3> QED BY <1>1, <1>2, <1>6, <3>1 DEF Regular, CountInv
  <2>8. LateInv' /\ StsInv'
    BY <1>1, <1>2, <1>3, <1>6 DEF Regular, LateInv, Late, StsInv
  <2>9. ParamInv' /\ DataInv'
    BY <1>1, <1>2, <1>3, <1>6, <2>2 DEF Regular, ParamInv, DataInv
  <2>10. Regular'
    BY <2>6, <2>7, <2>8, <2>9 DEF Regular
  <2> QED BY <2>10 DEF LoadInv
<1> QED BY <1>4, <1>5, <1>6 DEF EffectInv, LoadInv

\* A reply shows.
LEMMA PublishLoad ==
  ASSUME TypeInv, EffectInv, ModuleStep, op = "load", ~met, Publish
  PROVE  LoadInv'
<1>1. /\ UNCHANGED <<op, want, step, io, locals, met, busy, dl, installed>>
      /\ UNCHANGED commandVars
      /\ disturbed => disturbed'
  BY DEF ModuleStep, posVars, Publish
<1>2. Answered' = Answered /\ value' = value
  BY <1>1 DEF Answered, commandVars
<1>3. /\ reply # None /\ reply' = None /\ reply.own \in BOOLEAN /\ reply.sts \in AllReplies
      /\ step \in 1..13
  BY StepOfCommand DEF Publish, TypeInv, TypeOK, CommandTypeOK, AllReplies
<1>4. CASE ~(step > 1 \/ Answered)
  BY <1>1, <1>2, <1>4 DEF LoadInv
<1>5. CASE Wiped
  BY <1>3, <1>5 DEF Wiped
<1>6. CASE Regular
  <2>1. /\ cnt' = (cnt + 1) % CntMod /\ sts' = reply.sts
        /\ replied' = IF reply.own = TRUE THEN replied \cup {reply.sts} ELSE replied
    BY <1>3 DEF Publish
  <2>2. Outstanding = Outstanding' + 1 /\ Outstanding' \in Nat /\ cnt \in 0..CntMod-1
    BY <1>1, <1>3 DEF Outstanding, TypeInv, TypeOK, CommandTypeOK
  <2>3. RepliesInv'
    BY <1>1, <1>3, <1>6, <2>1 DEF Regular, RepliesInv, Terminal, READY, DONE, ERROR
  <2>4. CountInv'
    <3>1. \A b, R, R2 : Since(b, cnt, Outstanding, replied, R)
                          => Since(b, cnt', Outstanding', replied', R2)
      <4>1. SUFFICES ASSUME NEW b, NEW R, NEW R2, Since(b, cnt, Outstanding' + 1, replied, R)
                     PROVE  Since(b, (cnt + 1) % CntMod, Outstanding', replied', R2)
        BY <2>1, <2>2
      <4> QED BY <2>2, <4>1, SincePublish
    <3> QED BY <1>1, <1>2, <1>6, <3>1 DEF Regular, CountInv
  <2>5. LateInv'
    BY <1>3 DEF LateInv, Late
  <2>6. StsInv'
    <3>1. step > 8 => reply.own = TRUE
      BY <1>3, <1>6 DEF Regular, LateInv, Late
    <3> QED BY <1>1, <1>2, <1>3, <1>6, <2>1, <3>1 DEF Regular, StsInv
  <2>7. ParamInv' /\ DataInv'
    BY <1>1, <1>2, <1>6 DEF Regular, ParamInv, DataInv
  <2>8. Regular'
    BY <2>3, <2>4, <2>5, <2>6, <2>7 DEF Regular
  <2> QED BY <2>8 DEF LoadInv
<1> QED BY <1>4, <1>5, <1>6 DEF EffectInv, LoadInv

LEMMA StoredLoad ==
  ASSUME TypeInv, EffectInv, ModuleStep, op = "load", ~met, DivisionStored
  PROVE  LoadInv'
<1>1. /\ UNCHANGED <<op, want, step, io, locals, met, dl, reply, cnt, sts, replied, installed>>
      /\ UNCHANGED commandVars
      /\ disturbed => disturbed'
      /\ busy' = FALSE
  BY DEF ModuleStep, posVars, DivisionStored
<1>2. Answered' = Answered /\ value' = value /\ Outstanding' = Outstanding
  BY <1>1 DEF Answered, commandVars, Outstanding
<1> QED
  BY <1>1, <1>2
  DEF EffectInv, LoadInv, Wiped, Regular, RepliesInv, CountInv, LateInv, Late, StsInv, ParamInv,
      DataInv

\* A restart leaves no download.
LEMMA RestartLoad ==
  ASSUME TypeInv, ModuleStep, op = "load", Restart
  PROVE  LoadInv'
<1>0. resets' # resets
  BY CommandModuleAssumption DEF Restart, TypeInv, TypeOK, CommandTypeOK
<1>1. UNCHANGED <<step, io>> /\ disturbed'
  BY <1>0 DEF ModuleStep, posVars
<1>2. status' = NOT_EFFECTIVE /\ value' = 0 /\ reply' = None /\ sts' = READY /\ dl' = Download("off")
  BY DEF Restart, PowerOn
<1>3. Answered' => io' = "return"
  BY <1>2 DEF Answered, NOT_EFFECTIVE, FINISHED
<1>4. step' \in 1..13
  BY <1>1, StepOfCommand
<1>5. step' > 1 \/ Answered' => Wiped'
  BY <1>1, <1>2, <1>3, <1>4 DEF Wiped, Download, READY
<1> QED BY <1>5 DEF LoadInv

LEMMA ModuleEffect ==
  ASSUME TypeInv, ExchangeInv, MetIsDisturbed, EffectInv, ModuleStep
  PROVE  EffectInv'
<1>1. AffineInv'
  BY ModuleAffine
<1>2. /\ UNCHANGED <<op, want, step, io, locals, met>> /\ DevNext
      /\ disturbed => disturbed'
  BY DEF ModuleStep, posVars
<1>3. PassedInv'
  BY <1>2, PassedFrame DEF EffectInv
<1>4. ASSUME op = "load", ~met PROVE LoadInv'
  <2>1. CASE Latch
    <3>1. io = "poll" /\ running' # None /\ inbox # None /\ UNCHANGED <<ddVars, value>>
      BY <1>4, <2>1 DEF Latch, ExchangeInv, Waiting, Dropped
    <3>2. ~Answered /\ ~Answered'
      BY <1>2, <3>1 DEF Answered
    <3> QED BY <1>2, <3>1, <3>2, LoadFrame DEF EffectInv
  <2>2. CASE Refuse
    <3>1. status' # FINISHED /\ running # None /\ UNCHANGED ddVars
      BY <2>2 DEF Refuse, End, FINISHED, NOT_EFFECTIVE, RUN_FAILED
    <3>2. ~Answered /\ io = "poll"
      BY <1>4, <3>1, RunningIsOwn
    <3>3. ~Answered'
      BY <1>2, <3>1, <3>2 DEF Answered
    <3> QED BY <1>2, <3>1, <3>2, <3>3, LoadFrame DEF EffectInv
  <2>3. CASE SetCoefficient
    <3>1. PICK k \in 1..6 : running # None /\ running.id = AffineIds[k]
      BY <2>3 DEF SetCoefficient, Is
    <3>2. running = Command
      BY <1>4, <3>1, RunningIsOwn
    <3> QED BY <1>4, <3>1, <3>2, StepOfCommand
  <2> QED
    BY <1>2, <1>4, <2>1, <2>2, <2>3, PrepareLoad, ParameterLoad, EndedLoad, ProgressLoad,
       PublishLoad, StoredLoad, RestartLoad
    DEF DevNext
<1>5. ASSUME op # "load" \/ met PROVE LoadInv'
  BY <1>2, <1>5 DEF LoadInv
<1> QED BY <1>1, <1>3, <1>4, <1>5 DEF EffectInv

-----------------------------------------------------------------------------
\* The theorems

LEMMA InitEffect == Init => EffectInv
BY DEF Init, EffectInv, LoadInv, PassedInv, AffineInv

LEMMA NextEffect ==
  ASSUME PromptLatch
  PROVE  TypeInv /\ ExchangeInv /\ MetIsDisturbed /\ EffectInv /\ [Next]_vars => EffectInv'
<1> SUFFICES ASSUME TypeInv, ExchangeInv, MetIsDisturbed, EffectInv, [Next]_vars
             PROVE  EffectInv'
  OBVIOUS
<1>1. ASSUME NEW f \in Fws, NEW t \in Types, CallLoad(f, t) PROVE EffectInv'
  <2> DEFINE l == [type |-> t, division |-> Size[f] \div Division, size |-> Size[f], base |-> 0]
  <2>1. Begin("load", <<t, f>>, l) /\ l.type = <<t, f>>[1]
    BY <1>1 DEF CallLoad
  <2> HIDE DEF l
  <2> QED BY <2>1, BeginEffect
<1>2. ASSUME NEW r \in Rects, CallAffine(r) PROVE EffectInv'
  <2>1. Begin("affine", r, NoLocals)
    BY <1>2 DEF CallAffine
  <2> QED BY <2>1, BeginEffect
<1>3. CASE UNCHANGED vars
  <2>1. /\ UNCHANGED <<ddVars, op, want, step, io, locals, met, disturbed, affine, value>>
        /\ Answered' = Answered
    BY <1>3 DEF vars, hostVars, callVars, posVars, devVars, commandVars, Answered
  <2>2. LoadInv'
    BY <2>1, LoadFrame DEF EffectInv
  <2>3. AffineInv'
    BY <2>1, AffineFrame DEF EffectInv
  <2> QED BY <2>1, <2>2, <2>3, PassedFrame DEF EffectInv
<1> QED
  BY <1>1, <1>2, <1>3, WriteEffect, PollEffect, ReadEffect, SendEffect, ModuleEffect
  DEF Next, HostStep

LEMMA EffectCorrect ==
  ASSUME PromptLatch
  PROVE  Spec => [](TypeInv /\ ExchangeInv /\ MetIsDisturbed /\ EffectInv)
BY ExchangeCorrect, InitEffect, NextEffect, PTL DEF Spec

\* What has been forwarded of whole blocks is all of them.
LEMMA AllForwarded ==
  ASSUME TypeInv, dl.got % Block = 0
  PROVE  Forwarded = dl.got
<1> DEFINE q == dl.got \div Block
<1>1. dl.got \in Nat /\ Block \in Nat \ {0}
  BY CommandModuleAssumption DEF TypeInv, TypeOK, CommandTypeOK
<1>2. dl.got = Block * q + (dl.got % Block) /\ q \in Nat
  BY <1>1, Quotient
<1>3. q * Block = dl.got
  <2> HIDE DEF q
  <2> QED BY <1>1, <1>2
<1> QED BY <1>3 DEF Forwarded

LEMMA EffectImages ==
  ASSUME TypeInv, ExchangeInv, MetIsDisturbed, EffectInv
  PROVE  ImagesWhole
<1>1. NoReplyMissed
  <2> SUFFICES ASSUME op = "load", io = "poll", Id = "WAIT", ~disturbed,
                      running = Command, running.arg = cnt
               PROVE  replied \subseteq (IF step < SendStep THEN {} ELSE {READY})
    BY DEF NoReplyMissed
  <2>1. step \in {7, 11} /\ cnt = locals.base
    BY StepOfCommand, LoadCommand DEF Command
  <2>2. Regular
    BY <2>1 DEF EffectInv, LoadInv, Wiped, MetIsDisturbed
  <2>3. step = 7 => Since(cnt, cnt, Outstanding, replied, {})
    BY <2>1, <2>2 DEF Regular, CountInv
  <2>4. step = 11 => Since(cnt, cnt, Outstanding, replied, {READY})
    BY <2>1, <2>2 DEF Regular, CountInv
  <2> QED BY <2>1, <2>3, <2>4, SinceSame DEF SendStep
<1>2. NoDivisionLost
  <2> SUFFICES ASSUME io = "send", ~disturbed PROVE ~busy
    BY DEF NoDivisionLost
  <2>1. op = "load" /\ step = 10
    BY DEF TypeInv, CallInv, SendStep
  <2> QED BY <2>1 DEF EffectInv, LoadInv, Wiped, MetIsDisturbed, Regular, DataInv
<1>3. WholeImageForwarded
  <2> SUFFICES ASSUME op = "load", step > SendStep, ~disturbed, dl.got >= Size[Image]
               PROVE  Forwarded >= Size[Image]
    BY DEF WholeImageForwarded
  <2>1. step > 1
    BY DEF SendStep, TypeInv, TypeOK, CallTypeOK
  <2>2. dl.got % Block = 0
    BY <2>1 DEF EffectInv, LoadInv, Wiped, MetIsDisturbed, Regular, DataInv
  <2> QED BY <2>2, AllForwarded
<1> QED BY <1>1, <1>2, <1>3 DEF ImagesWhole

\* Nothing of a firmware image is lost between the loop of
\* rp2350_send_fw_to_imx500_sspi and the DD: load_imx500_fw never waits for a
\* reply that has been counted, no division is written while one is stored, and
\* the padding leaves nothing in the bridge.
THEOREM ImagesArriveWhole ==
  ASSUME PromptLatch
  PROVE  Spec => []ImagesWhole
BY EffectCorrect, EffectImages, PTL

LEMMA OkIsLast ==
  ASSUME TypeInv, [Next]_vars, ret' = "ok", ret # "ok"
  PROVE  /\ io = "return" /\ step = Steps /\ UNCHANGED devVars
         /\ Id = "STS" => GoodReply(value)
         /\ Id # "DOWNLOAD_STS"
<1>1. ~GiveUp
  BY DEF GiveUp, Return
<1>2. ~UNCHANGED ret
  OBVIOUS
<1>3. ReadReturn
  BY <1>1, <1>2
  DEF Next, CallLoad, CallAffine, Begin, HostStep, WriteCommand, PollStatus, TimedOut, NoMemory,
      SendDivision, SendTail, Advance, ModuleStep, vars, hostVars, callVars
<1>4. step \in 1..Steps /\ Steps \in Nat
  BY DEF TypeInv, TypeOK, CallTypeOK, Steps, LoadScript
<1> QED
  BY <1>1, <1>2, <1>3, <1>4 DEF ReadReturn, AfterDivision, Advance, callVars

LEMMA EffectTaken ==
  ASSUME TypeInv, ExchangeInv, MetIsDisturbed, EffectInv, [Next]_vars
  PROVE  /\ op = "load" /\ ret' = "ok" /\ ret # "ok" /\ ~met => installed = want
         /\ op = "affine" /\ ret' = "ok" /\ ret # "ok" /\ ~disturbed => affine = want
<1>1. ASSUME op = "load", ret' = "ok", ret # "ok", ~met PROVE installed = want
  <2>1. step = 13 /\ io = "return"
    BY <1>1, OkIsLast DEF Steps, LoadScript
  <2>2. value = DONE
    BY <1>1, <2>1, OkIsLast, LoadCommand DEF GoodReply, LoadScript, SendStep, Command
  <2>3. Answered
    BY <2>1 DEF Answered
  <2>4. Regular
    BY <1>1, <2>1, <2>2, <2>3 DEF EffectInv, LoadInv, Wiped, READY, DONE
  <2> QED BY <2>1, <2>2, <2>3, <2>4 DEF Regular, StsInv, RepliesInv
<1>2. ASSUME op = "affine", ret' = "ok", ret # "ok", ~disturbed PROVE affine = want
  <2>1. step = 6 /\ io = "return"
    BY <1>2, OkIsLast DEF Steps
  <2>2. \A k \in 1..6 : affine[k] = want[k]
    BY <1>2, <2>1 DEF EffectInv, AffineInv, Answered
  <2>3. affine \in [1..6 -> Nat] /\ want \in [1..6 -> Values]
    BY <1>2, ModuleCommandsAssumption DEF TypeInv, CallInv, TypeOK, CommandTypeOK
  <2> QED BY <2>2, <2>3
<1> QED BY <1>1, <1>2

\* When load_imx500_fw reports success, the IMX500 runs the caller's image with
\* the caller's type, whatever replies of earlier downloads were late and
\* whenever the module restarted, if the call met no command of an earlier call.
THEOREM LoadTakesEffect ==
  ASSUME PromptLatch
  PROVE  Spec => LoadedIsInstalled
<1>1. TypeInv /\ ExchangeInv /\ MetIsDisturbed /\ EffectInv /\ [Next]_vars
        => [op = "load" /\ ret' = "ok" /\ ret # "ok" /\ ~met => installed = want]_vars
  BY EffectTaken
<1> QED BY <1>1, EffectCorrect, PTL DEF Spec, LoadedIsInstalled

\* When imx500_set_affine reports success in an undisturbed call, all six
\* coefficients are the caller's.
THEOREM AffineTakesEffect ==
  ASSUME PromptLatch
  PROVE  Spec => AffineApplied
<1>1. TypeInv /\ ExchangeInv /\ MetIsDisturbed /\ EffectInv /\ [Next]_vars
        => [op = "affine" /\ ret' = "ok" /\ ret # "ok" /\ ~disturbed => affine = want]_vars
  BY EffectTaken
<1> QED BY <1>1, EffectCorrect, PTL DEF Spec, AffineApplied

\* The two together, as the run checks them.
THEOREM SuccessTakesEffect ==
  ASSUME PromptLatch
  PROVE  Spec => CommandsTakeEffect
BY LoadTakesEffect, AffineTakesEffect, PTL DEF CommandsTakeEffect
=============================================================================
