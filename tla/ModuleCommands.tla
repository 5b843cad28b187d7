---------------------------- MODULE ModuleCommands ---------------------------
(***************************************************************************)
(* imx500_res_read and imx500_res_write of ArducamIMX500SDK.c, one bus     *)
(* access per step, and the two functions that string them together:       *)
(* load_imx500_fw, which downloads a firmware image over the SSPI path, and *)
(* imx500_set_affine.  Both give up at the first call that fails; nothing  *)
(* cancels a command that was given up on.                                 *)
(*                                                                         *)
(* imx500_res_write returns the module's answer in the variable that held  *)
(* the argument, so the locals of load_imx500_fw change as it runs.        *)
(*                                                                         *)
(* The camera module behind the command registers, as the SDK sees it: a   *)
(* write to a command register is latched, run, and answered in            *)
(* IMX500_COMMAND_RUNNING_STATUS and IMX500_COMMAND_RETURN.  Two groups of *)
(* commands are modelled: the download of a firmware image to the IMX500,  *)
(* whose own replies (DD) are counted and outlive the commands, and the    *)
(* six affine coefficients.  The firmware is not in the repository; what   *)
(* the SDK does not rely on is nondeterministic.                           *)
(*                                                                         *)
(* All values are uint32 in the code and naturals here.  Lengths are in    *)
(* units of which Division and Block are multiples.                        *)
(***************************************************************************)
EXTENDS Naturals, Sequences

CONSTANTS
  Fws,        \* the firmware images a caller may pass
  Types,      \* IMX500_FW_TYPE_*
  Size,       \* Size[f]: length of f
  Division,   \* IMX500_MAX_BUFFER
  Block,      \* SPI_BRIDGE_BLOCK_LEN: the bridge forwards whole blocks
  CntMod,     \* bound: the reply counter counts modulo CntMod
  Values,     \* values of an affine coefficient
  MaxResets,  \* bound: spontaneous module restarts
  EchoesArgs, \* a command that takes a value answers with that value
  None        \* nothing

ASSUME CommandModuleAssumption ==
  /\ Types \subseteq Nat
  /\ Size \in [Fws -> Nat \ {0}]
  /\ Block \in Nat \ {0}
  /\ Division \in Nat \ {0} /\ Division % Block = 0
  /\ CntMod \in Nat \ 0..3 \* one call may see three replies
  /\ Values \subseteq Nat /\ 0 \in Values
  /\ MaxResets \in Nat
  /\ EchoesArgs \in BOOLEAN
  /\ None \notin Fws

VARIABLES
  inbox,     \* the command written and not latched yet
  running,   \* the command that runs
  status,    \* IMX500_COMMAND_RUNNING_STATUS
  value,     \* IMX500_COMMAND_RETURN
  answered,  \* history: the command they speak of
  dl,        \* the download: its phase, parameters, and the data received
  busy,      \* DD_DOWNLOAD_STS: a division is being stored
  reply,     \* a DD reply not published yet, and whether dl is its download
  cnt,       \* DD_CMD_REPLY_STS_CNT
  sts,       \* DD_CMD_REPLY_STS
  replied,   \* history: the replies published for the download dl
  installed, \* the image the IMX500 runs, with its type
  affine,    \* the six coefficients in use
  resets     \* restarts so far

commandVars == <<inbox, running, status, value, answered>>
ddVars == <<dl, busy, reply, cnt, sts, replied, installed>>
devVars == <<commandVars, ddVars, affine, resets>>

-----------------------------------------------------------------------------
NOT_EFFECTIVE == 0
FINISHED == 1
RUN_FAILED == 2
RUNNING == 3

READY == 0   \* State transition ready
DONE == 1    \* State transition done
ERROR == 255 \* Status Error, for all error codes

AffineIds == <<"AFFINE_1", "AFFINE_2", "AFFINE_3", "AFFINE_4", "AFFINE_5", "AFFINE_6">>
Setters == {"BEFORE_1", "BEFORE_2", "BEFORE_3", "BEFORE_4"}
Ids == {AffineIds[k] : k \in 1..6} \cup Setters
       \cup {"PREPARE", "CNT", "STS", "WAIT", "DOWNLOAD_STS"}
Commands == [id : Ids, arg : Nat]

ASSUME NoCommandAssumption ==
  None \notin Commands \cup [sts : {READY, DONE, ERROR}, own : BOOLEAN]

Download(phase) ==
  [phase |-> phase, type |-> 0, size |-> 0, fw |-> None, got |-> 0, intact |-> TRUE]

CommandTypeOK ==
  /\ inbox \in Commands \cup {None}
  /\ running \in Commands \cup {None}
  /\ status \in 0..3
  /\ value \in Nat
  /\ answered \in Commands \cup {None}
  /\ dl \in [phase : {"off", "prepared", "requested", "ready"}, type : Nat,
             size : Nat, fw : Fws \cup {None}, got : Nat, intact : BOOLEAN]
  /\ busy \in BOOLEAN
  /\ reply \in [sts : {READY, DONE, ERROR}, own : BOOLEAN] \cup {None}
  /\ cnt \in 0..CntMod-1
  /\ sts \in {READY, DONE, ERROR}
  /\ replied \subseteq {READY, DONE, ERROR}
  /\ installed \in (Nat \X Fws) \cup {None}
  /\ affine \in [1..6 -> Nat]
  /\ resets \in 0..MaxResets

PowerOn ==
  /\ inbox' = None
  /\ running' = None
  /\ status' = NOT_EFFECTIVE
  /\ value' = 0
  /\ answered' = None
  /\ dl' = Download("off")
  /\ busy' = FALSE
  /\ reply' = None
  /\ cnt' = 0
  /\ sts' = READY
  /\ replied' = {}
  /\ installed' = None
  /\ affine' = [k \in 1..6 |-> 0]

DevInit ==
  /\ inbox = None
  /\ running = None
  /\ status = NOT_EFFECTIVE
  /\ value = 0
  /\ answered = None
  /\ dl = Download("off")
  /\ busy = FALSE
  /\ reply = None
  /\ cnt = 0
  /\ sts = READY
  /\ replied = {}
  /\ installed = None
  /\ affine = [k \in 1..6 |-> 0]
  /\ resets = 0

-----------------------------------------------------------------------------
\* The command registers

\* A written command starts.  One that meets a running command is ignored, or
\* takes its place.
Latch ==
  /\ inbox # None
  /\ inbox' = None
  /\ \/ running' = inbox /\ status' = RUNNING
     \/ running # None /\ UNCHANGED <<running, status>>
  /\ UNCHANGED <<value, answered, ddVars, affine, resets>>

\* The running command ends with a status and an answer.
End(outcome, answer) ==
  /\ status' = outcome
  /\ value' = answer
  /\ answered' = running
  /\ running' = None
  /\ UNCHANGED <<inbox, resets>>

\* A command fails, or is not effective in the module's present state.
Refuse ==
  /\ running # None
  /\ \E outcome \in {NOT_EFFECTIVE, RUN_FAILED} : End(outcome, 0)
  /\ UNCHANGED <<ddVars, affine>>

Is(id) == running # None /\ running.id = id

\* What a command that takes a value answers
Answers(arg) == IF EchoesArgs THEN {arg} ELSE {arg, 0, arg + 1}

\* A download prepared anew: whatever was received is given up, but a reply to
\* it may still be on its way.
Prepare ==
  /\ Is("PREPARE")
  /\ End(FINISHED, 0)
  /\ dl' = Download("prepared")
  /\ busy' = FALSE
  /\ replied' = {}
  /\ reply' = IF reply = None THEN None ELSE [reply EXCEPT !.own = FALSE]
  /\ UNCHANGED <<cnt, sts, installed, affine>>

\* The parameters of the download: its type, number of divisions and size; the
\* fourth, the type again, starts it.
SetParameter ==
  /\ running # None /\ running.id \in Setters
  /\ \E v \in Answers(running.arg) : End(FINISHED, v)
  /\ dl' = IF dl.phase # "prepared" THEN dl
           ELSE CASE running.id = "BEFORE_1" -> [dl EXCEPT !.type = running.arg]
                  [] running.id = "BEFORE_2" -> dl
                  [] running.id = "BEFORE_3" -> [dl EXCEPT !.size = running.arg]
                  [] running.id = "BEFORE_4" -> [dl EXCEPT !.phase = "requested"]
  /\ UNCHANGED <<busy, reply, cnt, sts, replied, installed, affine>>

\* WAIT_DD_REPLY_SYS_CNT_CHANGE ends when the counter differs from its value.
CountChanged ==
  /\ Is("WAIT")
  /\ cnt # running.arg
  /\ \E v \in Answers(running.arg) : End(FINISHED, v)
  /\ UNCHANGED <<ddVars, affine>>

\* The TICK_DD_... commands answer with a register of the DD.
Tick ==
  /\ \/ Is("CNT") /\ End(FINISHED, cnt)
     \/ Is("STS") /\ End(FINISHED, sts)
     \/ Is("DOWNLOAD_STS") /\ End(FINISHED, IF busy THEN 1 ELSE 0)
  /\ UNCHANGED <<ddVars, affine>>

SetCoefficient ==
  /\ \E k \in 1..6 : Is(AffineIds[k]) /\ affine' = [affine EXCEPT ![k] = running.arg]
  /\ \E v \in Answers(running.arg) : End(FINISHED, v)
  /\ UNCHANGED ddVars

-----------------------------------------------------------------------------
\* The download

NewReply(code) == reply = None /\ reply' = [sts |-> code, own |-> TRUE]

\* The request is accepted.
DownloadReady ==
  /\ dl.phase = "requested"
  /\ NewReply(READY)
  /\ dl' = [dl EXCEPT !.phase = "ready"]
  /\ UNCHANGED <<commandVars, busy, cnt, sts, replied, installed, affine, resets>>

\* What the bridge has forwarded of the data received
Forwarded == (dl.got \div Block) * Block

\* The whole image is in, and it is authentic.
DownloadDone ==
  /\ dl.phase = "ready" /\ ~busy
  /\ Forwarded >= dl.size
  /\ dl.intact /\ dl.fw # None /\ dl.size = Size[dl.fw]
  /\ NewReply(DONE)
  /\ installed' = <<dl.type, dl.fw>>
  /\ dl' = [dl EXCEPT !.phase = "off"]
  /\ UNCHANGED <<commandVars, busy, cnt, sts, replied, affine, resets>>

DownloadFailed ==
  /\ dl.phase \in {"requested", "ready"}
  /\ NewReply(ERROR)
  /\ dl' = [dl EXCEPT !.phase = "off"]
  /\ UNCHANGED <<commandVars, busy, cnt, sts, replied, installed, affine, resets>>

\* A reply shows in the registers.
Publish ==
  /\ reply # None
  /\ cnt' = (cnt + 1) % CntMod
  /\ sts' = reply.sts
  /\ replied' = IF reply.own THEN replied \cup {reply.sts} ELSE replied
  /\ reply' = None
  /\ UNCHANGED <<commandVars, dl, busy, installed, affine, resets>>

DivisionStored ==
  /\ busy
  /\ busy' = FALSE
  /\ UNCHANGED <<commandVars, dl, reply, cnt, sts, replied, installed, affine, resets>>

Restart ==
  /\ resets < MaxResets
  /\ resets' = resets + 1
  /\ PowerOn

DevNext ==
  \/ Latch \/ Refuse \/ Prepare \/ SetParameter \/ CountChanged \/ Tick
  \/ SetCoefficient \/ DownloadReady \/ DownloadDone \/ DownloadFailed
  \/ Publish \/ DivisionStored \/ Restart

-----------------------------------------------------------------------------
\* What a bus access does to the module, whatever it reports to the host.

AcceptCommand(c) ==
  /\ inbox' = c
  /\ UNCHANGED <<running, status, value, answered, ddVars, affine, resets>>

\* n units of data on the SSPI path: of image f from offset k on, damaged on
\* the way unless clean.  Data a busy DD receives is lost.
AcceptData(f, k, n, clean) ==
  /\ IF dl.phase # "ready" \/ n = 0
     THEN UNCHANGED <<dl, busy>>
     ELSE /\ dl' = [dl EXCEPT
               !.got = @ + n,
               !.fw = f,
               !.intact = @ /\ clean /\ ~busy /\ k = dl.got /\ dl.fw \in {None, f}]
          /\ busy' = (busy \/ (dl.got + n) % Division = 0)
  /\ UNCHANGED <<commandVars, reply, cnt, sts, replied, installed, affine, resets>>

-----------------------------------------------------------------------------
(***************************************************************************)
(* The SDK                                                                 *)
(***************************************************************************)
CONSTANTS
  Rects,      \* the coefficient sextuples a caller may set
  MaxPolls,   \* bound: polls of RUNNING_STATUS for one command
  MaxRounds,  \* bound: DD_DOWNLOAD_STS commands for one division
  MaxCalls,   \* bound: calls the application makes
  PromptLatch \* a written command is latched within 1 ms

ASSUME ModuleCommandsAssumption ==
  /\ Rects \subseteq [1..6 -> Values]
  /\ MaxPolls \in Nat \ {0}
  /\ MaxRounds \in Nat \ {0}
  /\ MaxCalls \in Nat
  /\ PromptLatch \in BOOLEAN

VARIABLES
  op,       \* the function running: "load", "affine" or "idle"
  want,     \* what it was called with
  step,     \* its position in its script
  io,       \* where it is in that step
  polls,    \* polls of the current command so far
  locals,   \* load_imx500_fw: fw_type, division, size, DD_CMD_REPLY_STS_CNT
  sent,     \* rp2350_send_fw_to_imx500_sspi: divisions sent
  rounds,   \* DD_DOWNLOAD_STS commands for the current division
  ret,      \* what the last call returned: "none" until it does
  calls,    \* calls so far
  met,      \* history: the call met a command of an earlier one still running
  disturbed \* history: it did, or the module restarted during the call

posVars == <<step, io, polls, sent, rounds>>
callVars == <<op, want, ret, calls, met, disturbed>>
hostVars == <<posVars, locals, callVars>>
vars == <<devVars, hostVars>>

-----------------------------------------------------------------------------
LoadScript ==
  <<"PREPARE", "CNT", "BEFORE_1", "BEFORE_2", "BEFORE_3", "BEFORE_4", "WAIT",
    "CNT", "STS", "SEND", "WAIT", "CNT", "STS">>

SendStep == 10

\* The command of the current step, with the variable passed to it
Id == CASE op = "affine" -> AffineIds[step]
        [] op = "load" /\ step = SendStep -> "DOWNLOAD_STS"
        [] OTHER -> LoadScript[step]

Argument ==
  CASE op = "affine" -> want[step]
    [] Id \in {"BEFORE_1", "BEFORE_4"} -> locals.type
    [] Id = "BEFORE_2" -> locals.division
    [] Id = "BEFORE_3" -> locals.size
    [] Id = "WAIT" -> locals.base
    [] OTHER -> 0

Command == [id |-> Id, arg |-> Argument]

NoLocals == [type |-> 0, division |-> 0, size |-> 0, base |-> 0]

Init ==
  /\ DevInit
  /\ op = "idle"
  /\ want = None
  /\ step = 1
  /\ io = "write"
  /\ polls = 0
  /\ locals = NoLocals
  /\ sent = 0
  /\ rounds = 0
  /\ ret = "none"
  /\ calls = 0
  /\ met = FALSE
  /\ disturbed = FALSE

Begin(f, w, l) ==
  /\ op = "idle"
  /\ calls < MaxCalls
  /\ op' = f
  /\ want' = w
  /\ locals' = l
  /\ ret' = "none"
  /\ calls' = calls + 1
  /\ met' = (inbox # None \/ running # None)
  /\ disturbed' = met'
  /\ UNCHANGED <<devVars, posVars>>

CallLoad(f, t) ==
  Begin("load", <<t, f>>,
        [type |-> t, division |-> Size[f] \div Division, size |-> Size[f], base |-> 0])

CallAffine(r) == Begin("affine", r, NoLocals)

Return(v) ==
  /\ op' = "idle"
  /\ want' = None
  /\ step' = 1
  /\ io' = "write"
  /\ polls' = 0
  /\ locals' = NoLocals
  /\ sent' = 0
  /\ rounds' = 0
  /\ ret' = v
  /\ met' = FALSE
  /\ disturbed' = FALSE
  /\ UNCHANGED calls

GiveUp == Return("failed")

-----------------------------------------------------------------------------
\* imx500_res_read and imx500_res_write

\* A write the bus acknowledges has arrived; one it reports as failed may have.
WriteCommand ==
  /\ op # "idle" /\ io = "write"
  /\ \/ /\ AcceptCommand(Command)
        /\ io' = "poll"
        /\ polls' = 0
        /\ UNCHANGED <<step, sent, rounds, locals, callVars>>
     \/ AcceptCommand(Command) /\ GiveUp
     \/ UNCHANGED devVars /\ GiveUp

\* Mutant: the first poll is made without the sleep before it.
SleptNot == TRUE

\* The millisecond slept before a poll
Slept == PromptLatch => inbox = None

TimedOut == GiveUp

\* Mutant: one poll too many.
PollsLeftOneMore == polls < MaxPolls

PollsLeft == polls + 1 < MaxPolls

PollStatus ==
  /\ op # "idle" /\ io = "poll"
  /\ Slept
  /\ \/ /\ status = FINISHED
        /\ io' = "return"
        /\ UNCHANGED <<step, polls, sent, rounds, locals, callVars>>
     \/ /\ status = RUNNING /\ PollsLeft
        /\ polls' = polls + 1
        /\ UNCHANGED <<step, io, sent, rounds, locals, callVars>>
     \/ status = RUNNING /\ ~PollsLeft /\ TimedOut
     \/ status \in {NOT_EFFECTIVE, RUN_FAILED} /\ GiveUp
     \/ GiveUp \* the read fails
  /\ UNCHANGED devVars

\* Mutant: the send loop goes on when the DD is busy.
StoredOrBusy(v) == TRUE

\* DD_DOWNLOAD_STS != 1
Stored(v) == v # 1

\* What the caller's variable holds after the answer v.
Locals(v) ==
  CASE Id \in {"BEFORE_1", "BEFORE_4"} -> [locals EXCEPT !.type = v]
    [] Id = "BEFORE_2" -> [locals EXCEPT !.division = v]
    [] Id = "BEFORE_3" -> [locals EXCEPT !.size = v]
    [] Id \in {"WAIT", "CNT"} -> [locals EXCEPT !.base = v]
    [] OTHER -> locals

Advance ==
  /\ step' = step + 1
  /\ polls' = 0
  /\ io' = IF op = "load" /\ step + 1 = SendStep THEN "send" ELSE "write"
  /\ UNCHANGED <<sent, rounds, callVars>>

Steps == IF op = "load" THEN Len(LoadScript) ELSE 6

\* Mutant: any reply will do.
AnyReply(v) == TRUE

\* The DD_CMD_REPLY_STS the image is sent upon, and the one it is loaded upon
GoodReply(v) == v = IF step < SendStep THEN READY ELSE DONE

\* Mutant: the time a division takes is not counted.
RoundUncounted == rounds' = rounds

CountRound == rounds' = rounds + 1

\* The loop after a division: the next one, or the command again.
AfterDivision(v) ==
  /\ \/ Stored(v) /\ io' = "send" /\ sent' = sent + 1 /\ rounds' = 0
     \/ ~Stored(v) /\ rounds + 1 < MaxRounds /\ io' = "write" /\ CountRound /\ UNCHANGED sent
  /\ polls' = 0
  /\ UNCHANGED <<step, locals, callVars>>

\* The answer is read; the caller uses it and goes on.
ReadReturn ==
  /\ op # "idle" /\ io = "return"
  /\ \/ Id = "DOWNLOAD_STS" /\ AfterDivision(value)
     \/ Id = "DOWNLOAD_STS" /\ ~Stored(value) /\ rounds + 1 >= MaxRounds /\ GiveUp
     \/ Id = "STS" /\ ~GoodReply(value) /\ GiveUp
     \/ /\ Id # "DOWNLOAD_STS"
        /\ Id = "STS" => GoodReply(value)
        /\ IF step < Steps
           THEN Advance /\ locals' = Locals(value)
           ELSE Return("ok")
     \/ GiveUp \* the read fails
  /\ UNCHANGED devVars

-----------------------------------------------------------------------------
\* rp2350_send_fw_to_imx500_sspi

Image == want[2]

\* n units are written from offset k on, and arrive or not.
Write(k, n) ==
  \/ \E clean \in BOOLEAN : AcceptData(Image, k, n, clean)
  \/ UNCHANGED devVars

\* byteswap_u32_words_alloc fails, as it always does for size 0.
NoMemory ==
  /\ op = "load" /\ io = "send" /\ sent = 0
  /\ GiveUp
  /\ UNCHANGED devVars

\* A write that fails has written some of the blocks.
SendDivision ==
  /\ op = "load" /\ io = "send"
  /\ sent < locals.size \div Division
  /\ \/ /\ Write(sent * Division, Division)
        /\ io' = "write"
        /\ UNCHANGED <<step, polls, sent, rounds, locals, callVars>>
     \/ \E m \in 0..(Division \div Block) : Write(sent * Division, m * Block) /\ GiveUp

Padding(n) == IF n % Block = 0 THEN 0 ELSE Block - (n % Block)

\* What is left of the image, and the padding that flushes it through the
\* bridge.
SendTail ==
  /\ op = "load" /\ io = "send"
  /\ locals.size # 0
  /\ sent = locals.size \div Division
  /\ LET left == (locals.size % Division) + Padding(locals.size)
     IN  \/ Write(sent * Division, left) /\ Advance /\ UNCHANGED locals
         \/ left > 0 /\ \E m \in 0..left : Write(sent * Division, m) /\ GiveUp

-----------------------------------------------------------------------------
HostStep ==
  WriteCommand \/ PollStatus \/ ReadReturn \/ NoMemory \/ SendDivision \/ SendTail

ModuleStep ==
  /\ DevNext
  /\ disturbed' = (disturbed \/ (op # "idle" /\ resets' # resets))
  /\ UNCHANGED <<posVars, locals, op, want, ret, calls, met>>

Next ==
  \/ \E f \in Fws, t \in Types : CallLoad(f, t)
  \/ \E r \in Rects : CallAffine(r)
  \/ HostStep
  \/ ModuleStep

Spec == Init /\ [][Next]_vars

\* A call runs until it returns: the SDK is single-threaded.  What the sleep is
\* assumed to be enough for comes.
FairSpec == Spec /\ WF_vars(HostStep) /\ WF_vars(PromptLatch /\ Latch /\ UNCHANGED hostVars)

-----------------------------------------------------------------------------
CallTypeOK ==
  /\ op \in {"idle", "load", "affine"}
  /\ want \in (Types \X Fws) \cup Rects \cup {None}
  /\ step \in 1..Steps
  /\ io \in {"write", "poll", "return", "send"}
  /\ polls \in 0..MaxPolls-1
  /\ locals \in [type : Nat, division : Nat, size : Nat, base : Nat]
  /\ sent \in 0..(locals.size \div Division)
  /\ rounds \in 0..MaxRounds-1
  /\ ret \in {"none", "ok", "failed"}
  /\ calls \in 0..MaxCalls
  /\ met \in BOOLEAN
  /\ disturbed \in BOOLEAN

\* Every variable has its type: no loop passes its bound.
TypeOK == CommandTypeOK /\ CallTypeOK

\* The answer the SDK reads is the answer to the command it wrote, unless one
\* of an earlier call was still running or the module restarted: the registers
\* themselves do not say.
ReplyIsOwn == io = "return" /\ ~disturbed => answered = Command

\* Only the first command of a call can meet one still running: within a call
\* each is seen to end before the next is written.
OneAtATime ==
  op # "idle" /\ io = "write" /\ ~disturbed => inbox = None /\ running = None

\* When load_imx500_fw succeeds the IMX500 runs that image, of that type,
\* whatever replies of earlier downloads were late and whenever the module
\* restarted.  A call that meets a command of an earlier call is excepted: the
\* module may drop its first command, the one that prepares the download.
LoadedIsInstalled ==
  [][op = "load" /\ ret' = "ok" /\ ret # "ok" /\ ~met => installed = want]_vars

\* The module is never asked to wait for a DD reply that has been counted
\* already: the counter is read before what it waits for can happen.
NoReplyMissed ==
  op = "load" /\ io = "poll" /\ Id = "WAIT" /\ ~disturbed /\ running = Command /\ running.arg = cnt
    => replied \subseteq (IF step < SendStep THEN {} ELSE {READY})

\* No division is written while the DD stores the one before.
NoDivisionLost == io = "send" /\ ~disturbed /\ dl.phase = "ready" => ~busy

\* When the SDK waits for the final reply, no part of the image is held back
\* in the bridge.
WholeImageForwarded ==
  op = "load" /\ step > SendStep /\ ~disturbed /\ dl.phase = "ready" /\ dl.intact
    /\ dl.got >= Size[Image] => Forwarded >= Size[Image]

\* Each answer the SDK uses is the answer to its own command, and commands never
\* overlap, although the module can latch one while another runs.
OwnCommands == ReplyIsOwn /\ OneAtATime

\* Nothing of an image is lost between the SDK's loop and the DD's: no reply is
\* waited for too late, no division comes too early, no tail stays behind.
ImagesWhole == NoReplyMissed /\ NoDivisionLost /\ WholeImageForwarded

\* When imx500_set_affine succeeds all six coefficients are the caller's.
AffineApplied ==
  [][op = "affine" /\ ret' = "ok" /\ ret # "ok" /\ ~disturbed => affine = want]_vars

\* A success that is reported has taken effect on the IMX500.
CommandsTakeEffect == LoadedIsInstalled /\ AffineApplied

\* Every call returns.
CallReturns == op # "idle" ~> op = "idle"
=============================================================================
