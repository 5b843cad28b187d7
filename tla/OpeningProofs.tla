---------------------------- MODULE OpeningProofs ----------------------------
(***************************************************************************)
(* Theorems about Opening, for every set of requests, every number of      *)
(* calls, polls and spontaneous restarts, on a module that restarts within *)
(* the two seconds slept after RESET (PromptReset):                        *)
(*   TypeCorrect       TypeOK                                              *)
(*   OpensAsAsked      OpenedAsAsked                                       *)
(*   ResetTakesEffect  ResetHappened                                       *)
(*                                                                         *)
(* OpenedAsAsked speaks of the end of a call.  What makes it inductive is  *)
(* what each position of the script relies on (Progress): the restart has  *)
(* swept away what earlier calls left behind, the network comes from where *)
(* this call loads it, the forwarding mode is the one written last, and    *)
(* the settings made so far are in effect.  A step that succeeds           *)
(* establishes Progress for the next position (DoneAdvances), and Progress *)
(* past the last position is what was asked for.                           *)
(***************************************************************************)
EXTENDS Opening, Integers, TLAPS

\* The script of function o called with w, and where the parts of it lie
ScriptOf(o, w) ==
  IF o = "open" THEN BootScript \o LoadScript(w) \o ConfigScript \o ForwardScript(w)
  ELSE BootScript

Direct(w) == w.nn # None
Forwards(w) == w.spi \in {"output", "jpeg"}

\* The last position before the default configurations
Base(w) == IF Direct(w) THEN 8 ELSE 6

Last(w) == Base(w) + (IF Forwards(w) THEN 8 ELSE 7)

\* The position of the command that makes setting k
Place(w, k) ==
  CASE k = "freq" -> 4
    [] k = "sensor" -> Base(w) + 1
    [] k = "nn" -> Base(w) + 2
    [] k = "lanes" -> Base(w) + 3
    [] k = "crop" -> Base(w) + 4
    [] k = "fps" -> Base(w) + 5
    [] k = "mipi" -> Base(w) + 6
    [] OTHER -> Base(w) + 7

\* What each kind of script holds at each position
LEMMA ResetScript ==
  ASSUME NEW w
  PROVE /\ Len(ScriptOf("reset", w)) = 4
        /\ ScriptOf("reset", w)[1] = "reset"
        /\ ScriptOf("reset", w)[2] = "boot"
        /\ ScriptOf("reset", w)[3] = "query"
        /\ ScriptOf("reset", w)[4] = "freq"
  BY DEF ScriptOf, BootScript

LEMMA DirectForward ==
  ASSUME NEW w, Direct(w), Forwards(w), NEW s, s = ScriptOf("open", w)
  PROVE /\ Len(s) = 16
        /\ s[1] = "reset" /\ s[2] = "boot" /\ s[3] = "query" /\ s[4] = "freq"
        /\ s[5] = "toSspi" /\ s[6] = "weights" /\ s[7] = "info" /\ s[8] = "cache"
        /\ s[9] = "sensor" /\ s[10] = "nn" /\ s[11] = "lanes" /\ s[12] = "crop"
        /\ s[13] = "fps" /\ s[14] = "mipi" /\ s[15] = "spi" /\ s[16] = MetadataMode(w.spi)
  BY DEF ScriptOf, BootScript, LoadScript, ConfigScript, ForwardScript, Direct, Forwards

LEMMA DirectOnly ==
  ASSUME NEW w, Direct(w), ~Forwards(w), NEW s, s = ScriptOf("open", w)
  PROVE /\ Len(s) = 15
        /\ s[1] = "reset" /\ s[2] = "boot" /\ s[3] = "query" /\ s[4] = "freq"
        /\ s[5] = "toSspi" /\ s[6] = "weights" /\ s[7] = "info" /\ s[8] = "cache"
        /\ s[9] = "sensor" /\ s[10] = "nn" /\ s[11] = "lanes" /\ s[12] = "crop"
        /\ s[13] = "fps" /\ s[14] = "mipi" /\ s[15] = "spi"
  BY DEF ScriptOf, BootScript, LoadScript, ConfigScript, ForwardScript, Direct, Forwards

LEMMA FlashForward ==
  ASSUME NEW w, ~Direct(w), Forwards(w), NEW s, s = ScriptOf("open", w)
  PROVE /\ Len(s) = 14
        /\ s[1] = "reset" /\ s[2] = "boot" /\ s[3] = "query" /\ s[4] = "freq"
        /\ s[5] = "none" /\ s[6] = "flash" /\ s[7] = "sensor" /\ s[8] = "nn"
        /\ s[9] = "lanes" /\ s[10] = "crop" /\ s[11] = "fps" /\ s[12] = "mipi"
        /\ s[13] = "spi" /\ s[14] = MetadataMode(w.spi)
  BY DEF ScriptOf, BootScript, LoadScript, ConfigScript, ForwardScript, Direct, Forwards

LEMMA FlashOnly ==
  ASSUME NEW w, ~Direct(w), ~Forwards(w), NEW s, s = ScriptOf("open", w)
  PROVE /\ Len(s) = 13
        /\ s[1] = "reset" /\ s[2] = "boot" /\ s[3] = "query" /\ s[4] = "freq"
        /\ s[5] = "none" /\ s[6] = "flash" /\ s[7] = "sensor" /\ s[8] = "nn"
        /\ s[9] = "lanes" /\ s[10] = "crop" /\ s[11] = "fps" /\ s[12] = "mipi"
        /\ s[13] = "spi"
  BY DEF ScriptOf, BootScript, LoadScript, ConfigScript, ForwardScript, Direct, Forwards

\* What imx500_open does at position n of its script
LEMMA OpenScript ==
  ASSUME NEW w, NEW s, s = ScriptOf("open", w), NEW n \in 1..Len(s)
  PROVE /\ Len(s) = Last(w)
        /\ s[n] = "reset" <=> n = 1
        /\ s[n] = "boot" <=> n = 2
        /\ s[n] = "query" <=> n = 3
        /\ s[n] = "weights" <=> Direct(w) /\ n = 6
        /\ s[n] = "info" <=> Direct(w) /\ n = 7
        /\ s[n] = "cache" <=> Direct(w) /\ n = 8
        /\ s[n] = "flash" <=> ~Direct(w) /\ n = 6
        /\ s[n] \in Modes <=> n = 5 \/ n = Base(w) + 8
        /\ n = 5 => s[n] = IF Direct(w) THEN "toSspi" ELSE "none"
        /\ n = Base(w) + 8 => s[n] = MetadataMode(w.spi)
        /\ s[n] \in Settings <=> n = 4 \/ n \in Base(w)+1..Base(w)+7
        /\ s[n] \in Settings => n = Place(w, s[n])
        /\ \A k \in Clears(s[n]) : Place(w, k) > n
        /\ n = 4 => s[n] = "freq"
        /\ n = Base(w) + 6 <=> s[n] = "mipi"
        /\ n = Base(w) + 7 <=> s[n] = "spi"
<1>1. CASE Direct(w) /\ Forwards(w)
  <2>1. n \in 1..16 /\ Len(s) = 16
    BY <1>1, DirectForward
  <2>2. MetadataMode(w.spi) \in {"fromMspi", "fromSspi"}
    BY <1>1 DEF Forwards, MetadataMode
  <2>. QED
    BY <1>1, <2>1, <2>2, DirectForward, SMTT(60)
    DEF Last, Base, Place, Clears, Settings, Modes
<1>2. CASE Direct(w) /\ ~Forwards(w)
  <2>1. n \in 1..15 /\ Len(s) = 15
    BY <1>2, DirectOnly
  <2>. QED
    BY <1>2, <2>1, DirectOnly, SMTT(60) DEF Last, Base, Place, Clears, Settings, Modes
<1>3. CASE ~Direct(w) /\ Forwards(w)
  <2>1. n \in 1..14 /\ Len(s) = 14
    BY <1>3, FlashForward
  <2>2. MetadataMode(w.spi) \in {"fromMspi", "fromSspi"}
    BY <1>3 DEF Forwards, MetadataMode
  <2>. QED
    BY <1>3, <2>1, <2>2, FlashForward, SMTT(60)
    DEF Last, Base, Place, Clears, Settings, Modes
<1>4. CASE ~Direct(w) /\ ~Forwards(w)
  <2>1. n \in 1..13 /\ Len(s) = 13
    BY <1>4, FlashOnly
  <2>. QED
    BY <1>4, <2>1, FlashOnly, SMTT(60) DEF Last, Base, Place, Clears, Settings, Modes
<1>. QED
  BY <1>1, <1>2, <1>3, <1>4

-----------------------------------------------------------------------------
(***************************************************************************)
(* The inductive invariant.  What holds of a call is said for function o   *)
(* called with w and position n of its script, i telling whether it polls  *)
(* there: a step that succeeds establishes it for the next position, and   *)
(* for the one after the last when the call returns true.                  *)
(***************************************************************************)

\* The wait for the restart has begun.
Booted(n, i) == n > 2 \/ (n = 2 /\ i = "poll")

\* Nothing of an earlier call is left behind the reset.
Quiet(n, i) ==
  /\ n = 2 /\ i = "start" => left = None
  /\ Booted(n, i) => restarting = FALSE
  /\ Booted(n, i) /\ n # 4 => left = None
  /\ Booted(n, i) /\ n = 4 => left = None \/ left.key = "query"

\* The module restarts, or has restarted, unless the reset met another command.
Restarts(n, i) ==
  "reset" \notin met =>
    /\ n = 2 /\ i = "start" => restarting = TRUE \/ restarted = TRUE
    /\ Booted(n, i) => restarted = TRUE

Fresh ==
  flashReq = FALSE /\ network = None /\ boot \in {0, 1} /\ mode = "none" /\ modeReq = None

FlashLoading == network = None /\ boot \in {0, 1}
FlashLoaded == flashReq = FALSE /\ boot = 2 /\ network = FlashNetwork /\ info = FlashInfo

\* The network comes from where the call loads it, and from nowhere else.
Loaded(o, w, n, i) ==
  "reset" \notin met /\ disturbed = FALSE =>
    /\ n = 2 /\ i = "start" => restarting = TRUE \/ Fresh
    /\ Booted(n, i) /\ n < 5 => Fresh
    /\ o = "open" /\ Direct(w) =>
         /\ Booted(n, i) => flashReq = FALSE
         /\ n > 6 => network = w.nn
         /\ n > 7 => info = w.info
         /\ n > 8 => cache = w.info
    /\ o = "open" /\ ~Direct(w) =>
         /\ n = 5 \/ (n = 6 /\ i = "start") => flashReq = FALSE /\ FlashLoading
         /\ n = 6 /\ i = "poll" => FlashLoading \/ FlashLoaded
         /\ n > 6 => FlashLoaded

Switching(m) == modeReq = m \/ (mode = m /\ modeReq = None)
Switched(m) == mode = m /\ modeReq \in {None, m}

\* The forwarding mode is the one written last.
Forwarding(o, w, n, i) ==
  o = "open" /\ disturbed = FALSE =>
    /\ n = 5 /\ i = "poll" => Switching(IF Direct(w) THEN "toSspi" ELSE "none")
    /\ n \in 6..7 => Switched(IF Direct(w) THEN "toSspi" ELSE "none")
    /\ n \in 8..Base(w)+7 \/ (n = Base(w) + 8 /\ i = "start") => Switched("none")
    /\ n = Base(w) + 8 /\ i = "poll" => Switching(MetadataMode(w.spi))
    /\ n = Base(w) + 9 => Switched(MetadataMode(w.spi))

InEffect(k, w) ==
  \/ config[k] = Value(w, k)
  \/ k = "freq" /\ "freq" \in met
  \/ k = "spi" /\ w.spi = "reserved"

\* The settings made so far are in effect.
Configured(o, w, n) ==
  o = "open" /\ disturbed = FALSE /\ n > 4 =>
    \A k \in Settings : Place(w, k) < n => InEffect(k, w)

Progress(o, w, n, i) ==
  /\ Quiet(n, i)
  /\ Restarts(n, i)
  /\ Loaded(o, w, n, i)
  /\ Forwarding(o, w, n, i)
  /\ Configured(o, w, n)

CallInv ==
  /\ op = "idle" => want = None /\ step = 1 /\ io = "start"
  /\ op = "open" => want \in Requests
  /\ op = "reset" => want = None

LiveInv == op # "idle" => Progress(op, want, step, io)

\* Nothing is under way that could undo what a call achieved.
SettledInv ==
  opened # None =>
    op = "idle" /\ left = None /\ restarting = FALSE /\ flashReq = FALSE /\ AsAsked(opened)

IInv == TypeOK /\ CallInv /\ LiveInv /\ SettledInv

-----------------------------------------------------------------------------
\* Types

USE OpeningAssumption, BootAssumption

\* What a command carries
LEMMA CommandTyped ==
  ASSUME At(Settings \cup {"reset", "query"}), op # "idle", want \in Requests \/ op = "reset",
         op \in {"open", "reset"}, step \in 1..Len(Script),
         At({"mipi"}) => want.mipi # "invalid",
         At({"spi"}) => want.spi \in Supported
  PROVE [key |-> Script[step], value |-> Value(want, Script[step])] \in Commands
<1>1. Script[step] \in Settings \cup {"reset", "query"}
  BY DEF At
<1>2. Value(want, Script[step]) \in SettingValues
  <2>1. CASE op = "reset"
    <3>1. Script = ScriptOf("reset", want)
      BY <2>1 DEF Script, ScriptOf
    <3>2. step = 1 \/ step = 2 \/ step = 3 \/ step = 4
      <4>1. Len(ScriptOf("reset", want)) = 4
        BY ResetScript
      <4>2. step \in 1..4
        BY <3>1, <4>1
      <4>. QED
        BY <4>2
    <3>3. Script[step] \in {"reset", "boot", "query", "freq"}
      BY <3>1, <3>2, ResetScript
    <3>. QED
      BY <3>3 DEF Value, SettingValues
  <2>2. CASE op = "open"
    BY <1>1, <2>2, SMTT(30) DEF At, Value, SettingValues, Supported, OpeningAssumption
  <2>. QED
    BY <2>1, <2>2
<1>. QED
  BY <1>1, <1>2 DEF Commands

\* Commands keep the types.
LEMMA RunTyped ==
  ASSUME BootTypeOK, NEW c \in Commands, NEW cfg \in [Settings -> SettingValues \cup {None}]
  PROVE /\ After(c, cfg) \subseteq [Settings -> SettingValues \cup {None}]
        /\ c.key \in Settings \cup {"reset", "query"}
        /\ c.value \in SettingValues
<1>1. c.key \in Settings \cup {"reset", "query"} /\ c.value \in SettingValues
  BY DEF Commands
<1>. QED
  BY <1>1 DEF After

LEMMA AnsweredTyped ==
  ASSUME BootTypeOK, NEW c \in Commands, Answered(c)
  PROVE BootTypeOK'
<1>1. config' \in [Settings -> SettingValues \cup {None}]
  <2>1. CASE Run(c)
    BY <2>1, RunTyped DEF Run, BootTypeOK
  <2>2. CASE left # None /\ Run(left)
    BY <2>2, RunTyped DEF Run, BootTypeOK
  <2>3. CASE left # None /\ \E cfg \in After(left, config) : config' \in After(c, cfg)
    <3>1. PICK cfg \in After(left, config) : config' \in After(c, cfg)
      BY <2>3
    <3>2. cfg \in [Settings -> SettingValues \cup {None}]
      BY <2>3, RunTyped DEF BootTypeOK
    <3>. QED
      BY <3>1, <3>2, RunTyped
  <2>. QED
    BY <2>1, <2>2, <2>3 DEF Answered
<1>2. restarting' \in BOOLEAN
  BY DEF Answered, Run, BootTypeOK
<1>. QED
  BY <1>1, <1>2 DEF Answered, modeVars, BootTypeOK

LEMMA UnansweredTyped ==
  ASSUME BootTypeOK, NEW c \in Commands, Unanswered(c)
  PROVE BootTypeOK'
<1>1. CASE Answered(c)
  BY <1>1, AnsweredTyped
<1>2. CASE c.key = "crop" /\ Answered([c EXCEPT !.value = "mixed"])
  <2>1. [c EXCEPT !.value = "mixed"] \in Commands
    BY DEF Commands, SettingValues
  <2>. QED
    BY <1>2, <2>1, AnsweredTyped
<1>3. CASE left' = c /\ UNCHANGED <<boot, restarting, flashReq, network, info, config, modeVars, resets>>
  BY <1>3 DEF BootTypeOK, modeVars
<1>4. CASE UNCHANGED bootVars
  BY <1>4 DEF BootTypeOK, bootVars, modeVars
<1>. QED
  BY <1>1, <1>2, <1>3, <1>4 DEF Unanswered

LEMMA BootNextTyped ==
  ASSUME BootTypeOK, BootNext
  PROVE BootTypeOK'
<1>1. ASSUME LeftEnds PROVE BootTypeOK'
  <2>1. config' \in [Settings -> SettingValues \cup {None}] /\ restarting' \in BOOLEAN
    BY <1>1, RunTyped DEF LeftEnds, Run, BootTypeOK
  <2>. QED
    BY <1>1, <2>1 DEF LeftEnds, BootTypeOK, modeVars
<1>2. ASSUME PowerOn, resets' \in 0..MaxResets PROVE BootTypeOK'
  <2>1. Defaults \in [Settings -> SettingValues \cup {None}]
    BY DEF Defaults
  <2>2. config' \in [Settings -> SettingValues \cup {None}]
    BY <1>2, <2>1 DEF PowerOn
  <2>3. mode' \in Modes
    BY <1>2 DEF PowerOn, Modes
  <2>4. boot' \in 0..2
    BY <1>2 DEF PowerOn
  <2>5. restarting' \in BOOLEAN /\ flashReq' \in BOOLEAN
    BY <1>2 DEF PowerOn
  <2>6. network' \in Networks \cup {None} /\ info' \in Infos \cup {None}
    BY <1>2 DEF PowerOn
  <2>7. left' \in Commands \cup {None} /\ modeReq' \in Modes \cup {None}
    BY <1>2 DEF PowerOn
  <2>. QED
    BY <1>2, <2>2, <2>3, <2>4, <2>5, <2>6, <2>7 DEF BootTypeOK
<1>3. ASSUME Reset PROVE BootTypeOK'
  BY <1>2, <1>3 DEF Reset, BootTypeOK
<1>4. ASSUME Brownout PROVE BootTypeOK'
  BY <1>2, <1>4 DEF Brownout, BootTypeOK, BootAssumption
<1>5. ASSUME LoaderMainReady PROVE BootTypeOK'
  BY <1>5 DEF LoaderMainReady, BootTypeOK, modeVars
<1>6. ASSUME FlashLoad PROVE BootTypeOK'
  <2>1. boot' \in 0..2
    BY <1>6 DEF FlashLoad, BootTypeOK
  <2>2. network' \in Networks \cup {None} /\ info' \in Infos \cup {None}
    BY <1>6 DEF FlashLoad, BootTypeOK, BootAssumption
  <2>. QED
    BY <1>6, <2>1, <2>2 DEF FlashLoad, BootTypeOK, modeVars
<1>7. ASSUME NetworkReady PROVE BootTypeOK'
  BY <1>7 DEF NetworkReady, BootTypeOK, modeVars
<1>8. ASSUME ModeChanges PROVE BootTypeOK'
  BY <1>8 DEF ModeChanges, BootTypeOK
<1>. QED
  BY <1>1, <1>3, <1>4, <1>5, <1>6, <1>7, <1>8 DEF BootNext

-----------------------------------------------------------------------------
\* The position of a call that runs

LEMMA Running ==
  ASSUME TypeOK, CallInv, op # "idle", NEW o, o = op, NEW w, w = want, NEW n, n = step
  PROVE /\ o \in {"open", "reset"}
        /\ o = "open" => w \in Requests
        /\ Script = ScriptOf(o, w)
        /\ n \in 1..Len(ScriptOf(o, w)) /\ n \in Int
        /\ o = "reset" => Len(ScriptOf(o, w)) = 4
        /\ o = "open" => Len(ScriptOf(o, w)) = Last(w) /\ Last(w) \in 13..16
        /\ Base(w) \in {6, 8}
<1>1. o \in {"open", "reset"} /\ (o = "open" => w \in Requests) /\ Script = ScriptOf(o, w)
  BY DEF TypeOK, CallInv, Script, ScriptOf
<1>2. n \in 1..Len(ScriptOf(o, w))
  BY <1>1 DEF TypeOK
<1>3. o = "reset" => Len(ScriptOf(o, w)) = 4
  BY ResetScript
<1>4. o = "open" => Len(ScriptOf(o, w)) = Last(w)
  BY <1>2, OpenScript
<1>5. Base(w) \in {6, 8} /\ Last(w) \in 13..16
  BY DEF Base, Last
<1>6. n \in Int
  BY <1>1, <1>2, <1>3, <1>4, <1>5
<1>. QED
  BY <1>1, <1>2, <1>3, <1>4, <1>5, <1>6

\* What the call does at the position, whichever function runs
LEMMA AtPosition ==
  ASSUME TypeOK, CallInv, op # "idle", NEW o, o = op, NEW w, w = want, NEW n, n = step,
         NEW x, x = Script[step]
  PROVE /\ x = "reset" <=> n = 1
        /\ x = "boot" <=> n = 2
        /\ x = "query" <=> n = 3
        /\ n = 4 => x = "freq"
        /\ x = "weights" <=> o = "open" /\ Direct(w) /\ n = 6
        /\ x = "info" <=> o = "open" /\ Direct(w) /\ n = 7
        /\ x = "cache" <=> o = "open" /\ Direct(w) /\ n = 8
        /\ x = "flash" <=> o = "open" /\ ~Direct(w) /\ n = 6
        /\ x \in Modes <=> o = "open" /\ (n = 5 \/ n = Base(w) + 8)
        /\ o = "open" /\ n = 5 => x = IF Direct(w) THEN "toSspi" ELSE "none"
        /\ o = "open" /\ n = Base(w) + 8 => x = MetadataMode(w.spi)
        /\ x \in Settings <=> n = 4 \/ (o = "open" /\ n \in Base(w)+1..Base(w)+7)
        /\ o = "open" /\ x \in Settings => n = Place(w, x)
        /\ o = "open" => \A k \in Clears(x) : Place(w, k) > n
        /\ x = "mipi" <=> o = "open" /\ n = Base(w) + 6
        /\ x = "spi" <=> o = "open" /\ n = Base(w) + 7
<1>1. o \in {"open", "reset"} /\ Script = ScriptOf(o, w) /\ n \in 1..Len(ScriptOf(o, w)) /\ n \in Int
  BY Running
<1>2. CASE o = "open"
  BY <1>1, <1>2, OpenScript
<1>3. CASE o = "reset"
  <2>1. n \in 1..4
    BY <1>1, <1>3, ResetScript
  <2>. QED
    BY <1>1, <1>3, <2>1, ResetScript DEF Modes, Settings
<1>. QED
  BY <1>1, <1>2, <1>3

-----------------------------------------------------------------------------
\* The ends of a step

\* Giving up leaves nothing to be shown.
LEMMA GivesUp ==
  ASSUME GiveUp
  PROVE CallInv' /\ LiveInv' /\ SettledInv'
  BY DEF GiveUp, Return, CallInv, LiveInv, SettledInv

\* A return keeps the types of the variables of the SDK that it assigns.
LEMMA Return_Typed ==
  ASSUME TypeOK, NEW v \in {"ok", "failed"}, Return(v)
  PROVE /\ op' = "idle" /\ want' = None /\ step' \in 1..Len(Script') /\ io' = "start"
        /\ polls' \in 0..MaxPolls-1
        /\ ret' \in {"none", "ok", "failed"}
        /\ UNCHANGED <<calls, restarted, disturbed>>
        /\ opened' \in Requests \cup {None}
<1>1. Script' = ScriptOf("reset", want')
  BY DEF Return, Script, ScriptOf
<1>2. Len(Script') = 4
  BY <1>1, ResetScript
<1>3. polls' \in 0..MaxPolls-1
  BY DEF Return, OpeningAssumption
<1>4. opened' \in Requests \cup {None}
  BY DEF Return, TypeOK
<1>. QED
  BY <1>2, <1>3, <1>4 DEF Return

LEMMA Done_Typed ==
  ASSUME TypeOK, CallInv, op # "idle", Done
  PROVE /\ op' \in {"idle", "open", "reset"} /\ want' \in Requests \cup {None}
        /\ step' \in 1..Len(Script') /\ io' = "start"
        /\ polls' \in 0..MaxPolls-1
        /\ ret' \in {"none", "ok", "failed"}
        /\ UNCHANGED <<calls, restarted, disturbed>>
        /\ opened' \in Requests \cup {None}
<1>1. CASE step = Len(Script)
  BY <1>1, Return_Typed DEF Done
<1>2. CASE step # Len(Script)
  <2>1. Script' = Script
    BY <1>2 DEF Done, Script, LoadScript, ForwardScript
  <2>2. step' \in 1..Len(Script')
    <3>1. step \in 1..Len(Script) /\ Len(Script) \in Int
      BY Running
    <3>. QED
      BY <1>2, <2>1, <3>1 DEF Done
  <2>3. polls' \in 0..MaxPolls-1
    BY <1>2 DEF Done, OpeningAssumption
  <2>. QED
    BY <1>2, <2>1, <2>2, <2>3 DEF Done, TypeOK
<1>. QED
  BY <1>1, <1>2

\* A step that succeeds moves the call on, or ends it with what was asked for in
\* effect.
LEMMA DoneAdvances ==
  ASSUME TypeOK, CallInv, SettledInv, op # "idle", Done,
         NEW o, o = op, NEW w, w = want, NEW n, n = step,
         Progress(o, w, n + 1, "start")',
         n # 1 /\ "reset" \in met' => "reset" \in met
  PROVE CallInv' /\ LiveInv' /\ SettledInv'
<1>. Base(w) \in {6, 8} /\ n \in Int
  BY Running
<1>1. CASE step = Len(Script)
  <2>1. op' = "idle" /\ want' = None /\ step' = 1 /\ io' = "start" /\ disturbed' = disturbed
    BY <1>1 DEF Done, Return
  <2>2. CallInv' /\ LiveInv'
    BY <2>1 DEF CallInv, LiveInv
  <2>3. CASE opened' = None
    BY <2>2, <2>3 DEF SettledInv
  <2>4. CASE opened' # None
    <3>1. /\ o = "open" /\ opened' = w /\ disturbed' = FALSE /\ disturbed = FALSE
          /\ "reset" \notin met
      BY <1>1, <2>1, <2>4 DEF Done, Return, TypeOK
    <3>2. n = Last(w) /\ w \in Requests /\ "reset" \notin met'
      BY <1>1, <3>1, Running DEF Last
    <3>3. left' = None /\ restarting' = FALSE
      BY <3>2 DEF Progress, Quiet, Booted, Last
    <3>4. /\ Direct(w) => flashReq' = FALSE /\ network' = w.nn /\ info' = w.info /\ cache' = w.info
          /\ ~Direct(w) => flashReq' = FALSE /\ network' = FlashNetwork /\ info' = FlashInfo
      BY <3>1, <3>2 DEF Progress, Loaded, Booted, FlashLoaded, Last
    <3>5. mode' = MetadataMode(w.spi) /\ modeReq' \in {None, mode'}
      <4>1. CASE Forwards(w)
        <5>1. n + 1 = Base(w) + 9
          BY <3>2, <4>1 DEF Last
        <5>. QED
          BY <3>1, <5>1 DEF Progress, Forwarding, Switched
      <4>2. CASE ~Forwards(w)
        <5>1. n + 1 = Base(w) + 8
          BY <3>2, <4>2 DEF Last
        <5>2. MetadataMode(w.spi) = "none"
          BY <4>2 DEF MetadataMode, Forwards
        <5>. QED
          BY <3>1, <5>1, <5>2 DEF Progress, Forwarding, Switched
      <4>. QED
        BY <4>1, <4>2
    <3>6. \A k \in Settings : InEffect(k, w)'
      <4>1. \A k \in Settings : Place(w, k) < n + 1
        BY <3>2 DEF Place, Last
      <4>. QED
        BY <3>1, <3>2, <4>1 DEF Progress, Configured, Last
    <3>7. AsAsked(w)'
      BY <3>4, <3>5, <3>6 DEF AsAsked, InEffect, Direct
    <3>8. SettledInv'
      BY <2>1, <3>1, <3>3, <3>4, <3>7 DEF SettledInv, AsAsked
    <3>. QED
      BY <2>2, <3>8
  <2>. QED
    BY <2>3, <2>4
<1>2. CASE step # Len(Script)
  <2>1. op' = o /\ want' = w /\ step' = n + 1 /\ io' = "start" /\ opened' = opened
    BY <1>2 DEF Done
  <2>2. opened = None
    BY DEF SettledInv
  <2>3. CallInv'
    BY <2>1 DEF CallInv
  <2>4. LiveInv'
    BY <2>1 DEF LiveInv, Progress, Quiet, Restarts, Loaded, Forwarding, Configured
  <2>. QED
    BY <2>1, <2>2, <2>3, <2>4 DEF SettledInv
<1>. QED
  BY <1>1, <1>2

-----------------------------------------------------------------------------
\* The module's own steps keep what the call relies on.

LEMMA ModuleHistory ==
  ASSUME TypeOK, ModuleStep
  PROVE /\ restarted = TRUE \/ Reset \/ Brownout => restarted' = TRUE
        /\ Brownout => disturbed' = TRUE /\ opened' = None
        /\ disturbed' = FALSE => disturbed = FALSE
        /\ ~Brownout => disturbed' = disturbed /\ opened' = opened
        /\ UNCHANGED <<op, want, step, io, cache, met>>
<1>1. Brownout => resets' # resets
  BY DEF Brownout, TypeOK, BootTypeOK
<1>2. ~Brownout => resets' = resets
  BY DEF ModuleStep, BootNext, LeftEnds, Reset, LoaderMainReady, FlashLoad, NetworkReady, ModeChanges
<1>3. disturbed \in BOOLEAN /\ restarted \in BOOLEAN
  BY DEF TypeOK
<1>4. /\ restarted' = (restarted \/ Reset \/ resets' # resets)
      /\ disturbed' = (disturbed \/ resets' # resets)
      /\ opened' = IF resets' # resets THEN None ELSE opened
      /\ UNCHANGED <<op, want, step, io, cache, met>>
  BY DEF ModuleStep, posVars
<1>5. restarted = TRUE \/ Reset \/ Brownout => restarted' = TRUE
  BY <1>1, <1>3, <1>4, Zenon
<1>6. (Brownout => disturbed' = TRUE) /\ (~Brownout => disturbed' = disturbed)
  BY <1>1, <1>2, <1>3, <1>4, Zenon
<1>. QED
  BY <1>1, <1>2, <1>3, <1>4, <1>5, <1>6

LEMMA ModuleQuiet ==
  ASSUME TypeOK, ModuleStep, NEW n \in Int, NEW i \in {"start", "poll"}, Quiet(n, i)
  PROVE Quiet(n, i)'
<1>1. ASSUME LeftEnds PROVE Quiet(n, i)'
  <2>1. left' = None /\ left # None
    BY <1>1 DEF LeftEnds
  <2>2. Booted(n, i) => restarting' = FALSE
    <3>1. ASSUME Booted(n, i) PROVE n = 4 /\ left.key = "query" /\ restarting = FALSE
      BY <2>1, <3>1 DEF Quiet
    <3>. QED
      BY <1>1, <3>1 DEF LeftEnds, Run
  <2>. QED
    BY <2>1, <2>2 DEF Quiet, Booted
<1>2. ASSUME Reset \/ Brownout PROVE Quiet(n, i)'
  BY <1>2 DEF Reset, Brownout, PowerOn, Quiet, Booted
<1>3. ASSUME LoaderMainReady \/ FlashLoad \/ NetworkReady \/ ModeChanges PROVE Quiet(n, i)'
  BY <1>3 DEF LoaderMainReady, FlashLoad, NetworkReady, ModeChanges, Quiet, Booted
<1>. QED
  BY <1>1, <1>2, <1>3 DEF ModuleStep, BootNext

LEMMA ModuleRestarts ==
  ASSUME TypeOK, ModuleStep, NEW n \in Int, NEW i \in {"start", "poll"}, Restarts(n, i)
  PROVE Restarts(n, i)'
<1>1. met' = met
  BY ModuleHistory
<1>2. restarted = TRUE => restarted' = TRUE
  BY ModuleHistory
<1>3. restarting = TRUE => restarting' = TRUE \/ restarted' = TRUE
  <2>1. CASE LeftEnds
    BY <2>1 DEF LeftEnds, Run
  <2>2. CASE Reset \/ Brownout
    BY <2>2, ModuleHistory
  <2>3. CASE LoaderMainReady \/ FlashLoad \/ NetworkReady \/ ModeChanges
    BY <2>3 DEF LoaderMainReady, FlashLoad, NetworkReady, ModeChanges
  <2>. QED
    BY <2>1, <2>2, <2>3 DEF ModuleStep, BootNext
<1>. QED
  BY <1>1, <1>2, <1>3 DEF Restarts, Booted

LEMMA ModuleLoaded ==
  ASSUME TypeOK, ModuleStep, NEW o, NEW w, NEW n \in Int, NEW i \in {"start", "poll"},
         Quiet(n, i), Loaded(o, w, n, i)
  PROVE Loaded(o, w, n, i)'
<1>. SUFFICES ASSUME "reset" \notin met', disturbed' = FALSE PROVE Loaded(o, w, n, i)'
  BY DEF Loaded
<1>1. /\ "reset" \notin met /\ disturbed = FALSE /\ cache' = cache /\ ~Brownout
  BY ModuleHistory
<1>2. ASSUME LeftEnds PROVE Loaded(o, w, n, i)'
  <2>1. restarting = TRUE => restarting' = TRUE
    BY <1>2 DEF LeftEnds, Run
  <2>. QED
    BY <1>1, <1>2, <2>1 DEF LeftEnds, modeVars, Loaded, Fresh, FlashLoading, FlashLoaded, Booted, Direct
<1>3. ASSUME Reset PROVE Loaded(o, w, n, i)'
  <2>1. ~Booted(n, i)
    BY <1>3 DEF Reset, Quiet
  <2>2. Fresh'
    BY <1>3 DEF Reset, PowerOn, Fresh
  <2>. QED
    BY <2>1, <2>2 DEF Loaded, Booted
<1>4. ASSUME LoaderMainReady PROVE Loaded(o, w, n, i)'
  <2>1. /\ boot = 0 /\ boot' = 1
        /\ UNCHANGED <<restarting, flashReq, network, info, mode, modeReq>>
    BY <1>4 DEF LoaderMainReady, modeVars
  <2>. QED
    BY <1>1, <2>1 DEF Loaded, Fresh, FlashLoading, FlashLoaded, Booted, Direct
<1>5. ASSUME FlashLoad PROVE Loaded(o, w, n, i)'
  <2>1. /\ flashReq = TRUE /\ flashReq' = FALSE
        /\ (FlashLoaded' \/ UNCHANGED <<boot, network, info>>)
        /\ UNCHANGED <<restarting, mode, modeReq>>
    BY <1>5 DEF FlashLoad, modeVars, FlashLoaded, TypeOK, BootTypeOK
  <2>2. ~Fresh /\ ~FlashLoaded
    BY <2>1 DEF Fresh, FlashLoaded
  <2>. QED
    BY <1>1, <2>1, <2>2 DEF Loaded, FlashLoading, FlashLoaded, Booted, Direct
<1>6. ASSUME NetworkReady PROVE Loaded(o, w, n, i)'
  <2>1. /\ boot = 1 /\ network # None
        /\ UNCHANGED <<restarting, flashReq, network, info, mode, modeReq>>
    BY <1>6 DEF NetworkReady, modeVars
  <2>. QED
    BY <1>1, <2>1 DEF Loaded, Fresh, FlashLoading, FlashLoaded, Booted, Direct
<1>7. ASSUME ModeChanges PROVE Loaded(o, w, n, i)'
  <2>1. modeReq # None /\ UNCHANGED <<boot, restarting, flashReq, network, info>>
    BY <1>7 DEF ModeChanges
  <2>. QED
    BY <1>1, <2>1 DEF Loaded, Fresh, FlashLoading, FlashLoaded, Booted, Direct
<1>. QED
  BY <1>1, <1>2, <1>3, <1>4, <1>5, <1>6, <1>7 DEF ModuleStep, BootNext

LEMMA ModuleForwarding ==
  ASSUME TypeOK, ModuleStep, NEW o, NEW w, NEW n \in Int, NEW i \in {"start", "poll"},
         Quiet(n, i), Forwarding(o, w, n, i)
  PROVE Forwarding(o, w, n, i)'
<1>. Base(w) \in {6, 8}
  BY DEF Base
<1>. SUFFICES ASSUME disturbed' = FALSE, o = "open" PROVE Forwarding(o, w, n, i)'
  BY DEF Forwarding
<1>1. disturbed = FALSE /\ ~Brownout
  BY ModuleHistory
<1>2. CASE n <= 4
  BY <1>2 DEF Forwarding
<1>3. CASE n > 4
  <2>1. ~Reset
    BY <1>3 DEF Reset, Quiet, Booted
  <2>2. \A m : (Switching(m) => Switching(m)') /\ (Switched(m) => Switched(m)')
    <3>1. CASE ModeChanges
      BY <3>1 DEF ModeChanges, Switching, Switched
    <3>2. CASE ~ModeChanges
      <4>1. UNCHANGED <<mode, modeReq>>
        BY <1>1, <2>1, <3>2 DEF ModuleStep, BootNext, LeftEnds, LoaderMainReady, FlashLoad, NetworkReady,
          modeVars
      <4>. QED
        BY <4>1 DEF Switching, Switched
    <3>. QED
      BY <3>1, <3>2
  <2>. QED
    BY <1>1, <2>2 DEF Forwarding
<1>. QED
  BY <1>2, <1>3

LEMMA ModuleConfigured ==
  ASSUME TypeOK, ModuleStep, NEW o, NEW w, NEW n \in Int, NEW i \in {"start", "poll"},
         Quiet(n, i), Configured(o, w, n)
  PROVE Configured(o, w, n)'
<1>. SUFFICES ASSUME disturbed' = FALSE, o = "open", n > 4 PROVE Configured(o, w, n)'
  BY DEF Configured
<1>1. disturbed = FALSE /\ ~Brownout /\ met' = met
  BY ModuleHistory
<1>2. ~Reset /\ ~LeftEnds
  BY DEF Reset, LeftEnds, Quiet, Booted
<1>3. config' = config
  BY <1>1, <1>2 DEF ModuleStep, BootNext, LoaderMainReady, FlashLoad, NetworkReady, ModeChanges
<1>. QED
  BY <1>1, <1>3 DEF Configured, InEffect

LEMMA ModuleSettled ==
  ASSUME TypeOK, ModuleStep, SettledInv
  PROVE SettledInv'
<1>. SUFFICES ASSUME opened' # None PROVE SettledInv'
  BY DEF SettledInv
<1>1. opened' = opened /\ ~Brownout /\ UNCHANGED <<op, cache, met>>
  BY ModuleHistory
<1>2. op = "idle" /\ left = None /\ restarting = FALSE /\ flashReq = FALSE /\ AsAsked(opened)
  BY <1>1 DEF SettledInv
<1>3. ~LeftEnds /\ ~Reset /\ ~FlashLoad
  BY <1>2 DEF LeftEnds, Reset, FlashLoad
<1>4. UNCHANGED <<left, restarting, flashReq, network, info, config>>
  BY <1>1, <1>3 DEF ModuleStep, BootNext, LoaderMainReady, NetworkReady, ModeChanges
<1>5. Switched(MetadataMode(opened.spi))
  BY <1>2 DEF AsAsked, Switched
<1>6. mode' = MetadataMode(opened.spi) /\ modeReq' \in {None, mode'}
  BY <1>1, <1>3, <1>5 DEF ModuleStep, BootNext, LoaderMainReady, NetworkReady, ModeChanges,
    modeVars, Switched
<1>7. AsAsked(opened)'
  BY <1>1, <1>2, <1>4, <1>6 DEF AsAsked
<1>. QED
  BY <1>1, <1>2, <1>4, <1>7 DEF SettledInv

LEMMA ModuleKeeps ==
  ASSUME TypeOK, CallInv, LiveInv, SettledInv, ModuleStep
  PROVE CallInv' /\ LiveInv' /\ SettledInv'
<1>1. UNCHANGED <<op, want, step, io>>
  BY ModuleHistory
<1>2. CallInv'
  BY <1>1 DEF CallInv
<1>3. LiveInv'
  <2>. SUFFICES ASSUME op # "idle", NEW o, o = op, NEW w, w = want, NEW n, n = step, NEW i, i = io
                PROVE Progress(o, w, n, i)'
    BY <1>1 DEF LiveInv, Progress, Quiet, Restarts, Loaded, Forwarding, Configured
  <2>1. n \in Int /\ i \in {"start", "poll"} /\ Progress(o, w, n, i)
    BY Running DEF LiveInv, TypeOK
  <2>. QED
    BY <2>1, ModuleQuiet, ModuleRestarts, ModuleLoaded, ModuleForwarding, ModuleConfigured DEF Progress
<1>. QED
  BY <1>2, <1>3, ModuleSettled

-----------------------------------------------------------------------------
\* The steps of the SDK

\* Poll: what was waited for has come, or the wait goes on.
LEMMA PollReached ==
  ASSUME TypeOK, CallInv, LiveInv, op # "idle", io = "poll", Reached, UNCHANGED <<bootVars, cache, met>>,
         UNCHANGED <<restarted, disturbed>>,
         NEW o, o = op, NEW w, w = want, NEW n, n = step
  PROVE Progress(o, w, n + 1, "start")'
<1>1. /\ o \in {"open", "reset"} /\ n \in Int /\ n > 0 /\ Base(w) \in {6, 8}
      /\ Progress(o, w, n, "poll")
  BY Running DEF LiveInv
<1>2. UNCHANGED <<boot, restarting, flashReq, network, info, config, left, mode, modeReq>>
  BY DEF bootVars, modeVars
<1>3. CASE At({"boot"})
  <2>1. n = 2
    BY <1>3, AtPosition DEF At
  <2>. QED
    BY <1>1, <1>2, <2>1 DEF Progress, Quiet, Restarts, Loaded, Fresh, Forwarding, Configured, Booted
<1>4. CASE At({"flash"}) /\ boot = 2
  <2>1. o = "open" /\ ~Direct(w) /\ n = 6
    BY <1>4, AtPosition DEF At
  <2>2. Base(w) = 6
    BY <2>1 DEF Base
  <2>3. Quiet(n + 1, "start")' /\ Restarts(n + 1, "start")'
    BY <1>1, <1>2, <2>1 DEF Progress, Quiet, Restarts, Booted
  <2>4. Loaded(o, w, n + 1, "start")'
    BY <1>1, <1>2, <1>4, <2>1 DEF Progress, Loaded, FlashLoading, FlashLoaded
  <2>5. Forwarding(o, w, n + 1, "start")'
    BY <1>1, <1>2, <2>1, <2>2 DEF Progress, Forwarding, Switched
  <2>6. Configured(o, w, n + 1)'
    <3>1. \A k \in Settings : Place(w, k) < 7 => Place(w, k) < 6
      BY <2>2 DEF Place
    <3>. QED
      BY <1>1, <1>2, <2>1, <3>1 DEF Progress, Configured, InEffect
  <2>. QED
    BY <2>3, <2>4, <2>5, <2>6 DEF Progress
<1>5. CASE At(Modes) /\ mode = Script[step]
  <2>1. o = "open" /\ (n = 5 \/ n = Base(w) + 8)
    BY <1>5, AtPosition DEF At
  <2>2. mode = IF n = 5 THEN (IF Direct(w) THEN "toSspi" ELSE "none") ELSE MetadataMode(w.spi)
    BY <1>1, <1>5, <2>1, AtPosition
  <2>3. Quiet(n + 1, "start")' /\ Restarts(n + 1, "start")'
    BY <1>1, <1>2, <2>1 DEF Progress, Quiet, Restarts, Booted
  <2>4. Loaded(o, w, n + 1, "start")'
    BY <1>1, <1>2, <2>1 DEF Progress, Loaded, Booted, FlashLoading, FlashLoaded
  <2>5. Forwarding(o, w, n + 1, "start")'
    BY <1>1, <1>2, <2>1, <2>2 DEF Progress, Forwarding, Switching, Switched
  <2>6. Configured(o, w, n + 1)'
    <3>1. \A k \in Settings : Place(w, k) < n + 1 => Place(w, k) < n
      BY <1>1, <2>1 DEF Place
    <3>. QED
      BY <1>1, <1>2, <2>1, <3>1 DEF Progress, Configured, InEffect
  <2>. QED
    BY <2>3, <2>4, <2>5, <2>6 DEF Progress
<1>. QED
  BY <1>3, <1>4, <1>5 DEF Reached

LEMMA PollKeeps ==
  ASSUME TypeOK, CallInv, LiveInv, SettledInv, Poll
  PROVE CallInv' /\ LiveInv' /\ SettledInv'
<1>1. op # "idle" /\ io = "poll" /\ UNCHANGED <<bootVars, cache, met>>
  BY DEF Poll
<1>2. CASE Reached /\ Done
  <2>1. UNCHANGED <<restarted, disturbed>>
    BY <1>1, <1>2, Done_Typed
  <2>. QED
    BY <1>1, <1>2, <2>1, PollReached, DoneAdvances
<1>3. CASE UNCHANGED <<op, want, step, io, restarted, disturbed, opened>>
  BY <1>1, <1>3 DEF CallInv, LiveInv, SettledInv, Progress, Quiet, Restarts, Loaded, Forwarding,
    Configured, Fresh, FlashLoading, FlashLoaded, Switching, Switched, InEffect, AsAsked,
    bootVars, modeVars
<1>4. CASE GiveUp
  BY <1>4, GivesUp
<1>. QED
  BY <1>2, <1>3, <1>4 DEF Poll, TimedOut

\* StartWait: the sleep after RESET is over, or something is asked of the module.
LEMMA StartWaitKeeps ==
  ASSUME PromptReset, TypeOK, CallInv, LiveInv, SettledInv, StartWait
  PROVE CallInv' /\ LiveInv' /\ SettledInv'
<1>1. CASE GiveUp
  BY <1>1, GivesUp
<1>2. ASSUME StartPolling,
             \/ At({"boot"}) /\ Slept /\ UNCHANGED bootVars
             \/ At({"flash"}) /\ AcceptFlashRequest
             \/ At(Modes) /\ AcceptMode(Script[step])
      PROVE CallInv' /\ LiveInv' /\ SettledInv'
  <2>1. /\ io = "start" /\ io' = "poll" /\ op # "idle"
        /\ UNCHANGED <<op, want, step, restarted, disturbed, opened, cache, met>>
    BY <1>2 DEF StartPolling, StartWait, At
  <2>2. CallInv'
    BY <2>1 DEF CallInv
  <2>3. opened = None
    BY <2>1 DEF SettledInv
  <2>. SUFFICES ASSUME NEW o, o = op, NEW w, w = want, NEW n, n = step
                PROVE Progress(o, w, n, "poll")'
    BY <2>1, <2>2, <2>3 DEF LiveInv, SettledInv, Progress, Quiet, Restarts, Loaded, Forwarding, Configured
  <2>4. /\ o \in {"open", "reset"} /\ n \in Int /\ n > 0 /\ Base(w) \in {6, 8}
        /\ Progress(o, w, n, "start")
    BY <2>1, Running DEF LiveInv
  <2>5. CASE At({"boot"}) /\ Slept /\ UNCHANGED bootVars
    <3>1. n = 2 /\ restarting = FALSE
      BY <2>5, AtPosition DEF At, Slept, TypeOK, BootTypeOK
    <3>. QED
      BY <2>1, <2>4, <2>5, <3>1 DEF Progress, Quiet, Restarts, Loaded, Fresh, Forwarding, Configured, Booted,
        bootVars, modeVars
  <2>6. CASE At({"flash"}) /\ AcceptFlashRequest
    <3>1. o = "open" /\ ~Direct(w) /\ n = 6
      BY <2>1, <2>6, AtPosition DEF At
    <3>2. UNCHANGED <<boot, restarting, network, info, config, left, mode, modeReq>>
      BY <2>6 DEF AcceptFlashRequest, modeVars
    <3>. QED
      BY <2>1, <2>4, <3>1, <3>2 DEF Progress, Quiet, Restarts, Loaded, FlashLoading, Forwarding, Switched,
        Configured, InEffect, Booted
  <2>7. CASE At(Modes) /\ AcceptMode(Script[step])
    <3>1. o = "open" /\ (n = 5 \/ n = Base(w) + 8)
      BY <2>1, <2>7, AtPosition DEF At
    <3>2. /\ modeReq' = IF n = 5 THEN (IF Direct(w) THEN "toSspi" ELSE "none") ELSE MetadataMode(w.spi)
          /\ UNCHANGED <<boot, restarting, flashReq, network, info, config, left>>
      BY <2>1, <2>4, <2>7, <3>1, AtPosition DEF AcceptMode
    <3>3. Quiet(n, "poll")' /\ Restarts(n, "poll")'
      BY <2>1, <2>4, <3>1, <3>2 DEF Progress, Quiet, Restarts, Booted
    <3>4. Loaded(o, w, n, "poll")'
      BY <2>1, <2>4, <3>1, <3>2 DEF Progress, Loaded, Booted, FlashLoading, FlashLoaded
    <3>5. Forwarding(o, w, n, "poll")'
      BY <2>1, <2>4, <3>1, <3>2 DEF Progress, Forwarding, Switching
    <3>6. Configured(o, w, n)'
      BY <2>1, <2>4, <3>1, <3>2 DEF Progress, Configured, InEffect
    <3>. QED
      BY <3>3, <3>4, <3>5, <3>6 DEF Progress
  <2>. QED
    BY <1>2, <2>5, <2>6, <2>7
<1>. QED
  BY <1>1, <1>2 DEF StartWait

\* The loads of a direct boot
LEMMA LoadsKeep ==
  ASSUME TypeOK, CallInv, LiveInv, SettledInv, LoadWeights \/ LoadInfo \/ LoadCache
  PROVE CallInv' /\ LiveInv' /\ SettledInv'
<1>1. CASE GiveUp
  BY <1>1, GivesUp
<1>2. ASSUME Done, UNCHANGED met,
             \/ At({"weights"}) /\ Install(want.nn) /\ UNCHANGED cache /\ mode = "toSspi"
             \/ At({"info"}) /\ Import(want.info) /\ UNCHANGED cache
             \/ At({"cache"}) /\ cache' = want.info /\ UNCHANGED bootVars
      PROVE CallInv' /\ LiveInv' /\ SettledInv'
  <2>1. op # "idle" /\ UNCHANGED <<restarted, disturbed>>
    BY <1>2, Done_Typed DEF At
  <2>. SUFFICES ASSUME NEW o, o = op, NEW w, w = want, NEW n, n = step
                PROVE Progress(o, w, n + 1, "start")'
    BY <1>2, <2>1, DoneAdvances
  <2>2. n \in Int /\ Base(w) \in {6, 8} /\ io \in {"start", "poll"}
    BY <2>1, Running DEF TypeOK
  <2>3. PICK i \in {"start", "poll"} : Progress(o, w, n, i)
    BY <2>1, <2>2 DEF LiveInv
  <2>4. /\ o = "open" /\ Direct(w) /\ n \in {6, 7, 8} /\ Base(w) = 8
        /\ At({"weights"}) => n = 6
        /\ At({"info"}) => n = 7
        /\ At({"cache"}) => n = 8
    BY <1>2, <2>1, AtPosition DEF At, Base
  <2>5. \A k \in Settings : Place(w, k) < n + 1 => Place(w, k) < n
    BY <2>4 DEF Place
  <2>6. UNCHANGED <<boot, restarting, flashReq, config, left>>
    BY <1>2 DEF Install, Import, bootVars, modeVars
  <2>7. Quiet(n + 1, "start")' /\ Restarts(n + 1, "start")'
    BY <1>2, <2>1, <2>3, <2>4, <2>6 DEF Progress, Quiet, Restarts, Booted
  <2>8. Configured(o, w, n + 1)'
    BY <1>2, <2>1, <2>3, <2>4, <2>5, <2>6 DEF Progress, Configured, InEffect
  <2>9. CASE At({"weights"}) /\ Install(want.nn) /\ UNCHANGED cache
    <3>1. n = 6 /\ network' = w.nn /\ UNCHANGED <<mode, modeReq>>
      BY <2>4, <2>9 DEF Install, modeVars
    <3>2. Loaded(o, w, n + 1, "start")'
      BY <1>2, <2>1, <2>3, <2>4, <2>6, <3>1 DEF Progress, Loaded, Booted
    <3>3. Forwarding(o, w, n + 1, "start")'
      BY <2>1, <2>3, <2>4, <3>1 DEF Progress, Forwarding, Switched
    <3>. QED
      BY <2>7, <2>8, <3>2, <3>3 DEF Progress
  <2>10. CASE At({"info"}) /\ Import(want.info) /\ UNCHANGED cache
    <3>1. n = 7 /\ info' = w.info /\ network' = network /\ mode' = "none" /\ modeReq' = None
      BY <2>4, <2>10 DEF Import
    <3>2. Loaded(o, w, n + 1, "start")'
      BY <1>2, <2>1, <2>3, <2>4, <2>6, <3>1 DEF Progress, Loaded, Booted
    <3>3. Forwarding(o, w, n + 1, "start")'
      BY <2>4, <3>1 DEF Forwarding, Switched
    <3>. QED
      BY <2>7, <2>8, <3>2, <3>3 DEF Progress
  <2>11. CASE At({"cache"}) /\ cache' = want.info /\ UNCHANGED bootVars
    <3>1. n = 8 /\ cache' = w.info /\ UNCHANGED <<network, info, mode, modeReq>>
      BY <2>4, <2>11 DEF bootVars, modeVars
    <3>2. Loaded(o, w, n + 1, "start")'
      BY <1>2, <2>1, <2>3, <2>4, <2>6, <3>1 DEF Progress, Loaded, Booted
    <3>3. Forwarding(o, w, n + 1, "start")'
      BY <2>1, <2>3, <2>4, <3>1 DEF Progress, Forwarding, Switched
    <3>. QED
      BY <2>7, <2>8, <3>2, <3>3 DEF Progress
  <2>. QED
    BY <1>2, <2>9, <2>10, <2>11
<1>. QED
  BY <1>1, <1>2 DEF LoadWeights, LoadInfo, LoadCache

\* A command that the call has written and that counts as done, with none of an
\* earlier call still running: it has run.
LEMMA CleanAnswer ==
  ASSUME TypeOK, NEW c \in Commands, Answered(c), left = None
  PROVE Run(c)
  BY DEF Answered

\* SendCommand, when the call goes on
LEMMA CommandDone ==
  ASSUME TypeOK, CallInv, LiveInv, op # "idle", Script[step] \in Settings \cup {"reset", "query"},
         NEW o, o = op, NEW w, w = want, NEW n, n = step,
         NEW c \in Commands, c.key = Script[step], c.value = Value(w, Script[step]),
         met' = IF left = None THEN met ELSE met \cup {c.key},
         Answered(c) \/ (Unanswered(c) /\ Script[step] = "query"),
         UNCHANGED <<cache, restarted, disturbed>>
  PROVE Progress(o, w, n + 1, "start")'
<1>1. n \in Int /\ n > 0 /\ Base(w) \in {6, 8} /\ o \in {"open", "reset"}
  BY Running
<1>2. PICK i \in {"start", "poll"} : Progress(o, w, n, i)
  BY DEF LiveInv, TypeOK
<1>3. n = 1 \/ n = 3 \/ n = 4 \/ (o = "open" /\ n \in Base(w)+1..Base(w)+7)
  BY AtPosition
<1>4. UNCHANGED <<boot, flashReq, network, info, mode, modeReq>>
  BY DEF Answered, Unanswered, bootVars, modeVars
<1>5. c.key = "reset" <=> n = 1
  BY AtPosition
<1>6. c.key = "query" <=> n = 3
  BY AtPosition
<1>7. CASE n = 1
  <2>1. Answered(c)
    BY <1>5, <1>7
  <2>2. left' = None
    BY <2>1 DEF Answered
  <2>3. "reset" \notin met' => restarting' = TRUE
    BY <1>5, <1>7, <2>1, CleanAnswer DEF Run
  <2>. QED
    BY <1>1, <1>7, <2>2, <2>3 DEF Progress, Quiet, Restarts, Loaded, Forwarding, Configured, Booted
<1>8. CASE n = 3
  <2>1. left = None /\ restarting = FALSE
    BY <1>2, <1>8 DEF Progress, Quiet, Booted
  <2>2. c.key = "query"
    BY <1>6, <1>8
  <2>3. restarting' = FALSE
    BY <2>1, <2>2, CleanAnswer DEF Unanswered, Run, bootVars
  <2>4. left' = None \/ left'.key = "query"
    BY <2>1, <2>2 DEF Unanswered, Answered, bootVars
  <2>5. met' = met
    BY <2>1
  <2>. QED
    BY <1>1, <1>2, <1>4, <1>8, <2>3, <2>4, <2>5
    DEF Progress, Quiet, Restarts, Loaded, Fresh, Forwarding, Configured, Booted
<1>9. CASE n = 4
  <2>1. restarting = FALSE /\ (left = None \/ left.key = "query") /\ c.key = "freq"
    BY <1>2, <1>9, AtPosition DEF Progress, Quiet, Booted
  <2>2. Answered(c)
    BY <2>1
  <2>3. left' = None /\ restarting' = FALSE
    BY <2>1, <2>2 DEF Answered, Run
  <2>4. InEffect("freq", w)'
    <3>1. CASE left = None
      BY <2>1, <2>2, <3>1, CleanAnswer DEF Run, After, InEffect, Settings
    <3>2. CASE left # None
      BY <2>1, <3>2 DEF InEffect
    <3>. QED
      BY <3>1, <3>2
  <2>5. "reset" \in met' <=> "reset" \in met
    BY <2>1
  <2>6. \A k \in Settings : Place(w, k) < n + 1 => k = "freq"
    BY <1>1, <1>9 DEF Place, Settings
  <2>7. Configured(o, w, n + 1)'
    BY <2>4, <2>6 DEF Configured
  <2>8. Quiet(n + 1, "start")' /\ Restarts(n + 1, "start")'
    BY <1>2, <1>9, <2>3, <2>5 DEF Progress, Quiet, Restarts, Booted
  <2>9. Loaded(o, w, n + 1, "start")'
    BY <1>1, <1>2, <1>4, <1>9, <2>5 DEF Progress, Loaded, Fresh, FlashLoading, Booted
  <2>10. Forwarding(o, w, n + 1, "start")'
    BY <1>1, <1>9 DEF Forwarding
  <2>. QED
    BY <2>7, <2>8, <2>9, <2>10 DEF Progress
<1>10. CASE o = "open" /\ n \in Base(w)+1..Base(w)+7
  <2>1. restarting = FALSE /\ left = None /\ met' = met /\ n > 6
    BY <1>1, <1>2, <1>10 DEF Progress, Quiet, Booted
  <2>2. Answered(c) /\ Run(c)
    BY <1>1, <1>6, <1>10, <2>1, CleanAnswer
  <2>3. left' = None /\ restarting' = FALSE
    <3>1. left' = None
      BY <2>2 DEF Answered
    <3>2. c.key # "reset"
      BY <1>5, <2>1
    <3>. QED
      BY <2>1, <2>2, <3>1, <3>2 DEF Run
  <2>4. Configured(o, w, n + 1)'
    <3>. SUFFICES ASSUME disturbed' = FALSE, NEW k \in Settings, Place(w, k) < n + 1
                  PROVE InEffect(k, w)'
      BY DEF Configured
    <3>1. c.key = Script[step] /\ c.key \in Settings /\ n = Place(w, c.key)
      BY <1>10, AtPosition
    <3>2. k \notin Clears(c.key)
      BY <1>1, <1>10, AtPosition DEF Place
    <3>3. config'[k] = IF k = c.key THEN c.value ELSE config[k]
      BY <2>2, <3>2 DEF Run, After
    <3>4. CASE k = c.key
      BY <3>1, <3>3, <3>4 DEF InEffect
    <3>5. CASE k # c.key
      <4>1. Place(w, k) < n
        BY <1>1, <3>1, <3>5 DEF Place, Settings
      <4>2. InEffect(k, w)
        BY <1>2, <1>10, <2>1, <4>1 DEF Progress, Configured
      <4>. QED
        BY <2>1, <3>3, <3>5, <4>2 DEF InEffect
    <3>. QED
      BY <3>4, <3>5
  <2>5. Quiet(n + 1, "start")' /\ Restarts(n + 1, "start")'
    BY <1>1, <1>2, <2>1, <2>3 DEF Progress, Quiet, Restarts, Booted
  <2>6. Loaded(o, w, n + 1, "start")'
    BY <1>1, <1>2, <1>4, <1>10, <2>1 DEF Progress, Loaded, FlashLoaded, Booted, Base
  <2>7. Forwarding(o, w, n + 1, "start")'
    BY <1>1, <1>2, <1>4, <1>10, <2>1 DEF Progress, Forwarding, Switched, Base
  <2>. QED
    BY <2>4, <2>5, <2>6, <2>7 DEF Progress
<1>. QED
  BY <1>3, <1>7, <1>8, <1>9, <1>10

LEMMA SendCommandKeeps ==
  ASSUME TypeOK, CallInv, LiveInv, SettledInv, SendCommand
  PROVE CallInv' /\ LiveInv' /\ SettledInv'
<1>. DEFINE c == [key |-> Script[step], value |-> Value(want, Script[step])]
<1>1. /\ op # "idle" /\ Script[step] \in Settings \cup {"reset", "query"}
      /\ UNCHANGED cache
  BY DEF SendCommand, At
<1>2. c \in Commands
  BY <1>1, CommandTyped DEF SendCommand, TypeOK, CallInv
<1>3. /\ met' = IF left = None THEN met ELSE met \cup {c.key}
      /\ (Answered(c) /\ Done) \/ (Unanswered(c) /\ CommandFails)
  BY DEF SendCommand
<1>4. c.key = Script[step] /\ c.value = Value(want, Script[step])
  OBVIOUS
<1>. HIDE DEF c
<1>5. CASE GiveUp
  BY <1>5, GivesUp
<1>6. CASE Done /\ (Answered(c) \/ (Unanswered(c) /\ Script[step] = "query"))
  <2>1. UNCHANGED <<restarted, disturbed>>
    BY <1>1, <1>6, Done_Typed
  <2>. SUFFICES ASSUME NEW o, o = op, NEW w, w = want, NEW n, n = step
                PROVE /\ Progress(o, w, n + 1, "start")'
                      /\ n # 1 /\ "reset" \in met' => "reset" \in met
    BY <1>1, <1>6, DoneAdvances
  <2>2. Progress(o, w, n + 1, "start")'
    BY <1>1, <1>2, <1>3, <1>4, <1>6, <2>1, CommandDone
  <2>3. n # 1 => c.key # "reset"
    BY <1>1, <1>4, AtPosition
  <2>. QED
    BY <1>3, <2>2, <2>3
<1>. QED
  BY <1>3, <1>5, <1>6 DEF CommandFails

\* A format without a command: the call goes on only past a reserved one.
LEMMA NoCommandKeeps ==
  ASSUME TypeOK, CallInv, LiveInv, SettledInv, NoCommand
  PROVE CallInv' /\ LiveInv' /\ SettledInv'
<1>1. CASE GiveUp
  BY <1>1, GivesUp
<1>2. CASE At({"spi"}) /\ want.spi = "reserved" /\ Done
  <2>1. op # "idle" /\ UNCHANGED <<restarted, disturbed, cache, met, bootVars>>
    BY <1>2, Done_Typed DEF NoCommand, At
  <2>. SUFFICES ASSUME NEW o, o = op, NEW w, w = want, NEW n, n = step
                PROVE Progress(o, w, n + 1, "start")'
    BY <1>2, <2>1, DoneAdvances
  <2>2. n \in Int /\ Base(w) \in {6, 8}
    BY <2>1, Running
  <2>3. PICK i \in {"start", "poll"} : Progress(o, w, n, i)
    BY <2>1 DEF LiveInv, TypeOK
  <2>4. o = "open" /\ n = Base(w) + 7
    BY <1>2, <2>1, AtPosition DEF At
  <2>5. UNCHANGED <<boot, restarting, flashReq, network, info, config, left, mode, modeReq>>
    BY <2>1 DEF bootVars, modeVars
  <2>6. \A k \in Settings : Place(w, k) < n + 1 => Place(w, k) < n \/ k = "spi"
    BY <2>2, <2>4 DEF Place, Settings
  <2>7. Configured(o, w, n + 1)'
    BY <1>2, <2>1, <2>2, <2>3, <2>4, <2>5, <2>6 DEF Progress, Configured, InEffect
  <2>8. Quiet(n + 1, "start")' /\ Restarts(n + 1, "start")'
    BY <2>1, <2>2, <2>3, <2>4, <2>5 DEF Progress, Quiet, Restarts, Booted
  <2>9. Loaded(o, w, n + 1, "start")'
    BY <2>1, <2>2, <2>3, <2>4, <2>5 DEF Progress, Loaded, FlashLoaded, Booted, Base
  <2>10. Forwarding(o, w, n + 1, "start")'
    BY <2>1, <2>2, <2>3, <2>4, <2>5 DEF Progress, Forwarding, Switched, Base
  <2>. QED
    BY <2>7, <2>8, <2>9, <2>10 DEF Progress
<1>. QED
  BY <1>1, <1>2 DEF NoCommand

LEMMA CallKeeps ==
  ASSUME TypeOK, CallInv, NEW f \in {"open", "reset"}, NEW w, f = "open" => w \in Requests,
         f = "reset" => w = None, Call(f, w)
  PROVE CallInv' /\ LiveInv' /\ SettledInv'
<1>1. op' = f /\ want' = w /\ step' = 1 /\ io' = "start" /\ opened' = None
  BY DEF Call, CallInv, posVars
<1>2. Base(w) \in {6, 8}
  BY DEF Base
<1>. QED
  BY <1>1, <1>2 DEF CallInv, LiveInv, SettledInv, Progress, Quiet, Restarts, Loaded, Forwarding, Configured, Booted

-----------------------------------------------------------------------------
\* The invariant

LEMMA HostTyped ==
  ASSUME TypeOK, CallInv, HostStep
  PROVE TypeOK'
<1>. DEFINE HostTypes == /\ op \in {"idle", "open", "reset"}
                         /\ want \in Requests \cup {None}
                         /\ step \in 1..Len(Script)
                         /\ io \in {"start", "poll"}
                         /\ polls \in 0..MaxPolls-1
                         /\ ret \in {"none", "ok", "failed"}
                         /\ opened \in Requests \cup {None}
<1>1. op # "idle"
  BY DEF HostStep, SendCommand, NoCommand, StartWait, Poll, LoadWeights, LoadInfo, LoadCache, At
<1>2. ASSUME Done PROVE HostTypes' /\ UNCHANGED <<calls, restarted, disturbed>>
  BY <1>1, <1>2, Done_Typed
<1>3. ASSUME GiveUp PROVE HostTypes' /\ UNCHANGED <<calls, restarted, disturbed>>
  BY <1>3, Return_Typed DEF GiveUp
<1>4. ASSUME UNCHANGED <<op, want, step, ret, opened>>, io' \in {"start", "poll"}, polls' \in 0..MaxPolls-1
      PROVE HostTypes'
  <2>1. Script' = Script
    BY <1>4 DEF Script, LoadScript, ForwardScript
  <2>. QED
    BY <1>4, <2>1 DEF TypeOK
<1>. HIDE DEF HostTypes
<1>5. ASSUME StartPolling PROVE HostTypes' /\ UNCHANGED <<calls, restarted, disturbed>>
  BY <1>4, <1>5 DEF StartPolling, TypeOK
<1>6. ASSUME HostTypes', BootTypeOK', cache' \in Infos \cup {None, "partial"},
             met' \subseteq Settings \cup {"reset", "query"}, UNCHANGED <<calls, restarted, disturbed>>
      PROVE TypeOK'
  BY <1>6 DEF TypeOK, HostTypes
<1>7. /\ BootTypeOK /\ cache \in Infos \cup {None, "partial"}
      /\ met \subseteq Settings \cup {"reset", "query"}
  BY DEF TypeOK
<1>8. UNCHANGED bootVars => BootTypeOK'
  BY <1>7 DEF bootVars, modeVars, BootTypeOK
<1>9. want \in Requests => want.nn \in Networks \cup {None} /\ want.info \in Infos
  BY DEF OpeningAssumption
<1>10. Script[step] \in Modes \cup {"weights", "info", "cache"} => want \in Requests
  BY <1>1, AtPosition DEF CallInv
<1>11. Script[step] = "weights" => want.nn \in Networks
  BY <1>1, <1>9, <1>10, AtPosition DEF Direct
<1>12. ASSUME SendCommand PROVE TypeOK'
  <2>. DEFINE c == [key |-> Script[step], value |-> Value(want, Script[step])]
  <2>1. c \in Commands
    BY <1>1, <1>12, CommandTyped DEF SendCommand, TypeOK, CallInv
  <2>2. met' \subseteq Settings \cup {"reset", "query"}
    BY <1>7, <1>12 DEF SendCommand, At
  <2>3. (Answered(c) /\ Done) \/ (Unanswered(c) /\ CommandFails)
    BY <1>12 DEF SendCommand
  <2>. HIDE DEF c
  <2>4. BootTypeOK'
    BY <1>7, <2>1, <2>3, AnsweredTyped, UnansweredTyped
  <2>. QED
    BY <1>2, <1>3, <1>6, <1>7, <1>12, <2>2, <2>3, <2>4 DEF CommandFails, SendCommand
<1>13. ASSUME NoCommand PROVE TypeOK'
  BY <1>2, <1>3, <1>6, <1>7, <1>8, <1>13 DEF NoCommand
<1>14. ASSUME StartWait PROVE TypeOK'
  <2>1. ASSUME AcceptFlashRequest PROVE BootTypeOK'
    BY <1>7, <2>1 DEF AcceptFlashRequest, modeVars, BootTypeOK
  <2>2. ASSUME At(Modes), AcceptMode(Script[step]) PROVE BootTypeOK'
    BY <1>7, <2>2 DEF AcceptMode, At, BootTypeOK
  <2>. QED
    BY <1>3, <1>5, <1>6, <1>7, <1>8, <1>14, <2>1, <2>2 DEF StartWait
<1>15. ASSUME Poll PROVE TypeOK'
  <2>1. ASSUME PollsLeft, polls' = polls + 1,
               UNCHANGED <<op, want, step, io, ret, calls, restarted, disturbed, opened>>
        PROVE HostTypes' /\ UNCHANGED <<calls, restarted, disturbed>>
    <3>1. polls' \in 0..MaxPolls-1 /\ io' \in {"start", "poll"}
      BY <2>1 DEF PollsLeft, TypeOK, OpeningAssumption
    <3>. QED
      BY <1>4, <2>1, <3>1
  <2>. QED
    BY <1>2, <1>3, <1>6, <1>7, <1>8, <1>15, <2>1 DEF Poll, TimedOut
<1>16. ASSUME LoadWeights PROVE TypeOK'
  <2>1. ASSUME Install(want.nn) PROVE BootTypeOK'
    BY <1>7, <1>11, <1>16, <2>1 DEF LoadWeights, At, Install, modeVars, BootTypeOK
  <2>. QED
    BY <1>2, <1>3, <1>6, <1>7, <1>8, <1>16, <2>1 DEF LoadWeights
<1>17. ASSUME LoadInfo PROVE TypeOK'
  <2>1. want.info \in Infos
    BY <1>9, <1>10, <1>17 DEF LoadInfo, At
  <2>2. {"none", "transfer"} \subseteq Modes
    BY DEF Modes
  <2>3. ASSUME Import(want.info) PROVE BootTypeOK'
    BY <1>7, <2>1, <2>2, <2>3 DEF Import, BootTypeOK
  <2>4. ASSUME ImportFails(want.info) PROVE BootTypeOK'
    BY <1>7, <2>1, <2>2, <2>4 DEF ImportFails, BootTypeOK
  <2>. QED
    BY <1>2, <1>3, <1>6, <1>7, <1>17, <2>3, <2>4 DEF LoadInfo
<1>18. ASSUME LoadCache PROVE TypeOK'
  <2>1. cache' \in Infos \cup {None, "partial"}
    BY <1>9, <1>10, <1>18 DEF LoadCache, At
  <2>. QED
    BY <1>2, <1>3, <1>6, <1>7, <1>8, <1>18, <2>1 DEF LoadCache
<1>. QED
  BY <1>12, <1>13, <1>14, <1>15, <1>16, <1>17, <1>18 DEF HostStep

LEMMA CallTyped ==
  ASSUME TypeOK, CallInv, NEW f \in {"open", "reset"}, NEW w \in Requests \cup {None},
         f = "open" => w \in Requests, Call(f, w)
  PROVE TypeOK'
<1>1. step' = 1 /\ op' = f /\ want' = w
  BY DEF Call, CallInv, posVars
<1>2. Script' = ScriptOf(f, w)
  BY <1>1 DEF Script, ScriptOf
<1>3. step' \in 1..Len(Script')
  <2>1. CASE f = "reset"
    BY <1>1, <1>2, <2>1, ResetScript
  <2>2. CASE f = "open"
    BY <1>1, <1>2, <2>2, DirectForward, DirectOnly, FlashForward, FlashOnly
  <2>. QED
    BY <2>1, <2>2
<1>4. BootTypeOK'
  BY DEF Call, TypeOK, bootVars, modeVars, BootTypeOK
<1>5. calls' \in 0..MaxCalls
  BY DEF Call, TypeOK, OpeningAssumption
<1>. QED
  BY <1>1, <1>3, <1>4, <1>5 DEF Call, TypeOK, posVars

LEMMA ModuleTyped ==
  ASSUME TypeOK, ModuleStep
  PROVE TypeOK'
<1>1. BootTypeOK'
  BY BootNextTyped DEF ModuleStep, TypeOK
<1>2. Script' = Script
  BY DEF ModuleStep, Script, LoadScript, ForwardScript
<1>3. restarted' \in BOOLEAN /\ disturbed' \in BOOLEAN
  BY DEF ModuleStep
<1>. QED
  BY <1>1, <1>2, <1>3 DEF ModuleStep, TypeOK, posVars

LEMMA InitInv == Init => IInv
<1>. SUFFICES ASSUME Init PROVE IInv
  OBVIOUS
<1>1. Script = ScriptOf("reset", want)
  BY DEF Init, Script, ScriptOf
<1>2. step \in 1..Len(Script)
  BY <1>1, ResetScript DEF Init
<1>3. BootTypeOK
  <2>1. mode \in Modes /\ config \in [Settings -> SettingValues \cup {None}]
    BY DEF Init, BootInit, Modes, Defaults
  <2>2. boot \in 0..2 /\ resets \in 0..MaxResets
    BY DEF Init, BootInit, BootAssumption
  <2>. QED
    BY <2>1, <2>2 DEF Init, BootInit, BootTypeOK
<1>4. polls \in 0..MaxPolls-1 /\ calls \in 0..MaxCalls
  BY DEF Init, OpeningAssumption
<1>5. TypeOK
  BY <1>2, <1>3, <1>4 DEF Init, TypeOK
<1>. QED
  BY <1>5 DEF Init, IInv, CallInv, LiveInv, SettledInv

LEMMA NextInv ==
  ASSUME PromptReset, IInv, [Next]_vars
  PROVE IInv'
<1>. USE DEF IInv
<1>1. CASE \E w \in Requests : Call("open", w)
  BY <1>1, CallTyped, CallKeeps
<1>2. CASE Call("reset", None)
  BY <1>2, CallTyped, CallKeeps
<1>3. CASE HostStep
  BY <1>3, HostTyped, SendCommandKeeps, NoCommandKeeps, StartWaitKeeps, PollKeeps, LoadsKeep DEF HostStep
<1>4. CASE ModuleStep
  BY <1>4, ModuleTyped, ModuleKeeps
<1>5. CASE UNCHANGED vars
  <2>1. Script' = Script
    BY <1>5 DEF vars, hostVars, Script, LoadScript, ForwardScript
  <2>2. TypeOK'
    BY <1>5, <2>1 DEF vars, bootVars, modeVars, hostVars, posVars, historyVars, TypeOK, BootTypeOK
  <2>3. CallInv' /\ LiveInv' /\ SettledInv'
    BY <1>5 DEF vars, bootVars, modeVars, hostVars, posVars, historyVars, CallInv, LiveInv, SettledInv,
      Progress, Quiet, Restarts, Loaded, Forwarding, Configured, Fresh, FlashLoading, FlashLoaded,
      Switching, Switched, InEffect, AsAsked
  <2>. QED
    BY <2>2, <2>3
<1>. QED
  BY <1>1, <1>2, <1>3, <1>4, <1>5 DEF Next

LEMMA Inductive == ASSUME PromptReset PROVE Spec => []IInv
<1>1. IInv /\ [Next]_vars => IInv'
  BY NextInv
<1>. QED
  BY <1>1, InitInv, PTL DEF Spec

\* Every variable has its type; no wait passes its bound and no script its end.
THEOREM TypeCorrect == ASSUME PromptReset PROVE Spec => []TypeOK
<1>1. IInv => TypeOK
  BY DEF IInv
<1>. QED
  BY <1>1, Inductive, PTL

\* imx500_open: what it was asked for is in effect when it returns true and
\* stays so, and the weights are sent over a path that is open.
THEOREM OpensAsAsked == ASSUME PromptReset PROVE Spec => []OpenedAsAsked
<1>1. ASSUME IInv PROVE StaysAsAsked
  BY <1>1 DEF IInv, SettledInv, StaysAsAsked
<1>2. ASSUME IInv PROVE PathIsOpen
  <2>. SUFFICES ASSUME At({"weights"}), ~disturbed PROVE mode = "toSspi" /\ modeReq \in {None, mode}
    BY DEF PathIsOpen
  <2>1. op # "idle" /\ op = "open" /\ Direct(want) /\ step = 6
    BY <1>2, AtPosition DEF IInv, At
  <2>2. Forwarding(op, want, step, io) /\ disturbed = FALSE
    BY <1>2, <2>1 DEF IInv, LiveInv, Progress, TypeOK
  <2>. QED
    BY <2>1, <2>2 DEF Forwarding, Switched
<1>3. IInv => OpenedAsAsked
  BY <1>1, <1>2 DEF OpenedAsAsked
<1>. QED
  BY <1>3, Inductive, PTL

\* A call that returns true has restarted the module, unless its RESET met a
\* command of an earlier call.
THEOREM ResetTakesEffect == ASSUME PromptReset PROVE Spec => ResetHappened
<1>. DEFINE Succeeds == ret' = "ok" /\ ret # "ok" /\ "reset" \notin met' => restarted
<1>1. ASSUME IInv, [Next]_vars PROVE Succeeds
  <2>. SUFFICES ASSUME ret' = "ok", ret # "ok", "reset" \notin met' PROVE restarted
    OBVIOUS
  <2>1. HostStep
    BY <1>1 DEF Next, Call, ModuleStep, vars, hostVars
  <2>2. op # "idle" /\ met \subseteq met'
    BY <2>1 DEF HostStep, SendCommand, NoCommand, StartWait, Poll, LoadWeights, LoadInfo, LoadCache, At
  <2>3. Return("ok") /\ step = Len(Script)
    <3>1. ~GiveUp /\ ~UNCHANGED ret
      BY DEF GiveUp, Return
    <3>2. Done
      BY <2>1, <3>1 DEF HostStep, SendCommand, NoCommand, StartWait, StartPolling, Poll, LoadWeights, LoadInfo,
        LoadCache, CommandFails, TimedOut
    <3>. QED
      BY <3>1, <3>2 DEF Done
  <2>4. step > 2 /\ Restarts(step, io)
    BY <1>1, <2>2, <2>3, Running DEF IInv, LiveInv, Progress
  <2>. QED
    BY <2>2, <2>4 DEF Restarts, Booted
<1>2. IInv /\ [Next]_vars => Succeeds
  BY <1>1
<1>. QED
  BY <1>2, Inductive, PTL DEF Spec, ResetHappened
=============================================================================
