------------------------------- MODULE Opening -------------------------------
(***************************************************************************)
(* imx500_open and reset_imx500_module of ArducamIMX500SDK.c: a script of  *)
(* commands, waits and loads that gives up at the first that fails, and    *)
(* leaves the module as it is then.  get_fw_ver, get_pid and               *)
(* imx500_dump_basic_info are the step "query", the only one whose failure *)
(* is ignored.                                                             *)
(*                                                                         *)
(* The camera module as imx500_open sees it: its boot status, the network  *)
(* it runs, the settings made by commands and the forwarding mode.  The    *)
(* firmware is not in the repository; what the SDK does not rely on is     *)
(* nondeterministic.                                                       *)
(*                                                                         *)
(* A command, a download and a blob transfer are one step here.  What they *)
(* promise is what the modules about them check: ModuleCommands (a command *)
(* may be left running by a call that gave up, and another one may meet    *)
(* it; LoadedIsInstalled; AffineApplied) and SpiBlobTransfer               *)
(* (TransferSafe, TrueLeavesBridgeFree).                                   *)
(***************************************************************************)
EXTENDS Naturals, Sequences

CONSTANTS
  Networks,     \* network weights
  Infos,        \* network-info texts
  FlashNetwork, \* the pair stored in the module's flash
  FlashInfo,
  Rates,        \* frame rates
  MaxResets,    \* bound: spontaneous restarts
  None          \* nothing, or a setting's default

ASSUME BootAssumption ==
  /\ FlashNetwork \in Networks /\ FlashInfo \in Infos
  /\ MaxResets \in Nat
  /\ None \notin Networks \cup Infos

VARIABLES
  boot,       \* BOOT_STATUS_REG
  restarting, \* a RESET has run and the restart has not come yet
  flashReq,   \* LOAD_MODEL_FROM_FLASH, not acted upon yet
  network,    \* the network weights in the IMX500
  info,       \* the network info the module holds
  config,     \* the settings in use
  left,       \* a command that was given up on and has not ended
  mode,       \* METADATA_SPI_FORWARD_MODE_REG: the mode in effect
  modeReq,    \* and the one written last, until it is in effect
  resets      \* spontaneous restarts so far

modeVars == <<mode, modeReq>>
bootVars == <<boot, restarting, flashReq, network, info, config, left, modeVars, resets>>

-----------------------------------------------------------------------------
Settings == {"freq", "sensor", "nn", "lanes", "crop", "fps", "mipi", "spi"}
SettingValues == {"set", "mixed", "image", "metadata", "output", "jpeg", "off"} \cup Rates
Modes == {"none", "fromMspi", "fromSspi", "toSspi", "transfer"}
Commands == [key : Settings \cup {"reset", "query"}, value : SettingValues]

BootTypeOK ==
  /\ boot \in 0..2
  /\ restarting \in BOOLEAN
  /\ flashReq \in BOOLEAN
  /\ network \in Networks \cup {None}
  /\ info \in Infos \cup {None}
  /\ config \in [Settings -> SettingValues \cup {None}]
  /\ left \in Commands \cup {None}
  /\ mode \in Modes
  /\ modeReq \in Modes \cup {None}
  /\ resets \in 0..MaxResets

Defaults == [k \in Settings |-> None]

BootInit ==
  /\ boot = 0
  /\ restarting = FALSE
  /\ flashReq = FALSE
  /\ network = None
  /\ info = None
  /\ config = Defaults
  /\ left = None
  /\ mode = "none"
  /\ modeReq = None
  /\ resets = 0

PowerOn ==
  /\ boot' = 0
  /\ restarting' = FALSE
  /\ flashReq' = FALSE
  /\ network' = None
  /\ info' = None
  /\ config' = Defaults
  /\ left' = None
  /\ mode' = "none"
  /\ modeReq' = None

-----------------------------------------------------------------------------
\* Commands

\* A default configuration may take back the settings that are made after it.
Clears(k) ==
  CASE k = "sensor" -> {"nn", "lanes", "crop", "fps", "mipi", "spi"}
    [] k = "nn" -> {"lanes", "crop", "fps", "mipi", "spi"}
    [] OTHER -> {}

\* The settings in use after command c has run
After(c, cfg) ==
  {[k \in Settings |-> IF k = c.key THEN c.value ELSE IF k \in lost THEN None ELSE cfg[k]]
     : lost \in {{}, Clears(c.key)}}

\* c runs.
Run(c) ==
  /\ config' \in After(c, config)
  /\ restarting' = (restarting \/ c.key = "reset")

\* What may come of a command that is written.  It runs; or it is ignored for
\* the sake of one that still ran, whose end is taken for its own.
Answered(c) ==
  /\ \/ Run(c)
     \/ left # None /\ Run(left)
     \/ /\ left # None
        /\ \E cfg \in After(left, config) : config' \in After(c, cfg)
        /\ restarting' = (restarting \/ "reset" \in {c.key, left.key})
  /\ left' = None
  /\ UNCHANGED <<boot, flashReq, network, info, modeVars, resets>>

\* The SDK gives up on c: it may have run, in part, or may still run.
Unanswered(c) ==
  \/ Answered(c)
  \/ c.key = "crop" /\ Answered([c EXCEPT !.value = "mixed"])
  \/ left' = c /\ UNCHANGED <<boot, restarting, flashReq, network, info, config, modeVars, resets>>
  \/ UNCHANGED bootVars

LeftEnds ==
  /\ left # None
  /\ \/ Run(left)
     \/ UNCHANGED <<config, restarting>>
  /\ left' = None
  /\ UNCHANGED <<boot, flashReq, network, info, modeVars, resets>>

-----------------------------------------------------------------------------
\* Boot

\* The reset that a command asked for
Reset ==
  /\ restarting
  /\ PowerOn
  /\ UNCHANGED resets

Brownout ==
  /\ resets < MaxResets
  /\ resets' = resets + 1
  /\ PowerOn

\* Loader and main firmware run.
LoaderMainReady ==
  /\ boot = 0
  /\ boot' = 1
  /\ UNCHANGED <<restarting, flashReq, network, info, config, left, modeVars, resets>>

\* The load from flash succeeds or not.
FlashLoad ==
  /\ flashReq /\ boot > 0
  /\ flashReq' = FALSE
  /\ \/ boot' = 2 /\ network' = FlashNetwork /\ info' = FlashInfo
     \/ UNCHANGED <<boot, network, info>>
  /\ UNCHANGED <<restarting, config, left, modeVars, resets>>

\* The network runs, wherever it was loaded from.
NetworkReady ==
  /\ boot = 1 /\ network # None
  /\ boot' = 2
  /\ UNCHANGED <<restarting, flashReq, network, info, config, left, modeVars, resets>>

\* The forwarding mode changes some time after it was written.
ModeChanges ==
  /\ modeReq # None
  /\ mode' = modeReq
  /\ modeReq' = None
  /\ UNCHANGED <<boot, restarting, flashReq, network, info, config, left, resets>>

BootNext ==
  LeftEnds \/ Reset \/ Brownout \/ LoaderMainReady \/ FlashLoad \/ NetworkReady \/ ModeChanges

-----------------------------------------------------------------------------
\* What the SDK does to the module.

AcceptMode(m) ==
  /\ modeReq' = m
  /\ UNCHANGED <<boot, restarting, flashReq, network, info, config, left, mode, resets>>

AcceptFlashRequest ==
  /\ flashReq' = TRUE
  /\ UNCHANGED <<boot, restarting, network, info, config, left, modeVars, resets>>

\* A download of weights n that succeeds, or one that may have come through.
Install(n) ==
  /\ network' = n
  /\ UNCHANGED <<boot, restarting, flashReq, info, config, left, modeVars, resets>>

\* A transfer of info i that succeeds leaves the bridge free.
Import(i) ==
  /\ info' = i
  /\ mode' = "none"
  /\ modeReq' = None
  /\ UNCHANGED <<boot, restarting, flashReq, network, config, left, resets>>

\* One that fails may have come through, and leaves the bridge in any state of
\* the transfer.
ImportFails(i) ==
  /\ info' \in {i, info}
  /\ mode' \in {mode, "transfer", "none"}
  /\ modeReq' \in {modeReq, "transfer", None}
  /\ UNCHANGED <<boot, restarting, flashReq, network, config, left, resets>>

-----------------------------------------------------------------------------
(***************************************************************************)
(* The SDK                                                                 *)
(***************************************************************************)
CONSTANTS
  Requests,   \* what an application calls imx500_open with
  Malformed,  \* the texts load_nn_info_to_sdk_cache refuses
  MaxPolls,   \* bound: polls of one wait
  MaxCalls,   \* bound: calls the application makes
  PromptReset \* a RESET that ran has restarted the module 2 s later

ASSUME OpeningAssumption ==
  /\ Requests \subseteq [nn : Networks \cup {None}, info : Infos, fps : Rates,
                         mipi : {"image", "metadata", "off", "invalid"},
                         spi : {"output", "jpeg", "off", "reserved", "invalid"}]
  /\ Malformed \subseteq Infos
  /\ MaxPolls \in Nat \ {0}
  /\ MaxCalls \in Nat
  /\ PromptReset \in BOOLEAN

VARIABLES
  op,        \* the function running: "open", "reset" or "idle"
  want,      \* what imx500_open was called with
  step,      \* its position in its script
  io,        \* whether it polls in that step
  polls,     \* polls so far
  cache,     \* network_info: the text it holds
  ret,       \* what the last call returned: "none" until it does
  calls,     \* calls so far
  restarted, \* history: the module restarted in this call
  met,       \* history: its commands that met an earlier one still running
  disturbed, \* history: a spontaneous restart in this call
  opened     \* history: the request whose success still stands

posVars == <<step, io, polls>>
historyVars == <<restarted, met, disturbed, opened>>
hostVars == <<op, want, posVars, cache, ret, calls, historyVars>>
vars == <<bootVars, hostVars>>

-----------------------------------------------------------------------------
BootScript == <<"reset", "boot", "query", "freq">>

\* Direct boot, or flash boot
LoadScript(w) ==
  IF w.nn # None THEN <<"toSspi", "weights", "info", "cache">> ELSE <<"none", "flash">>

ConfigScript == <<"sensor", "nn", "lanes", "crop", "fps", "mipi", "spi">>

\* The forwarding mode that metadata of the format is read through
MetadataMode(spi) ==
  CASE spi = "output" -> "fromMspi"
    [] spi = "jpeg" -> "fromSspi"
    [] OTHER -> "none"

ForwardScript(w) ==
  IF w.spi \in {"output", "jpeg"} THEN <<MetadataMode(w.spi)>> ELSE <<>>

Script ==
  IF op = "open" THEN BootScript \o LoadScript(want) \o ConfigScript \o ForwardScript(want)
  ELSE BootScript

At(steps) == op # "idle" /\ Script[step] \in steps

\* The value a setting is given
Value(w, k) ==
  CASE k = "fps" -> w.fps
    [] k = "mipi" -> w.mipi
    [] k = "spi" -> w.spi
    [] OTHER -> "set"

Init ==
  /\ BootInit
  /\ op = "idle"
  /\ want = None
  /\ step = 1
  /\ io = "start"
  /\ polls = 0
  /\ cache = None
  /\ ret = "none"
  /\ calls = 0
  /\ restarted = FALSE
  /\ met = {}
  /\ disturbed = FALSE
  /\ opened = None

Call(f, w) ==
  /\ op = "idle"
  /\ calls < MaxCalls
  /\ op' = f
  /\ want' = w
  /\ ret' = "none"
  /\ calls' = calls + 1
  /\ restarted' = FALSE
  /\ met' = {}
  /\ disturbed' = FALSE
  /\ opened' = None
  /\ UNCHANGED <<bootVars, posVars, cache>>

Return(v) ==
  /\ op' = "idle"
  /\ want' = None
  /\ step' = 1
  /\ io' = "start"
  /\ polls' = 0
  /\ ret' = v
  /\ opened' = IF v = "ok" /\ op = "open" /\ ~disturbed /\ "reset" \notin met
               THEN want ELSE None
  /\ UNCHANGED <<calls, restarted, disturbed>>

GiveUp == Return("failed")

\* The step succeeds.
Done ==
  IF step = Len(Script) THEN Return("ok")
  ELSE /\ step' = step + 1
       /\ io' = "start"
       /\ polls' = 0
       /\ UNCHANGED <<op, want, ret, calls, restarted, disturbed, opened>>

-----------------------------------------------------------------------------
\* Commands

Supported == {"output", "jpeg", "off"}

\* Mutant: a failed command is reported and nothing more.
FailureIgnored == Done

\* A command fails; the queries are for the log.
CommandFails == IF Script[step] = "query" THEN Done ELSE GiveUp

SendCommand ==
  /\ At(Settings \cup {"reset", "query"})
  /\ At({"mipi"}) => want.mipi # "invalid"
  /\ At({"spi"}) => want.spi \in Supported
  /\ LET c == [key |-> Script[step], value |-> Value(want, Script[step])]
     IN  /\ met' = IF left = None THEN met ELSE met \cup {c.key}
         /\ \/ Answered(c) /\ Done
            \/ Unanswered(c) /\ CommandFails
  /\ UNCHANGED cache

\* A format that is reserved is passed over, an unknown one is refused.
NoCommand ==
  /\ \/ At({"mipi"}) /\ want.mipi = "invalid" /\ GiveUp
     \/ At({"spi"}) /\ want.spi = "invalid" /\ GiveUp
     \/ At({"spi"}) /\ want.spi = "reserved" /\ Done
  /\ UNCHANGED <<bootVars, cache, met>>

-----------------------------------------------------------------------------
\* Waits

\* Mutant: the sleep after RESET is left out.
SleptNot == TRUE

\* The two seconds slept after RESET
Slept == PromptReset => ~restarting

\* The SDK begins a step that polls.
StartPolling ==
  /\ io = "start"
  /\ io' = "poll"
  /\ UNCHANGED <<op, want, step, polls, ret, calls, restarted, disturbed, opened>>

StartWait ==
  /\ \/ At({"boot"}) /\ Slept /\ StartPolling /\ UNCHANGED bootVars
     \/ At({"flash"}) /\ AcceptFlashRequest /\ StartPolling
     \/ At(Modes) /\ AcceptMode(Script[step]) /\ StartPolling
     \* the write fails
     \/ At({"flash"}) /\ io = "start" /\ (AcceptFlashRequest \/ UNCHANGED bootVars) /\ GiveUp
     \/ /\ At(Modes) /\ io = "start"
        /\ AcceptMode(Script[step]) \/ UNCHANGED bootVars
        /\ GiveUp
  /\ UNCHANGED <<cache, met>>

\* What the step waits for, as the register reads
Reached ==
  \/ At({"boot"}) /\ boot = 1
  \/ At({"flash"}) /\ boot = 2
  \/ At(Modes) /\ mode = Script[step]

PollsLeft == polls + 1 < MaxPolls

\* Mutant: a wait that ran out of time is begun again.
WaitAgain ==
  /\ io' = "start"
  /\ polls' = 0
  /\ UNCHANGED <<op, want, step, ret, calls, restarted, disturbed, opened>>

TimedOut == GiveUp

Poll ==
  /\ op # "idle" /\ io = "poll"
  /\ \/ Reached /\ Done
     \/ /\ ~Reached /\ PollsLeft
        /\ polls' = polls + 1
        /\ UNCHANGED <<op, want, step, io, ret, calls, restarted, disturbed, opened>>
     \/ ~Reached /\ ~PollsLeft /\ TimedOut
     \/ GiveUp \* the read fails
  /\ UNCHANGED <<bootVars, cache, met>>

-----------------------------------------------------------------------------
\* Loads

LoadWeights ==
  /\ At({"weights"})
  /\ \/ mode = "toSspi" /\ Install(want.nn) /\ Done
     \/ (Install(want.nn) \/ UNCHANGED bootVars) /\ GiveUp
  /\ UNCHANGED <<cache, met>>

LoadInfo ==
  /\ At({"info"})
  /\ \/ Import(want.info) /\ Done
     \/ ImportFails(want.info) /\ GiveUp
  /\ UNCHANGED <<cache, met>>

\* A text that is refused leaves half of itself in the cache.
LoadCache ==
  /\ At({"cache"})
  /\ IF want.info \in Malformed
     THEN cache' = "partial" /\ GiveUp
     ELSE cache' = want.info /\ Done
  /\ UNCHANGED <<bootVars, met>>

-----------------------------------------------------------------------------
HostStep ==
  SendCommand \/ NoCommand \/ StartWait \/ Poll \/ LoadWeights \/ LoadInfo \/ LoadCache

ModuleStep ==
  /\ BootNext
  /\ restarted' = (restarted \/ Reset \/ resets' # resets)
  /\ disturbed' = (disturbed \/ resets' # resets)
  /\ opened' = IF resets' # resets THEN None ELSE opened
  /\ UNCHANGED <<op, want, posVars, cache, ret, calls, met>>

Next ==
  \/ \E w \in Requests : Call("open", w)
  \/ Call("reset", None)
  \/ HostStep
  \/ ModuleStep

Spec == Init /\ [][Next]_vars

\* A call runs until it returns: the SDK is single-threaded.  What the sleep is
\* assumed to be enough for comes.
FairSpec == Spec /\ WF_vars(HostStep) /\ WF_vars(PromptReset /\ Reset /\ ModuleStep)

-----------------------------------------------------------------------------
\* Every variable has its type: no wait passes its bound.
TypeOK ==
  /\ BootTypeOK
  /\ op \in {"idle", "open", "reset"}
  /\ want \in Requests \cup {None}
  /\ step \in 1..Len(Script)
  /\ io \in {"start", "poll"}
  /\ polls \in 0..MaxPolls-1
  /\ cache \in Infos \cup {None, "partial"}
  /\ ret \in {"none", "ok", "failed"}
  /\ calls \in 0..MaxCalls
  /\ restarted \in BOOLEAN
  /\ met \subseteq Settings \cup {"reset", "query"}
  /\ disturbed \in BOOLEAN
  /\ opened \in Requests \cup {None}

\* What w asked for is in effect.
AsAsked(w) ==
  /\ network = IF w.nn = None THEN FlashNetwork ELSE w.nn
  /\ info = IF w.nn = None THEN FlashInfo ELSE w.info
  /\ \A k \in Settings :
       \/ config[k] = Value(w, k)
       \/ k = "freq" /\ "freq" \in met
       \/ k = "spi" /\ w.spi = "reserved"
  /\ mode = MetadataMode(w.spi) /\ modeReq \in {None, mode}
  /\ w.nn # None => cache = w.info

\* After imx500_open returned true the module is as the caller asked, and stays
\* so: nothing that was begun earlier, by this call or one that failed, takes
\* effect late.  The SPI frequency is left out if its command met a query that
\* still ran: the failures of queries are ignored.
StaysAsAsked == opened # None => AsAsked(opened)

\* load_imx500_fw is called with the bridge switched to the IMX500, and no switch
\* of an earlier call outstanding that would close the path under it.
PathIsOpen ==
  At({"weights"}) /\ ~disturbed => mode = "toSspi" /\ modeReq \in {None, mode}

\* What imx500_open was asked for is reached over an open path and stays.
OpenedAsAsked == StaysAsAsked /\ PathIsOpen

\* reset_imx500_module and imx500_open return true only if the module has
\* restarted during the call.
ResetHappened ==
  [][ret' = "ok" /\ ret # "ok" /\ "reset" \notin met' => restarted]_vars

\* network_info describes the network the module runs.
CacheIsCurrent == opened # None /\ cache # None => cache = info

\* Every call returns.
CallReturns == op # "idle" ~> op = "idle"
=============================================================================
