----------------------------- MODULE ProductionTest -----------------------------
(***************************************************************************)
(* The Pico 2 production test: the board, whose test is started by a host  *)
(* program over the serial line or, with BootTrigger, by its button too;   *)
(* the host program; the camera, which is changed between and during       *)
(* tests; and the operator's finger.  Of what the board prints only the    *)
(* lines that the host looks for are kept.                                 *)
(***************************************************************************)
EXTENDS Integers, Sequences

CONSTANTS
  BootTrigger,     \* PRODUCTION_TEST_BOOT_TRIGGER_MODE
  StablePolls,     \* BOOT_BUTTON_STABLE_POLLS, MODULE_STABLE_POLLS
  MaxTests, MaxHosts, MaxPings, MaxPresses, MaxChanges   \* bounds

TestAssumption == BootTrigger \in BOOLEAN /\ StablePolls \in Nat \ {0}

VARIABLES
  camera,      \* none, booting or ready
  finger,      \* the button: whether it is pressed, and polls for which it may bounce
  pc,          \* the board: poll, probe, start, open, stream, frame, reboot
  start,       \* should_start_test, and by whom
  button,      \* poll_boot_button_pressed(): last_raw, debounced, stable_count; last_button_pressed
  module,      \* module_present, last_module_sample, module_stable_count
  led,
  test,        \* the latest test: its number and result
  to_board, to_host,
  host,        \* the host program: closed, wait or test, and the test that was the latest when it began
  verdict,     \* the test whose result the host reported, and that one's beginning
  hosts, pings, presses, changes, by_button   \* how much has happened

board == <<pc, start, button, module, led, test, by_button>>
outside == <<camera, finger, presses, changes>>
program == <<host, verdict, hosts, pings>>
vars == <<board, outside, program, to_board, to_host>>

NoTest == [n |-> 0, result |-> "none"]

Init ==
  /\ camera \in {"none", "booting"} /\ finger = [pressed |-> FALSE, bounce |-> 0]
  /\ pc = "poll" /\ start = "none"
  /\ button = [raw |-> FALSE, debounced |-> FALSE, stable |-> 0, last |-> FALSE]
  /\ module = [present |-> FALSE, sample |-> FALSE, stable |-> 0]
  /\ led = "Idle" /\ test = NoTest
  /\ to_board = <<>> /\ to_host = <<>>
  /\ host = [at |-> "closed", since |-> 0] /\ verdict = [n |-> 0, since |-> -1]
  /\ hosts = 0 /\ pings = 0 /\ presses = 0 /\ changes = 0 /\ by_button = 0

----------------------------------------------------------------------------
Testing == pc \in {"open", "stream", "frame", "reboot"}

\* The camera is put in, boots, or is taken out.
ChangeCamera ==
  /\ changes < MaxChanges /\ changes' = changes + 1
  /\ camera' = IF camera = "none" THEN "booting" ELSE "none"
  /\ UNCHANGED <<board, program, to_board, to_host, finger, presses>>

Boot == camera = "booting" /\ camera' = "ready" /\ UNCHANGED <<board, program, to_board, to_host, finger, presses, changes>>

\* The button is pressed or let go; it bounces for less than it takes to be taken as stable.
MoveFinger ==
  /\ BootTrigger /\ (~finger.pressed => presses < MaxPresses)
  /\ presses' = IF finger.pressed THEN presses ELSE presses + 1
  /\ finger' = [pressed |-> ~finger.pressed, bounce |-> StablePolls - 1]
  /\ UNCHANGED <<board, program, to_board, to_host, camera, changes>>

Operator == ChangeCamera \/ Boot \/ MoveFinger

----------------------------------------------------------------------------
\* What is printed while no program has the port open is lost.
Say(line) == to_host' = IF host.at = "closed" THEN to_host ELSE Append(to_host, [line |-> line, n |-> test.n])

Quiet == UNCHANGED to_host

\* probe_module_ready(): a booting module is not ready.
Ready == camera = "ready"

Count(was, now, count) == IF was # now THEN 1 ELSE IF count < StablePolls THEN count + 1 ELSE count

\* poll_boot_button_pressed() with the level it reads.
Button(raw) ==
  LET stable == Count(button.raw, raw, button.stable)
  IN [raw |-> raw, stable |-> stable, last |-> button.last,
      debounced |-> IF stable >= StablePolls THEN raw ELSE button.debounced]

Edge(b) == b.debounced /\ ~button.last

\* handle_boot_trigger_mode_command()
Command(c) ==
  /\ CASE c = "PING" -> Say("PONG") /\ UNCHANGED led
       [] c = "LED_OFF" -> Quiet /\ led' = "Idle"
       [] OTHER -> Quiet /\ UNCHANGED led

\* One turn of run_boot_trigger_mode(): a command, then the button.
Poll ==
  /\ BootTrigger /\ pc = "poll" /\ test.n < MaxTests
  /\ \/ /\ to_board # <<>> /\ Command(Head(to_board)) /\ to_board' = Tail(to_board)
     \/ to_board = <<>> /\ Quiet /\ UNCHANGED <<led, to_board>>
  /\ \E raw \in IF finger.bounce > 0 THEN BOOLEAN ELSE {finger.pressed} :
       LET b == Button(raw)
       IN /\ button' = [b EXCEPT !.last = b.debounced]
          /\ start' = IF Edge(b) THEN "button"
                      ELSE IF to_board # <<>> /\ Head(to_board) = "RUN" THEN "host" ELSE "none"
  /\ finger' = [finger EXCEPT !.bounce = IF @ > 0 THEN @ - 1 ELSE 0]
  /\ pc' = "probe"
  /\ UNCHANGED <<program, camera, presses, changes, module, test, by_button>>

AfterProbe == pc' = IF start = "none" THEN "poll" ELSE "start"

\* The module is looked for every so often.
Probe ==
  /\ pc = "probe" /\ AfterProbe
  /\ LET stable == Count(module.sample, Ready, module.stable)
         news == stable >= StablePolls /\ module.present # Ready
     IN /\ module' = [present |-> IF news THEN Ready ELSE module.present, sample |-> Ready, stable |-> stable]
        /\ IF news /\ ~Ready THEN led' = "Idle" /\ Say("READY") ELSE UNCHANGED <<led, to_host>>
  /\ UNCHANGED <<program, outside, to_board, start, button, test, by_button>>

NoProbe ==
  /\ pc = "probe" /\ AfterProbe
  /\ UNCHANGED <<program, outside, to_board, to_host, start, button, module, led, test, by_button>>

Seen == [present |-> TRUE, sample |-> TRUE, stable |-> StablePolls]

LedOff == "Idle"

\* A test is asked for.
Start ==
  /\ pc = "start" /\ start' = "none"
  /\ IF Ready THEN /\ module' = Seen /\ pc' = "open" /\ Quiet
                   /\ led' = LedOff
                   /\ test' = [NoTest EXCEPT !.n = test.n + 1]
                   /\ by_button' = IF start = "button" THEN by_button + 1 ELSE by_button
     ELSE led' = "Idle" /\ Say("READY") /\ pc' = "poll" /\ UNCHANGED <<module, test, by_button>>
  /\ UNCHANGED <<program, outside, to_board, button>>

\* Without the button mode the board waits for a command line.
ReadCommand ==
  /\ ~BootTrigger /\ pc = "poll" /\ to_board # <<>> /\ to_board' = Tail(to_board)
  /\ IF Head(to_board) = "RUN"
     THEN /\ test.n < MaxTests /\ test' = [NoTest EXCEPT !.n = test.n + 1]
          /\ pc' = "open" /\ Quiet
     ELSE Say("PONG") /\ UNCHANGED <<test, pc>>
  /\ UNCHANGED <<program, outside, start, button, module, led, by_button>>

----------------------------------------------------------------------------

\* With the button mode the board is ready again; without it, only after the reboot.
Finish(result) ==
  IF BootTrigger /\ host.at # "closed"
  THEN to_host' = to_host \o <<[line |-> result, n |-> test.n], [line |-> "READY", n |-> test.n]>>
  ELSE Say(result)

\* run_production_test() comes to an end.
Result(result) ==
  /\ test' = [test EXCEPT !.result = result]
  /\ Finish(result)
  /\ IF BootTrigger THEN pc' = "poll" /\ led' = (IF result = "PASS" THEN "Pass" ELSE "Fail")
     ELSE pc' = "reboot" /\ UNCHANGED led

OpenOk ==
  /\ pc = "open" /\ Ready /\ pc' = "stream"
  /\ UNCHANGED <<program, outside, to_board, to_host, start, button, module, led, test, by_button>>

OpenFails ==
  /\ pc = "open" /\ Result("FAIL")
  /\ UNCHANGED <<program, outside, to_board, start, button, module, by_button>>

\* stream_on() has no result.  What fails may be only the answer.
StreamOn ==
  /\ pc = "stream" /\ pc' = "frame"
  /\ UNCHANGED <<program, outside, to_board, to_host, start, button, module, led, test, by_button>>

\* The first frame does not come, begins with another byte, or with the right one.
ReadFrame ==
  /\ pc = "frame"
  /\ \E result \in {"PASS", "FAIL"} : (result = "PASS" => Ready) /\ Result(result)
  /\ UNCHANGED <<program, outside, to_board, start, button, module, by_button>>

\* The program that has the port open loses it, or finds it again.
Reboot ==
  /\ pc = "reboot" /\ pc' = "poll"
  /\ to_board' = <<>> /\ test' = [test EXCEPT !.result = "none"]
  /\ \/ UNCHANGED host /\ Say("READY")
     \/ host.at # "closed" /\ host' = [host EXCEPT !.at = "closed"] /\ to_host' = <<>>
  /\ UNCHANGED <<verdict, hosts, pings, outside, start, button, module, led, by_button>>

Board == Poll \/ Probe \/ NoProbe \/ Start \/ ReadCommand \/ OpenOk \/ OpenFails \/ StreamOn \/ ReadFrame \/ Reboot

----------------------------------------------------------------------------
\* Old lines are read as new ones.
OpenKeeping == to_host

OpenEmpty == <<>>

\* open_port()
OpenPort ==
  /\ host.at = "closed" /\ hosts < MaxHosts /\ hosts' = hosts + 1
  /\ host' = [at |-> "wait", since |-> test.n] /\ to_host' = OpenEmpty
  /\ UNCHANGED <<board, outside, to_board, verdict, pings>>

\* wait_for_ready() asks every half second, and somebody may turn the LED off.
Ask ==
  /\ host.at = "wait" /\ pings < MaxPings /\ pings' = pings + 1
  /\ \E c \in IF BootTrigger THEN {"PING", "LED_OFF"} ELSE {"PING"} : to_board' = Append(to_board, c)
  /\ UNCHANGED <<board, outside, to_host, host, verdict, hosts>>

Line == Head(to_host)

Marker(line) == line \in {"READY", "PONG"}

\* wait_for_ready() returns, and run_test() sends RUN.
WaitLine ==
  /\ host.at = "wait" /\ to_host # <<>> /\ to_host' = Tail(to_host)
  /\ IF Marker(Line.line) THEN host' = [host EXCEPT !.at = "test"] /\ to_board' = Append(to_board, "RUN")
     ELSE UNCHANGED <<host, to_board>>
  /\ UNCHANGED <<board, outside, verdict, hosts, pings>>

TestLine ==
  /\ host.at = "test" /\ to_host # <<>> /\ to_host' = Tail(to_host)
  /\ IF Line.line \in {"PASS", "FAIL"}
     THEN host' = [host EXCEPT !.at = "closed"] /\ verdict' = [n |-> Line.n, since |-> host.since]
     ELSE UNCHANGED <<host, verdict>>
  /\ UNCHANGED <<board, outside, to_board, hosts, pings>>

\* A time has run out, or the user has stopped the program.
GiveUp ==
  /\ host.at # "closed" /\ host' = [host EXCEPT !.at = "closed"]
  /\ UNCHANGED <<board, outside, to_board, to_host, verdict, hosts, pings>>

Host == OpenPort \/ Ask \/ WaitLine \/ TestLine \/ GiveUp

Next == Operator \/ Board \/ Host

Spec == Init /\ [][Next]_vars

----------------------------------------------------------------------------
\* The result that a host program reports is that of a test which began after the program: not
\* of one that another program, or the button, started before.
VerdictFresh == verdict.n > verdict.since

\* A program that has sent RUN is not left without an answer: the command is on its way, or its
\* test runs, or the result does; RUN is not lost in a reboot.
RunAnswered ==
  host.at = "test" /\ test.n < MaxTests =>
    \/ \E i \in DOMAIN to_board : to_board[i] = "RUN"
    \/ Testing
    \/ \E i \in DOMAIN to_host : to_host[i].line \in {"PASS", "FAIL"}

\* The LED shows a result only between tests, and that of the latest one.
LedTellsTest == led # "Idle" => ~Testing /\ (led = "Pass" <=> test.result = "PASS")

\* A result is shown only while a module is taken to be there: when the camera has been taken out
\* for as long as it takes to see it, its result goes out.
LedOfModule == led # "Idle" => module.present

\* However the button bounces, a press starts one test at most.
OnePressOneTest == by_button <= presses
=============================================================================
