----------------------------- MODULE FlashStatus ----------------------------
(***************************************************************************)
(* The payload status registers of the camera module (ai_regs.h 0x11-0x14), *)
(* which both transports report through, and how the SDK reads them:       *)
(* get_spi_flash_status and the wait_for_... loops built on it.  The four  *)
(* registers are four bus transactions, so the module moves between them   *)
(* and a status may be torn; the function accepts one that is in range and *)
(* counts no more bytes than the total, and tries again otherwise.         *)
(*                                                                         *)
(* A wait loop is bounded by elapsed milliseconds in the code; here it     *)
(* makes at most MaxPolls polls.  The module may do anything between two   *)
(* polls, so an outcome of the longer loop is an outcome of this one.      *)
(***************************************************************************)
EXTENDS Naturals

CONSTANTS
  Retries,  \* SPI_FLASH_STATUS_READ_RETRIES
  MaxPolls  \* bound: polls of one wait loop

ASSUME PollAssumption ==
  /\ Retries \in Nat \ {0}
  /\ MaxPolls \in Nat \ {0}

VARIABLES
  reg,    \* the four registers, as one record
  pc,     \* the statement the SDK is at, "idle" between calls
  snap,   \* local_status
  rd,     \* the register read next, or how get_spi_flash_status ended
  tries,  \* its attempts so far
  polls   \* polls of the current wait loop

pollVars == <<pc, snap, rd, tries, polls>>

-----------------------------------------------------------------------------
\* spi_flash_op_status_t
Statuses == {"IDLE", "WAIT_HEADER", "RECEIVING", "PARSING", "SUCCESS", "FAILED"}

\* spi_flash_op_result_t, its error codes taken together
Results == {"NONE", "OK", "ERROR"}

FlashRegs == [status : Statuses, result : Results, done : Nat, total : Nat]

ClearedReg(status, result) ==
  [status |-> status, result |-> result, done |-> 0, total |-> 0]

\* An import is in progress.
ImportOpen == reg.status \in {"WAIT_HEADER", "RECEIVING", "PARSING"}

Lesser(m, n) == IF m < n THEN m ELSE n

-----------------------------------------------------------------------------
\* rd counts the four reads of an attempt; then the status is had or it is not.
Have   == 5
Failed == 6

\* The attempts and polls stay within the bounds of their loops.
StatusTypeOK ==
  /\ snap \in FlashRegs
  /\ rd \in 1..Failed
  /\ tries \in 0..Retries
  /\ polls \in 0..MaxPolls-1

-----------------------------------------------------------------------------
Answered   == rd \in {Have, Failed}
HaveStatus == rd = Have

\* the last status reports FAILED
GotFailed == HaveStatus /\ snap.status = "FAILED"

StatusInit ==
  /\ pc = "idle"
  /\ snap = ClearedReg("IDLE", "NONE")
  /\ rd = 1
  /\ tries = 0
  /\ polls = 0

\* Mutant: an armed receiver counts as an ended operation.
IsTerminalOrArmed(status) == status \in {"IDLE", "WAIT_HEADER", "SUCCESS", "FAILED"}

\* is_spi_flash_terminal_status
IsTerminal(status) == status \in {"IDLE", "SUCCESS", "FAILED"}

\* is_spi_flash_status_sane
Sane(s) == s.total > 0 => s.done <= s.total

\* The order in which the registers are read.
ReadInto(k) ==
  CASE k = 1 -> [snap EXCEPT !.status = reg.status]
    [] k = 2 -> [snap EXCEPT !.result = reg.result]
    [] k = 3 -> [snap EXCEPT !.done = reg.done]
    [] k = 4 -> [snap EXCEPT !.total = reg.total]

\* Mutant: one attempt too many.
RetryStatusOnceMore ==
  /\ snap' = ClearedReg("IDLE", "NONE")
  /\ tries' = tries + 1
  /\ rd' = IF tries < Retries THEN 1 ELSE Failed

\* An attempt that failed or made no sense is repeated; after the last one the
\* caller's status is left zeroed.
RetryStatus ==
  /\ snap' = ClearedReg("IDLE", "NONE")
  /\ tries' = tries + 1
  /\ rd' = IF tries + 1 < Retries THEN 1 ELSE Failed

ReadStatusReg ==
  /\ rd \in 1..4
  /\ \/ IF rd < 4 \/ Sane(ReadInto(rd))
        THEN snap' = ReadInto(rd) /\ rd' = rd + 1 /\ UNCHANGED tries
        ELSE RetryStatus
     \/ RetryStatus  \* the bus reports an error
  /\ UNCHANGED <<pc, polls>>

-----------------------------------------------------------------------------
\* The next status will be read afresh.
FreshStatus ==
  /\ snap' = ClearedReg("IDLE", "NONE")
  /\ rd' = 1
  /\ tries' = 0

Goto(p) == pc' = p /\ polls' = 0 /\ FreshStatus

\* The rest of a wait goes on at p, in the same time.
Continue(p) == pc' = p /\ UNCHANGED polls /\ FreshStatus

\* Mutant: a poll that got no status is repeated without counting the time.
RepollUncounted(p) ==
  /\ HaveStatus => polls + 1 < MaxPolls
  /\ polls' = IF HaveStatus THEN polls + 1 ELSE polls
  /\ FreshStatus
  /\ pc' = p

\* Time passes, and the wait is repeated from p.
Repoll(p) ==
  /\ polls + 1 < MaxPolls
  /\ polls' = polls + 1
  /\ FreshStatus
  /\ pc' = p

PollAgain == Repoll(pc)

TimedOut == polls + 1 >= MaxPolls
=============================================================================
