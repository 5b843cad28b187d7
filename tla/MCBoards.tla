------------------------------- MODULE MCBoards -------------------------------
(***************************************************************************)
(* The programs of the boards that others talk to, for TLC: the HTTP       *)
(* server of the Pico W, the two serial protocols with their hosts, the    *)
(* production test, the cores of the metadata service, and the functions   *)
(* of the ESP32-P4 for the busses.  In a behaviour one of them, running,   *)
(* runs.                                                                   *)
(***************************************************************************)
EXTENDS Integers, Sequences

VARIABLES
  running,
  mutex, latest, wpc, frame, shown, picture, part, outputs, pcb, slot, client, unacked, got, status,
  line, sequence, items, stopped, losses, distance, sent, phase, buf, delivered,
  sending, whole, request_sequence, cuts, noise, uart, upc, early, held, header, read, out, written,
  requests, answers, pc0, mine, waited, answer, job, next_id, core_camera, core1, pc1, work, attempts,
  frame_buf, failures,
  camera, finger, pc, start, button, module, led, test, to_board, to_host, host, verdict, hosts, pings,
  presses, changes, by_button,
  bus_pc, call, result, calls, faults, s_bound, i2c_handle, spi_handle, max_read_chunk_len, tx_zero,
  rx_chunk, dma_chunk_size, attempt, data, offset, registers, received, acquired, selected, selection,
  position

serverVars == <<mutex, latest, wpc, frame, shown, picture, part, outputs, pcb, slot, client,
                unacked, got, status>>
serialVars == <<line, sequence, items, stopped, losses, distance, sent, phase, buf, delivered>>
uartVars   == <<sending, whole, request_sequence, cuts, noise, uart, upc, early, held, header,
                read, out, written>>
coreVars   == <<requests, answers, pc0, mine, waited, answer, job, next_id, core_camera, core1,
                pc1, work, attempts, frame_buf, failures>>
testVars   == <<camera, finger, pc, start, button, module, led, test, to_board, to_host, host,
                verdict, hosts, pings, presses, changes, by_button>>
busVars    == <<bus_pc, call, result, calls, faults, s_bound, i2c_handle, spi_handle,
                max_read_chunk_len, tx_zero, rx_chunk, dma_chunk_size, attempt, data, offset,
                registers, received, acquired, selected, selection, position>>
vars == <<running, serverVars, serialVars, uartVars, coreVars, testVars, busVars>>

-----------------------------------------------------------------------------
\* Two connections, with a slot each or with one for both.
Browsers == {"c1", "c2"}

Server == INSTANCE FrameServer WITH
  Connections <- Browsers, Slots <- {"s1", "s2"}, Parts <- 2, MaxPolls <- 1, PollWidth <- 4, MaxFrame <- 2

OneSlot == INSTANCE FrameServer WITH
  Connections <- Browsers, Slots <- {"s1"}, Parts <- 2, MaxPolls <- 1, PollWidth <- 4, MaxFrame <- 1

\* Payloads up to one byte too many, texts with and without the magic; whole or with a cut.
I  == <<"I", 73>>
M  == <<"M", 77>>
b1 == <<"b", 1>>
b2 == <<"b", 2>>
Space == <<"t", 32>>

Serial == INSTANCE SerialStream WITH
  Payloads <- {<<b1>>, <<b2, I>>, <<b1, b1, b2>>},
  Texts <- {<<Space>>, <<I, M, Space>>, <<Space, I>>},
  MaxPayload <- 2, MaxChunk <- 9, MaxItems <- 3, MaxLosses <- 0, LineSize <- 6

CutSerial == INSTANCE SerialStream WITH
  Payloads <- {<<b2, I>>}, Texts <- {<<I, M, Space>>},
  MaxPayload <- 2, MaxChunk <- 20, MaxItems <- 3, MaxLosses <- 1, LineSize <- 6

\* A command of two bytes, one without, one that is too long.
Uart == INSTANCE UartPackets WITH
  Commands <- {<<>>, <<1, 2>>, <<3, 3, 3>>}, MaxJson <- 2, Chunk <- 2, AnswerSize <- 3,
  MaxRequests <- 2, MaxCuts <- 1, MaxNoise <- 1,
  sequence <- request_sequence, line <- uart, pc <- upc

\* Three requests to a camera that comes up at once, and one while steps of the startup fail.
Core == INSTANCE CameraCore WITH
  Modes <- {"on_ng"}, MaxWait <- 0, MaxAttempts <- 2, Ahead <- 2, MaxRequests <- 3, MaxFailures <- 0,
  camera <- core_camera, out <- answer, buf <- frame_buf

StartingCore == INSTANCE CameraCore WITH
  Modes <- {"on_ng"}, MaxWait <- 1, MaxAttempts <- 1, Ahead <- 1, MaxRequests <- 2, MaxFailures <- 2,
  camera <- core_camera, out <- answer, buf <- frame_buf

\* Started by the host only; by the button only; by both.
HostTest == INSTANCE ProductionTest WITH
  BootTrigger <- FALSE, StablePolls <- 3, MaxTests <- 3, MaxHosts <- 2, MaxPings <- 2,
  MaxPresses <- 0, MaxChanges <- 1

ButtonTest == INSTANCE ProductionTest WITH
  BootTrigger <- TRUE, StablePolls <- 3, MaxTests <- 2, MaxHosts <- 0, MaxPings <- 0,
  MaxPresses <- 3, MaxChanges <- 1

MixedTest == INSTANCE ProductionTest WITH
  BootTrigger <- TRUE, StablePolls <- 2, MaxTests <- 2, MaxHosts <- 2, MaxPings <- 1,
  MaxPresses <- 1, MaxChanges <- 0

\* Frames of none, one, two and three chunks, and buffers shorter than what the driver allows.
Bus == INSTANCE PeripheralAdapter WITH
  Base <- 2, Registers <- {[at |-> 1, width |-> 4], [at |-> 2, width |-> 2]}, Values <- {1, 6, 13},
  Lengths <- {0, 2, 3, 5}, Reported <- {0, 2, 9}, SafeChunk <- 3, Retries <- 2,
  MaxCalls <- 3, MaxFaults <- 2, pc <- bus_pc

ASSUME BoardsAssumption ==
       /\ Server!ServerAssumption /\ OneSlot!ServerAssumption
       /\ Serial!StreamAssumption /\ CutSerial!StreamAssumption /\ Uart!PacketAssumption /\ Core!CoreAssumption /\ StartingCore!CoreAssumption
       /\ HostTest!TestAssumption /\ ButtonTest!TestAssumption /\ MixedTest!TestAssumption /\ Bus!AdapterAssumption

-----------------------------------------------------------------------------
Init ==
  /\ running \in {"server", "one slot", "serial", "cut", "uart", "core", "starting", "host", "button", "mixed", "bus"}
  /\ IF running = "one slot" THEN OneSlot!Init ELSE Server!Init
  /\ IF running = "server" THEN shown \in {{1}, {2}} ELSE running # "one slot" => shown = {}
  /\ Serial!Init /\ Uart!Init
  /\ Core!Init /\ (running \notin {"core", "starting"} => core1 = "STOPPED")
  /\ Bus!Init
  /\ HostTest!Init /\ (running \notin {"host", "button", "mixed"} => camera = "none")

ServerNext ==
  /\ \/ running = "server" /\ Server!Next
     \/ running = "one slot" /\ OneSlot!Next
  /\ UNCHANGED <<serialVars, uartVars, coreVars, testVars, busVars>>

SerialNext ==
  /\ \/ running = "serial" /\ Serial!Next
     \/ running = "cut" /\ CutSerial!Next
  /\ UNCHANGED <<serverVars, uartVars, coreVars, testVars, busVars>>

UartNext == running = "uart" /\ Uart!Next /\ UNCHANGED <<serverVars, serialVars, coreVars, testVars, busVars>>

CoreNext ==
  /\ \/ running = "core" /\ Core!Next
     \/ running = "starting" /\ StartingCore!Next
  /\ UNCHANGED <<serverVars, serialVars, uartVars, testVars, busVars>>

TestNext ==
  /\ \/ running = "host" /\ HostTest!Next
     \/ running = "button" /\ ButtonTest!Next
     \/ running = "mixed" /\ MixedTest!Next
  /\ UNCHANGED <<serverVars, serialVars, uartVars, coreVars, busVars>>

BusNext ==
  /\ running = "bus" /\ Bus!Next
  /\ UNCHANGED <<serverVars, serialVars, uartVars, coreVars, testVars>>

Next ==
  /\ UNCHANGED running
  /\ (ServerNext \/ SerialNext \/ UartNext \/ CoreNext \/ TestNext \/ BusNext)

\* The stack's timer polls every connection and the worker runs; a host reads what has come; the
\* UART takes something in the end; both cores run.
Fairness ==
  /\ WF_serverVars(running = "one slot" /\ OneSlot!Worker)
  /\ \A c \in Browsers : WF_serverVars(running = "one slot" /\ OneSlot!Poll(c))
  /\ WF_serialVars(running = "cut" /\ CutSerial!ReadBanner)
  /\ WF_serialVars(running = "cut" /\ CutSerial!Read)
  /\ WF_serialVars(running = "cut" /\ CutSerial!ReadNothing)
  /\ WF_serialVars(running = "cut" /\ CutSerial!Extract)
  /\ WF_uartVars(running = "uart" /\ Uart!SendByte)
  /\ WF_uartVars(running = "uart" /\ Uart!Module)
  /\ SF_uartVars(running = "uart" /\ Uart!Write /\ out' # out)
  /\ WF_coreVars(running = "starting" /\ StartingCore!Core0)
  /\ WF_coreVars(running = "starting" /\ StartingCore!Core1)

Spec == Init /\ [][Next]_vars /\ Fairness

-----------------------------------------------------------------------------
\* The stored frame is locked by one at a time and given back however a response ends, slots
\* belong to open connections, and a picture or a status that is sent is of one frame.
FramesWhole ==
  /\ running = "server" => Server!FramesWhole
  /\ running = "one slot" => OneSlot!FramesWhole

\* On both serial lines what is read is what was sent: in order while nothing is lost, nothing
\* made up from the remains of a cut, and no byte of an answer twice.  Over the busses a register
\* reads as it was written, whatever was tried again, and a frame is the bytes of one selection.
ReadIsSent ==
  /\ running = "serial" => Serial!InOrder
  /\ running = "cut" => CutSerial!InOrder /\ CutSerial!OnlySent
  /\ running = "uart" => Uart!ReadAsSent /\ Uart!AnswersWhole
  /\ running = "bus" => Bus!RegisterAsWritten /\ Bus!FrameOfOneSelection /\ Bus!BuffersAndBus

\* The result a host reports is of a test that began after the host, and comes; the LED's is that
\* of the latest test, while its module is there; and a press of the bouncing button starts one
\* test at most.
VerdictOfThisTest ==
  /\ running = "host" => HostTest!VerdictFresh /\ HostTest!RunAnswered
  /\ running = "button" => ButtonTest!LedTellsTest /\ ButtonTest!LedOfModule /\ ButtonTest!OnePressOneTest
  /\ running = "mixed" =>
       /\ MixedTest!VerdictFresh /\ MixedTest!LedTellsTest
       /\ MixedTest!LedOfModule /\ MixedTest!OnePressOneTest

\* A picture that is sent out of the shared buffer is the one that was summed and that the result
\* is of; no capture is given twice; who asks again is told of the same job.
PictureOfCapture ==
  /\ running = "core" =>
       Core!PictureIsResults /\ Core!GivenOnce /\ Core!PollsSameJob /\ Core!HostMayAsk
  /\ running = "starting" =>
       StartingCore!PictureIsResults /\ StartingCore!GivenOnce /\ StartingCore!PollsSameJob
       /\ StartingCore!HostMayAsk

\* A connection ends also when the browser stalls, connections being alike; behind a cut frames
\* come to the host again; every whole request is read some day, whatever came before it; the
\* camera comes up, and a capture that was taken up is done, whatever the module sends.
ComesToAnEnd ==
  /\ running = "one slot" => (pcb["c1"] = "open" ~> pcb["c1"] = "ended")
  /\ running = "cut" => CutSerial!Recovers
  /\ running = "uart" => <>[]Uart!EveryWholeIsRead
  /\ running = "starting" => StartingCore!ComesUp /\ StartingCore!CapturesEnd
=============================================================================
