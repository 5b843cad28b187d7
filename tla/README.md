# A TLA+ model of the IMX500 MCU SDK

The SDK (`src/ArducamIMX500SDK.c`) runs on a microcontroller or a PC and drives
a camera module - an RP2350 in front of a Sony IMX500 - through two function
tables the application registers: I2C register reads and writes, and SPI block
transfers. The module's firmware is not in the repository. Everything the SDK
knows of the module it learns by reading registers one at a time, while the
module goes on moving; every access may fail; the waits are bounded by time, and
most of them give up without telling the module. The first part of this project
is about what a return value of the SDK is worth. The second is about what the
SDK and the programs beside it do with what they get: frames, texts, settings,
and pictures. The third is about the programs of the boards, each of which has
two cores, several tasks, or a host at the other end of a line.

## Inventory

The SDK, in `src/ArducamIMX500SDK.c`:

| Component | Code | State | Operations | Hard part | Correct when |
|---|---|---|---|---|---|
| Payload status | `get_spi_flash_status`, `wait_for_*` (2357-2620) | none between calls; four module registers | read with retries, poll loops | torn reads, failing reads | what a loop concludes is true of the module |
| Blob transfer, I2C | `run_i2c_blob_transfer`, `abort_i2c_payload_operation` (2552-2620, 2920-3275) | offset in the stream | four wrappers, abort | stale verdicts, late opening, FIFO overrun, aborts that fail | `true` means this blob was imported by this operation in this call |
| Blob transfer, SPI | `run_spi_blob_transfer` (2622-2918), `switch_spi_data_forward_mode` (2323) | offset in the payload | three wrappers | no abort; receiver must be armed; mode closes late | the same, and the bridge is free afterwards |
| Command channel | `imx500_res_read/_write` (2059-2185) | none; three module registers | one command, one answer | no sequence number; a timeout cancels nothing | the answer is to this command |
| Firmware download | `load_imx500_fw`, `rp2350_send_fw_to_imx500_sspi` (3351-3504) | four in/out locals, divisions sent | one script of 13 steps | counted replies that outlive commands; in/out arguments; restarts | `0` means the IMX500 runs this image |
| Crop and affine | `imx500_set_affine` (2187), crop arithmetic (2006-2057, 3519-3565) | none | six commands; range checks, centred crop | partial application; rounding | success means all six; the window lies in the frame |
| Opening sequence | reset and `imx500_open` (3630-3855) | SDK cache | reset, boot wait, load, configure, switch mode | stale boot status; what failed calls leave running; stale cache after a flash boot | `true` means the module is, and stays, as asked |
| Metadata stream, output parsing | `read_metadata` (3857-3957), the parsers (490-860, 1807-2005) | none | poll ready, read size, read frame; take it apart | the module goes on producing | what is accepted is one whole frame, its tensors where they are |
| Data injection | 4095-4214 | static buffer | mode switch, stream, stop | no handshake, short providers | the module has the beginning of one frame, and all of it when told so |
| Network-info cache | `load_nn_info_to_sdk_cache` (1173-1429), sizes (3567-3610) | tables of at most `MAX_NUM_OF_NETWORKS` networks, a pool | load, size queries | two passes, lines in any order, leftovers of failed loads | after a load the cache says what the text says |
| Sensor settings | 1458-1646, 4258-4396 | staged exposure and white balance | 8/16/32-bit access, stage, apply | multi-byte access is not atomic | what was applied with success is in effect, all of it |
| Input preparation | 3959-4093, 862-1035 | none | convert, normalise | index arithmetic, signed registers | the network sees the picture |
| Driver registration | function tables; `peripherals_adapter.c` of the ESP32-P4 | handles, buffers | bind, register access, chunked read | retries, a selection in several chunks | a register is as written, a frame of one selection |

The programs around it:

| Component | Code | Actors | Hard part | Correct when |
|---|---|---|---|---|
| Python USB bridge | `python_bindings/.../usb_bridge.py` | driver, serial line, bridge firmware | late responses | a response belongs to its request |
| USB upload program | `tools/imx500_usb_flash.py` | program, its next run, firmware | ends anywhere, never aborts | exit 0 means stored whole |
| ESP32-P4 multitask example | `ai_camera_multitask.cpp` and its helpers | metadata task, display callback, button task, camera task, panel refresh | shared state with a mutex that is not always obtained; a framebuffer ring; power loss | see the properties |
| Pico W person detection | `pico_w/.../main.cpp` | worker core, TCP callbacks, browsers | a frame sent over many callbacks | a picture is of one frame |
| Pico 2 streaming | `camera_serial_stream_multitask` | board, host | packets among log lines, lost bytes | read is what was sent |
| Pico 2 production test | `production_test` | board, host, camera, operator | results of other tests | the verdict is of this test |
| MicroPython metadata service | `micropython_imx500_metadata_parse` | two cores, host | a view of a shared buffer; packets over UART | a picture is the one summed |

The application calls the SDK functions one at a time; the SDK calls the
registered drivers; these reach the module, whose firmware moves concurrently.
The transfers share the payload status registers and (over SPI) the forwarding
mode with one another and with the metadata stream; the firmware download shares
the SPI path and uses the command channel; the opening sequence uses all of them.
The programs call the SDK from one core or task and share what it returned with
the others.

## Modules

The SDK against the module:

| Module | Models |
|---|---|
| `FlashStatus` | the four payload status registers, `get_spi_flash_status` register by register with its sanity check and retries, the bounded poll loop |
| `I2cBlobTransfer` | `run_i2c_blob_transfer`, the waits it uses, and the public abort; the module's importer over I2C: operation request, FIFO, import, restart (external) |
| `SpiBlobTransfer` | `run_spi_blob_transfer` with `switch_spi_data_forward_mode` and its waits; the module's importer over SPI: forwarding mode, receiver arming, import, restart (external) |
| `BlobImport` | the abstract promise of both transfers: a call is an offer; the module imports some of what was offered, also late; `true` only if the call's own blob was imported during the call |
| `ModuleCommands` | `imx500_res_read`/`_write`, and the scripts of `load_imx500_fw` and `imx500_set_affine` over them; the module behind the command registers: latching, running, answering, the IMX500's download replies, six coefficients (external) |
| `Opening` | `imx500_open` and `reset_imx500_module`, a script over the module as it sees it: boot status, reset, flash load, settings, forwarding mode (external) |
| `I2cBlobTransferProofs`, `SpiBlobTransferProofs`, `ModuleCommandsProofs`, `OpeningProofs` | inductive invariants and theorems |

What is done with data (composed in `MCHostData`, `MCVision`):

| Module | Models |
|---|---|
| `MetadataStream` | `read_metadata`, `get_metadata_size`, and three parsers of the frame: the SDK's two and the serial host's |
| `NetworkInfoCache` | both passes of the loader, the pool, both copies of the cache, the frame sizes |
| `SensorSettings` | multi-byte access, staging and applying exposure and white balance |
| `DataInjection` | the two injection calls, packets, blocks, stop |
| `InputTensor` | resize, pad and transpose; the inverse of the module's normalisation |
| `CropGeometry` | the centred crop, the absolute crop and what it hands to the affine setting |
| `OverlayPostprocess`, `LcdCompose` | the ESP32-P4 example's classification, detection, segmentation and pose results; composition, marks, masks, lines and the preview on the screen |
| `SsdDetections` | the MicroPython service's detections |
| `PersonRoi` | the Pico W example's persons and region of interest, on two cores |
| `HostDataProofs` | theorems about the injected frames and the sensor's settings, and about the suite as composed |

The programs (composed in `MCUsbPrograms`, `MCMultitask`, `MCBoards`):

| Module | Models |
|---|---|
| `UsbPipe` | the USB serial line: answers in pieces, in order, late (external) |
| `UsbBridge`, `UsbUpload` | the two programs at its host end, stopped and run again |
| `DisplayRing` | the ring of LCD framebuffers against the refresh counter |
| `OverlayTasks` | metadata task, display callback and button task around the result and the mask |
| `ModelSelection` | the model index in NVS over presses, restarts, power losses and faults |
| `VideoStream` | the camera task, its buffers and its client |
| `PeripheralAdapter` | the I2C and SPI functions of the ESP32-P4 |
| `FrameServer` | worker, stored frame and HTTP server of the Pico W |
| `SerialStream` | the streaming example's packets and their receiver |
| `ProductionTest` | board, host, camera and operator of the production test |
| `CameraCore`, `UartPackets` | the MicroPython service's two cores; its packets |
| `UsbProofs`, `MultitaskProofs` | theorems about the bridge and the upload program; about the multitask example |
| `BoardsProofs` | theorems about the server, the service and the production test, and about the boards as composed |

An `MC` module gives small values to the constants. The suites `MCUsbPrograms`,
`MCHostData`, `MCMultitask`, `MCVision` and `MCBoards` hold several components
that do not interact: each is an INSTANCE, a variable fixed by the initial state
(`program`, `part` or `running`) says which of them moves in a behaviour, and the
variables of the others rest. A property of a suite is a conjunction over the
parts, and each conjunct is a definition of the part's module, stated there with
its comment. Some components are instantiated twice, with different constants.

How to read the transfers against the code: `pc` is the statement the SDK is at,
named after the loop or access (`"settle"`, `"waitHeader"`, `"drain"`...).
A status read is four steps `GetStatus` (`rd` counts the registers), and the
module may move before each; the action that then consumes the status is the
body of the loop. A loop that slept and polls again is `Repoll`; one that ran
out of time is `TimedOut`. Each `Return` disjunct is a `return` of the code, with
the abort write before it where the code has one (`GiveUp`). `call`, `offered`,
`imported`, `ret` are history: what was asked, by whom, and what came back.

In `ModuleCommands` the two calling functions are scripts, `step` is the position
and `io` the access within a step: write the command, poll, read the answer, or
stream data. `locals` holds the variables of `load_imx500_fw` that
`imx500_res_write` overwrites with the module's answer (the code passes their
addresses): the size used for the byte swap and the stream is the one that came
back.

`Opening` is a script too. Its commands, downloads and transfers are one step each,
with the outcomes the other modules establish: a successful download has installed
its image (`LoadedIsInstalled`), a successful transfer has imported its text and
left the bridge free (`TrueMeansImported`, `TrueLeavesBridgeFree`), a crop that
returns success is set whole (`AffineApplied`); a command that timed out may have
run, may run later, may be ignored, and may be met by the next command, which then
has no answer of its own (`ReplyIsOwn` promises none). The waits are polled register
by register. The version and identity queries are one step `"query"`, whose failure
the code ignores.

The other modules follow the same pattern: a step ends where another task, core,
callback or the module can come between. What runs under a lock is one step; what
a task reads without one is a step of its own. Functions on buffers (parsers,
resizing, composition, grouping) are operators that the action of the call applies,
and the properties compare their result with a definition of what it should be
that does not use them: where the module put the tensor, which pixel of the picture
a byte came from, which pixels lie on a line.

Abstractions. A payload is a token with a length; a byte is its blob and its
position, so damage, loss and misplacement show as a session that is not
`intact`, which the header's checksum catches. In the serial protocols a byte is a
pair of a kind and a value; a text line is a record of key, suffix and value; a
pixel is the number of the camera's pixel or frame it came from. Milliseconds are a
bound on polls: since the module may make any number of steps between two polls, a
longer loop has no outcome a shorter one lacks. Logging, argument checks for null
and missing drivers, and allocation of buffers of the transfers are left out.
Lengths are in small units with the divisibilities of the code (header, block,
chunk, division). Floating-point numbers are whole numbers of a unit.

## Assumptions about the outside

The device modules are nondeterministic wherever the SDK does not rely on a
behaviour: slow, refusing, failing, restarting. What they do assume is what the
code needs and cannot check:

- `PromptOp` (I2C): the application's next call comes after the module has acted
  upon the last import request. A transfer that times out waiting for
  `WAIT_HEADER` (3089-3097) returns without an abort; without this assumption its
  request may open an import under the next call's stream. Before each call an
  application can secure it with `abort_i2c_payload_operation`.
- `PromptArm` (SPI): a receiver that has published its count is armed within
  `SPI_FLASH_RECEIVER_ARM_GUARD_MS`.
- switching the forwarding mode ends an open import (SPI). With it, no analogue
  of `PromptOp` is needed: the mode has to read back as the target.
- `PromptLatch` (commands): a written command shows in the running status within
  the millisecond slept before the first poll. Without it a stale "done" is taken
  for the answer: the counter just read is then the reply status, and a download
  may be reported done that was not.
- `EchoesArgs` (commands): a command that takes a value answers with it. The runs
  set it; the theorems hold with and without.
- `PromptReset` (opening): a RESET that ran has restarted the module by the end of
  the two seconds slept. Without it the boot status polled is the old one, the
  settings are made on the old run, and the restart wipes them after success.
- settings stay until a default configuration or a restart; a default
  configuration may take back any setting that comes after it in the script.
- the restart of the module is atomic and clears its registers; an acknowledged
  I2C register write to the command registers has arrived (payload writes may be
  lost or damaged though acknowledged).
- a metadata frame is not replaced while it is being clocked out.
- `PeripheralAdapter`: the module begins a new selection at its first byte; a
  failed transaction may have reached it; after a failure the driver may or may
  not deselect. The SDK calls one function at a time, and a failed bind restarts
  the board (as the example does), so there is no second bind in a run.
- `UsbPipe`: the bridge firmware serves requests in order, each once.
- `DisplayRing`: the camera gives at most one frame per refresh of the panel.
- `VideoStream`: the client sets buffers only while the stream is stopped, and does not go
  on after a call that failed; a stream that stops gives all buffers back.
- `SerialStream`, `UartPackets`: a damaged header or payload never matches its
  checksum; a host does not pause inside a request longer than the receiver waits.
- `ProductionTest`: what the board printed before the host opened the port is
  gone; a board that restarts may or may not keep the host's port.

Restrictions of data, within which the properties of the data modules are stated:
white-balance regions no larger than the sensor's picture, 4056 x 3040, which the code
does not check and whose sizes it writes in one byte each; texts that give the number
of networks once; injected widths below 2^32 less the alignment; `yAdd` within its 9
bits and `ySht` never set; rectangles whose corners lie in the picture; at most 30
candidates of a joint; preview frames at least as large as the screen in both
directions and larger in one. Coordinates are compared exactly in `PersonRoi` and
`LcdCompose`, where the code uses `float` with an epsilon.

## Runs

| Run | Instance | Shows |
|---|---|---|
| `i2c_block` | two operations (one padded), blobs of 3 and 1 bytes, header 2, FIFO 3, two calls, one restart | the main safety properties of the I2C transfer and abort; it implements `BlobImport` |
| `i2c_fallback` | no block driver: writes of `FallbackChunk` bytes, header of two writes; fairness | acknowledgement and FIFO discipline of the fallback path; every call returns |
| `spi_transfer` | two modes, blobs of 3 and 1 blocks, chunks of 2, two calls, one restart; fairness | the same for SPI, and no block meets an unarmed receiver |
| `command_calls` | images of 7 units (a division and a tail) and 3, rectangles, two calls in any order, one restart; fairness | answers belong to commands, no reply missed, a successful load or setting is true; every call returns |
| `opening` | direct and flash boot, each kind of format, a text the cache refuses; two calls, one restart; fairness | `true` means the module restarted in this call and is as the caller asked |
| `stale_cache` | a direct boot and a flash boot | expected violation, see Findings |
| `usb_programs` | the bridge with two sessions and with three that reopen the port; four runs of the upload program with either or both targets | late and partial answers, stopped and repeated programs |
| `host_data` | frames of output and of pictures, whole, cut off and replaced; whole, truncated and odd texts, three loads; settings with a failing write; injected frames over several packets; pictures and register values at the edges | what the SDK does with data |
| `metadata_damaged` | pictures that lost their end marker | expected violation, see Findings |
| `multitask` | ring with and without callback, with failed frames and switches; four result frames with one mutex timeout; three models, two presses, power losses; camera task with three restarts, with and without driver errors | the tasks of the ESP32-P4 example |
| `vision` | small tensors of four kinds, three joints with two candidates, seven camera sizes on a 9x5 screen, all lines on a 5x4 one, ten regions, crops at the edges | what is made of tensors and pictures |
| `boards` | two browsers for two slots and for one; three items with and without a cut; two requests with noise and a cut; three captures, and startup with failures; tests started by host, button, both; registers and frames over failing busses | the boards others talk to |

What the properties of the core say. A property of a run is a conjunction of the
named parts, which are the definitions to read.

- `EndsWell` (I2C): `TrueMeansImported`, `NoSilentAbandon`, `AbortLeavesIdle`.
  `TrueMeansImported` and `ImplementsBlobImport` are the verdict: the hazards are the
  SUCCESS an earlier operation left in the registers, a status torn between two
  operations, a restart, a chunk lost with everything acknowledged. The other two are
  what failures leave behind. A call that returns false in mid-stream without
  writing ABORT leaves no import open (the code aborts, or has read FAILED, or the
  module is idle); a successful public abort leaves nothing that could open.
- `TransferSafe`: `NoMisroute` and `OwnImport`, no call streams into an import it did
  not open. I2C relies on settling or aborting what it finds, SPI on the mode
  readback. `AckedIsReceived`, `WriteOnlyWhenDrained` (I2C) and `NoBlockLost` (SPI)
  are flow control: no write before the one ahead of it is taken. `VerdictNotTorn`
  (I2C): a SUCCESS is paired with its own result although read separately. This is
  why the final loop can treat "SUCCESS, not OK" as an error.
- `TrueLeavesBridgeFree`: after a true SPI transfer the mode is NONE. A late
  write of the same mode may still be outstanding, so the property speaks of the
  mode, not of the request.
- `OwnCommands`: `ReplyIsOwn`, `OneAtATime`. Within a call each command has ended
  before the next is written, so its answer is its own. A call that starts while a
  command of an earlier, timed-out call still runs, or that meets a restart, has no
  such guarantee (`disturbed`), and nothing in the registers tells it.
- `ImagesWhole`: `NoReplyMissed`, the reply counter given to the wait is older than
  the reply waited for (with the baseline read after the request this fails);
  `NoDivisionLost`, `WholeImageForwarded`, pacing, and the padding that flushes the
  bridge.
- `CommandsTakeEffect`: `LoadedIsInstalled` holds even if the module restarts during
  the call: only the pair "counter changed after READY" and "reply is DONE" ends in 0,
  and replies are published in order. It is stated for calls that met no command of an
  earlier one, since the module may then drop the command that prepares the download.
  `AffineApplied` does not: a restart between two coefficients resets the first ones
  unnoticed, so it is stated for undisturbed calls.
- `ResetHappened`: the boot that `imx500_open` waits for is this call's.
- `OpenedAsAsked`: `StaysAsAsked`, after success, network, network info, settings and
  forwarding mode are what the call asked for, until the next call or a spontaneous
  restart; no command, mode switch or flash load of this call or of an earlier one
  that failed comes late. Two exceptions are the code's. A RESET that meets a command
  still running may be ignored. And since failed queries are ignored (3666),
  SET_SPI_FRQ may be ignored for a query that still runs: the frequency is then not
  promised. `PathIsOpen`: weights are sent only over a bridge that is switched, with
  no other switch outstanding.
- `CallReturns`: liveness.

What the properties of the suites are made of:

| Property | Parts |
|---|---|
| `AcceptedIsOwn` | `AnswersOfOneTransport`, `OutOfStepStaysSo`, `TotalIsWritten` (bridge); `AnswersOfOneRun` (upload) |
| `UploadedIsStored` | `UploadedIsStored`, `InfoFollowsModel`, `StoredIsOneUpload` |
| `FramesParsedWhole` | `ParsedIsWhole`, `WholeIsParsed`, `ParsersAgree`, `DetectionsInside` |
| `LoadedIsText` | `LoadedIsText`, `CopiesAgree`, `ArraysApart`, `SizeIsText`, `AcceptedHasBlocks` |
| `AppliedIsInEffect` | `AeAppliedIsInEffect`, `WbAppliedIsInEffect`, `ReadIsWritten`, `FailureIsTold` |
| `InjectedIsPrefix` | `FrameIsPrefix`, `CompletedIsWhole` |
| `PreparedIsPicture` | `PixelInPlace`, `ProducedIsWritten`; `NormalisationUndone` |
| `ComposedUnseen` | `OffScreen` when all frames compose; `TornOnceEach`, at most one torn refresh for each failed frame or switch |
| `DrawnTogether` | `SummaryOfResult`, `MaskNotOlder` |
| `RunsActiveModel` | `MatchingPair`, `OnePressOneSwitch` |
| `FrameStays` | `FrameStays`, `EndsIfAsked`, `OneMore`, `NoAbort` |
| `ComesAbout` | an expired result leaves the screen; the saved model comes to run |
| `ResultsOfFrame` | `TopIsBest`, `BoxesInOneMeasure`, `NoDetectionLost`, `MaskShowsSource`, `DominantIsMost`; `BestAreSent`, `BoxesInPicture`; `GroupsArePeople`, `JointsOfThisFrame` |
| `DrawnInPlace` | `NoOldPixel`, `FillsScreen`, `EveryFrameShown`, `MarkOnPicture`, `MarkAtObject`, `MaskAtObject`; `PreviewFits`; `NearLine`, `OnlyNear` |
| `PersonsAgainstRegion` | `InsideIsOverlap`, `RoiWhole`, `PersonsFirst` |
| `CropInFrame` | `CropFits`, `OnBayerGrid`, `Centred`, `WindowInFrame` |
| `FramesWhole` | `LockAccounted`, `SlotsOwned`, `FrameWhole`, `StatusOfOneFrame` |
| `ReadIsSent` | `InOrder`, `OnlySent`; `ReadAsSent`, `AnswersWhole`; `RegisterAsWritten`, `FrameOfOneSelection`, `BuffersAndBus` |
| `VerdictOfThisTest` | `VerdictFresh`, `RunAnswered`, `LedTellsTest`, `LedOfModule`, `OnePressOneTest` |
| `PictureOfCapture` | `PictureIsResults`, `GivenOnce`, `PollsSameJob`, `HostMayAsk` |
| `ComesToAnEnd` | a connection ends; `Recovers`; `EveryWholeIsRead`; `ComesUp`, `CapturesEnd` |

What they do not say of a hazard, since the code does not give it, or an assumption
about the module takes it away:

- a late opening of an earlier import under the next stream (3089) is left to `PromptOp`;
  an abort whose register write fails (3149) leaves the import open, and
  `NoSilentAbandon` speaks only of returns without an abort write;
- calls that meet a command of an earlier call are outside `OwnCommands` and
  `CommandsTakeEffect`, and a status read before the command was latched is left to
  `PromptLatch`; the run has modules that answer with the argument (`EchoesArgs`), the
  theorems those that do not, too; a restart that comes later than the sleep after RESET
  is left to `PromptReset`;
- `LoadedIsText` is about loads that returned success; what a refused text leaves in the
  tables is under Findings;
- `CompletedIsWhole` leaves out a provider that runs dry, after which the code reports
  completion (4133);
- `MaskNotOlder` allows a mask, or part of one, of a later frame than the summary: the
  mask is written without the mutex (1559);
- `PersonsAgainstRegion` begins with the full image as the region, as the program does;
- `OnlySent` rests on the assumption above that damage never matches a checksum, which is
  a sum of the payload's bytes.

Bounds. Two calls are the fewest in which one call can meet what another left
behind, and what is left is bounded: one import, one outstanding request, one
running command. Two polls give each loop a first, a repeated and a last round;
two retries likewise. One restart per behaviour. `CntMod` 4 keeps the reply
counter from coming round within a call, as the register's width does. In the
suites the sizes are the smallest with every branch: three framebuffers and three
models, a payload that just fits and one a byte too long, buffers one short and one
over, an element at each end of each register; a sequence of calls is as long as
what one call can leave for a later one. Sizes that matter themselves are kept: the
4096-byte block of the picture, 16-bit lengths (`Word`), the sensor's 4056x3040.
`CHECK_DEADLOCK FALSE`: after the last call the application and the module may
rest, and in a suite a part may come to its end.

Fairness. In the core it is `WF_vars(HostStep)`: the SDK is single-threaded, and a
step of its code is always followed by the next. Of the module it is assumed only
that what a sleep or guard time is taken to be enough for comes (`PromptArm`,
`PromptLatch`, `PromptReset`: the SDK's step waits for it in the model, as the
sleep does in the code); the loops have to end by themselves. In the suites: the
metadata task, the display callback and the clock of the overlay go on, and the
program that chooses the model; a call of `read_metadata` or of an injection goes
on, and a frame that was read is parsed; the TCP stack polls every connection and the worker runs; a host reads what has
come; both cores of the metadata service run; the UART sends bytes, and takes
something in the end (`SF` on a write that makes progress, as the loop in the code
has no other end).

## Findings

`ArducamIMX500SDK.h:640` calls `network_info` the descriptors "parsed from the
current network-info blob". `stale_cache` finds a direct boot followed by a flash
boot: both return true, the module runs the network of its flash, and
`network_info` is still the one of the direct boot, since only the direct branch
(3716) loads it. `calculate_spi_output_metadata_size` (3567) then computes the frame
size of the other network. An application that boots from flash has to call
`load_nn_info_to_sdk_cache` itself.

`ArducamIMX500SDK.h:336` says of `parse_metadata` that it returns false "when the
metadata is invalid". `metadata_damaged` finds a frame whose picture has lost its end
marker: it is accepted without an image (804), and what follows the flatbuffer is
bound as the output tensors.

Other places where the code departs from its words, met while modelling and
confirmed on the models, without a run of their own:

- `ArducamIMX500SDK.c:1179` clears the tables before the text is accepted, so after a
  refused text the cache is not the "current" one of `ArducamIMX500SDK.h:640` either;
- `ArducamIMX500SDK.c:2030`-2057 round only the extent that is cut; the other one stays
  that of the source, an odd one too, and 2007 leaves an offset or size of 1
  (`ArducamIMX500SDK.h:362`, "rounded down to even values when possible"). `CropFits`
  says what the code does, with sources of 3 and 7 pixels in the run, and `OnBayerGrid`
  that in a source of even size, as the sensor's, all edges are even but for the value 1;
- `ArducamIMX500SDK.c:3976` normalises in triples, so it mixes up the channels of any
  tensor but an RGB one, or refuses it (`ArducamIMX500SDK.h:451`, "an input tensor buffer");
- `ai_camera_multitask.cpp:413` may choose a framebuffer that is still on the screen
  after a frame could not be composed ("overlays are completed off-screen before
  scanout", 1238);
- `ai_camera_multitask.cpp:1460` counts zero-header frames over good frames whose
  section was passed over, and over other bad ones ("consecutive", 1462);
- `app_video.c:384` reports success when the stream did not start
  (`app_video.h:108`); 401 does not stop the current task before it starts another
  (`app_video.h:121`); 420 asks the task to end and does not delete it or reset its
  handle (`app_video.h:135`);
- `pico_w/imx500_person_detect_roi_mvp/main.cpp:1247` tells outputs at rest in a status
  that is answered while a picture is being sent (`README.md:106` of the example);
- `production_test/main.cpp:284` cannot tell whether `stream_on` succeeded (its
  `README.md:66`, 69), and at 388 a press made during a test, and held, starts the next
  one (`README.md:101`, "ignored");
- `micropython_imx500_metadata_parse/main.py:1114` gives the result of an earlier
  request, with that one's choice of a picture, to a request that asks otherwise
  (`README.md:63`, "controlled by request JSON").

## Proofs

TLC checks the runs' small instances. The theorems hold for every value of the
constants that satisfies the named assumptions of the modules, thus for any sizes,
numbers of calls, restarts, buffers and presses. In every module the argument is the
same: the property is not inductive by itself, an invariant that is says what the
property silently relies on, each action has a lemma with one step for each part of
the invariant it can disturb, and a temporal theorem combines them.

| Module | Proves | Of the runs' properties | Assuming |
|---|---|---|---|
| `I2cBlobTransferProofs` | types; every safety property of the transfer and abort; it implements `BlobImport` | `TypeOK`, `TransferSafe`, `WriteOnlyWhenDrained`, `EndsWell`, `ImplementsBlobImport` | `PromptOp`; the types without |
| `SpiBlobTransferProofs` | types; no misrouted, lost or foreign block; the bridge is free; it implements `BlobImport` | `TransferSafe`, `TrueLeavesBridgeFree`, `ImplementsBlobImport` | nothing; `NoBlockLost`: `PromptArm` |
| `ModuleCommandsProofs` | types; each answer is the command's own; downloads arrive whole; what returns success took effect, for a call that met no command of an earlier one | `TypeOK`, `OwnCommands`, `ImagesWhole`, `CommandsTakeEffect` | `PromptLatch`; the types without |
| `OpeningProofs` | types; the module is as asked, and stays so; its reset happened | `OpenedAsAsked`, `ResetHappened` | `PromptReset` |
| `MultitaskProofs` | ring, overlay, choice of the model and camera task, each for all constants; then as composed | `ComposedUnseen`, `DrawnTogether`, `RunsActiveModel`, `FrameStays` | three framebuffers or more; a client that waits for the end of a task |
| `BoardsProofs` | the server, the metadata service and the production test, each for all constants; then as composed | `FramesWhole`, `PictureOfCapture`, `VerdictOfThisTest` | - |
| `HostDataProofs` | the injected frames and the sensor's settings, each for all constants; then as composed | `InjectedIsPrefix`, `AppliedIsInEffect` | white-balance regions of the sensor's picture |
| `UsbProofs` | the bridge and the upload program, each for all constants; then as composed | `AcceptedIsOwn`, `UploadedIsStored` | uploads of the model, of the network information, or of both in that order |

**Transfers.** That an import serves this call at the write of a chunk follows from
what was read long before. `IInv` adds what connects the two: what the module's
registers imply about its import (`DeviceInv`), what an import may hold
(`OfferedInv`), that from the request on nothing but this call's import can be open or
come (`OwnInv`), which of the facts read register by register still hold in the module
when the last register is in (`ReadInv`), and what the module has received of the
stream (`StreamInv`). Over I2C `OwnInv` rests on `PromptOp`. Over SPI the mode that
reads back is enough, so only the arming of the receiver has to be assumed. Both
refinements are proved step by step: the SDK's return is the abstract return, a
module step that completes an import is the abstract import, all others stutter.

**Command channel.** Typing needs `CallInv`: `sent` is bounded by a size that the
answer to a command replaces, so the call must be known not to have sent anything
then. `ReplyIsOwn` needs `ExchangeInv`: until the answer is read, the command is either
written, or running with the status RUNNING, or answered; the sleep before a poll
excludes the first, so a status FINISHED speaks of this command.

A download adds `EffectInv`. As long as the module has not restarted it is `Regular`:
which replies have been published follows from the phase of the download
(`RepliesInv`), how far the reply counter has moved since it was read follows from
which replies are out and which can still come, an earlier download's last one among
them (`CountInv`, `LateInv`), the status beside a counter that moved is one of the new
replies (`StsInv`), and the parameters that arrived are this call's (`ParamInv`,
`DataInv`). After a restart it is `Wiped`, and no reply will come that could end the
call well. A call has at most three replies ahead of it, hence the assumption that the
counter does not come round within four.

**Opening.** `StaysAsAsked` speaks of the end of a call. `Progress` says what each
position of the script relies on: the restart has swept away what earlier calls left
behind, the network comes from where this call loads it, the mode in force is the one
written last, the settings made so far are in effect. A step that succeeds establishes
`Progress` for the next position (`DoneAdvances`), and `Progress` past the last one is
what was asked for, which `SettledInv` carries on until the next call.

**Server.** A picture is sent in callbacks between which the worker and other
connections run. `LockInv`, `SlotInv` and `ClientInv` say who has the mutex and for
which connection, `StoredInv` how much of the stored frame is the worker's new one at
each of its steps, `SentInv` that what a browser got is of the frame stored now while
its client is locked, `AckInv` that nothing is acknowledged that was not sent.

**Injected frames.** `InjectInv` says, at each step of a call, how much of the frame has
arrived: where a chunk is being sent, `offset` and the blocks sent of it; where it has
been, all of it, so that the next one begins behind it. A block that fails may have
arrived in part, and then the call ends; so the module has the beginning of one frame,
of this call or of an earlier one, and a call that says success has sent all of it.

**Settings.** A setting is in effect when all its registers have their bytes, which are
written one by one over a link that may fail. `SensorInv` says what a successful apply
left (`AllApplied`: all registers of the applied configuration, as long as no other
apply of this setting has begun), and how far the apply in progress is (`UnderWay`): as
long as no byte of it has failed, what has been written is in its registers and what has
not is still in the list. It needs lemmas on the lists: that every register of a setting
is in its list, that each byte of the list is what its register must hold, and that the
lists of two settings have no register in common. With `Fold` a failure is never taken
back, so a return of 0 means that no byte failed.

**Multitask example.** The components are proved about as instances with variable
constants (`RingOf(n, ...)`, `VideoOf(n, ...)`), and a lemma for each shows that the
instance of the run is one of those. `SlotInv` ties what is in the module's flash to
how far the start is, whatever lost power; `PressInv` counts each press once. `SummaryInv`
and `MaskInv` say which parts of summary and mask are of which result while the writer
is between two of them with or without the mutex. `VideoInv` follows each buffer
between driver, task and client, and each task from its request to end to its end. For the
ring, `CreditInv` gives each torn refresh a cause: the refreshes torn so far, those a
frame already owes, and a status screen that is being drawn are together no more than
the frames that failed and the switches made, and `BusyInv` says why a frame without a
cause owes nothing: the buffer chosen for it is neither on the panel nor next.

**Metadata service.** `TurnInv` says whose turn the job is; from it `PictureInv`: the
shared buffer rests from the capture until the picture that was summed is out. `GivenInv`
(what is there has not been given), `PollInv` (what the host was told of stays until it
is given) and `AskInv` (there is no job before data is asked for) are about the history
of answers.

**Production test.** The press that starts a test bounces: `FingerInv` says that when all
presses are used up and the button is seen as it is, a level seen otherwise is not
believed before the bouncing ends. `FreshInv` says that a result no later than the
program can reach it only while it waits, and before any line that ends the wait; so a
verdict is of a test that began after the program did. `AnswerInv` says that the reboot
after a test, which empties the line, loses a RUN only when the one who sent it has a
result coming.

**USB programs.** Both are request and answer over a line that answers in order but late,
and a program that is run again may take what an earlier run asked for. For the bridge,
`LineInv` says that what is on the line is a run of requests, each the successor of the one
before or the first of a later transport, ending with the newest, and the answers to
them in pieces; so the distance between question and answer never shrinks by itself. From it,
what a transport has been answered is its own, in step or out of step for good, or is all
of one earlier transport (`AnswerInv`), and the total it reports is the sum of what
the firmware wrote (`SumInv`). For the upload, `ScriptInv` gives the position in the script,
`QueueInv` says that the frames between the last one the firmware took and the last one
written follow each other in the script, with a ping where a new run begins, `DeviceInv` that
what the firmware holds or has put into flash is what one run sent, and `AcceptedInv` that
the run in progress has accepted nothing, or its own, or one earlier run's.

Attempts at these proofs changed the model where it was wrong: a download that begins
while an earlier call's command runs may lose its first command and end in `0` with
that call's parameters, so `LoadedIsInstalled` is now stated for calls that met none
(`met`); the type of a download is a number, as the answer that replaces it is;
the reply counter needs a period above three (`CntMod`); and a write of the forwarding
mode over SPI that fails may have arrived. `OutOfStepStaysSo` was false of a bridge that
an earlier transport's answers reach (three transports with three requests each show it),
and is now stated for one that gets its own.

Only model-checked:

- liveness (`CallReturns`, `ComesAbout`, `ComesToAnEnd`), which is out of the prover's
  reach, as is anything about ENABLED;
- what a recursive definition or a fold computes: the parsers (`FramesParsedWhole`,
  `LoadedIsText`), the pictures and boxes of `vision`, the tensors of `InputTensor`, the
  packets of `ReadIsSent`. The provers at hand cannot instantiate an induction theorem;
- the division and rounding of `CropInFrame`, `DrawnInPlace` and `PersonsAgainstRegion`;
- types of the suites' parts, where no theorem needs them.

## Not modelled

- The calls of `ArducamIMX500SDK.cc` into the C++ FlatBuffers library. Otherwise the
  file is the C file for a C++ compiler: the two differ in those calls, in how some
  constants are declared and in initialisers, so the models are of both. In
  PROJECT.json, where the definition of a whole function and those of its parts would
  name the same lines of the C file, the one of the whole function names the C++ file.
- The language bindings convert arguments around the functions modelled here; the
  driver setters are assignments; the adapters of the other boards hand each access
  to their board's library.
- `init_input_tensor_preprocess_config` (1647-1806): nothing calls it. Likewise
  `CameraCore` leaves out what its program cannot reach: a cancelled job, a camera that
  is not ready after it was.
- `stream_on`, `probe_imx500_module` and the queries are one command each, of the kind
  `ModuleCommands` models, and are not run by themselves.
- The values of tensors, FlatBuffers and the other generated code, the JPEG codecs and
  the thumbnail of the SPI picture, the layout of texts and of the server's pages.
- The frame-rate benchmark is a sequential loop that counts and divides; the one-file
  demos call the SDK in a row.
- Firmware images, labels, build scripts.

## Plan

Done of the plan: the core and the theorems about it, every component that keeps state
in the SDK, the programs around it, the abstract promise of the transfers and that both
transfers keep it, and theorems about the programs of three boards, the USB programs, the
injected frames and the sensor's settings. What is worth doing next:

1. `RegisterAsWritten` of `PeripheralAdapter`: sequential code under failing accesses, where
   an invariant of a few lines should do. The other parts of `ReadIsSent` need what the
   checksums and parsers compute.
2. `PersonsFirst` and `InsideIsOverlap` of `PersonRoi`, and `CropFits` and `WindowInFrame`
   of `CropGeometry`, which need division and rounding lemmas.
3. The JPEG thumbnail and the texts of the ESP32-P4 overlay.
