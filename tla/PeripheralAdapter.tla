--------------------------- MODULE PeripheralAdapter ---------------------------
(***************************************************************************)
(* The I2C and SPI functions the ESP32-P4 example registers with the SDK,  *)
(* between the SDK and two busses whose transactions may fail.  A register *)
(* access is tried again after a reset of the bus; the module may have     *)
(* taken a write that failed.  A frame is read in chunks with the module   *)
(* selected throughout, through two buffers that are made at first use.    *)
(* The module sends the bytes of a selection in order, and begins anew     *)
(* when it is selected again.                                              *)
(***************************************************************************)
EXTENDS Integers, Sequences, SequencesExt

CONSTANTS
  Base,        \* values of a byte
  Registers,   \* the module's, with the width the SDK uses for each
  Values,      \* written to them
  Lengths,     \* of SPI transfers
  Reported,    \* what the SPI driver may give as its longest transaction
  SafeChunk,   \* IMX500_SPI_DMA_SAFE_CHUNK_MAX_BYTES
  Retries,     \* IMX500_I2C_RETRY_COUNT
  MaxCalls, MaxFaults

AdapterAssumption ==
  /\ Base \in Nat \ {0, 1} /\ Retries \in Nat \ {0} /\ SafeChunk \in Nat \ {0}
  /\ \A r \in Registers : r.at \in 0 .. Base * Base - 1 /\ r.width \in {1, 2, 4}
  /\ Reported \subseteq Nat /\ Lengths \subseteq Nat /\ Values \subseteq Nat

VARIABLES
  pc, call, result,   \* the call, and what the last one returned
  calls, faults,
  s_bound, i2c_handle, spi_handle, max_read_chunk_len,
  tx_zero, rx_chunk, dma_chunk_size,  \* sizes of the buffers, 0 when there is none
  attempt, data, offset,
  registers, received,                \* what the module was sent
  acquired, selected, selection, position

handles == <<s_bound, i2c_handle, spi_handle, max_read_chunk_len>>
buffers == <<tx_zero, rx_chunk, dma_chunk_size>>
bus     == <<acquired, selected, selection, position>>
module  == <<registers, received>>
vars    == <<pc, call, result, calls, faults, handles, attempt, data, offset, module, buffers, bus>>

NoCall  == [op |-> "none"]
Failure == -1

Unbound ==
  /\ s_bound = FALSE /\ i2c_handle = FALSE /\ spi_handle = FALSE /\ max_read_chunk_len = 0
  /\ tx_zero = 0 /\ rx_chunk = 0 /\ dma_chunk_size = 0

Init ==
  /\ pc = "start" /\ call = NoCall /\ result = 0 /\ calls = 0 /\ faults = 0
  /\ Unbound
  /\ attempt = 0 /\ data = <<>> /\ offset = 0
  /\ registers = [r \in Registers |-> [i \in 1 .. r.width |-> 0]] /\ received = <<>>
  /\ acquired = FALSE /\ selected = FALSE /\ selection = 0 /\ position = 0

Fault == faults < MaxFaults /\ faults' = faults + 1

Return(value) == pc' = "idle" /\ result' = value

----------------------------------------------------------------------------
\* ensure_i2c_device(), for the first time
AddI2c ==
  /\ pc = "start"
  /\ \/ pc' = "spi" /\ i2c_handle' = TRUE /\ UNCHANGED faults
     \/ pc' = "failed" /\ Fault /\ UNCHANGED i2c_handle
  /\ UNCHANGED <<call, result, calls, s_bound, spi_handle, max_read_chunk_len, attempt, data, offset,
                 module, buffers, bus>>

Clamped(n) == IF n > SafeChunk THEN SafeChunk ELSE n

\* ensure_spi_device() for the first time, and the rest of bind_peripherals_api().  The handle is
\* there before the longest transaction is known.
AddSpi ==
  /\ pc = "spi"
  /\ \/ pc' = "failed" /\ Fault /\ spi_handle' \in BOOLEAN /\ UNCHANGED <<max_read_chunk_len, s_bound>>
     \/ \E n \in Reported :
          /\ spi_handle' = TRUE /\ max_read_chunk_len' = Clamped(n) /\ s_bound' = (Clamped(n) > 0)
          /\ pc' = (IF Clamped(n) > 0 THEN "idle" ELSE "failed")
          /\ UNCHANGED faults
  /\ UNCHANGED <<call, result, calls, i2c_handle, attempt, data, offset, module, buffers, bus>>

\* ai_camera_multitask_run() returns an error, and app_main() restarts the board.
Restart ==
  /\ pc = "failed" /\ pc' = "start"
  /\ s_bound' = FALSE /\ i2c_handle' = FALSE /\ spi_handle' = FALSE /\ max_read_chunk_len' = 0
  /\ UNCHANGED <<call, result, calls, faults, attempt, data, offset, module, buffers, bus>>

Begin(c) ==
  /\ pc = "idle" /\ calls < MaxCalls
  /\ calls' = calls + 1 /\ call' = c

----------------------------------------------------------------------------
\* The n bytes of a number, the lowest first.
Bytes(number, n) == [i \in 1 .. n |-> (number \div Base ^ (i - 1)) % Base]

Number(bytes) == FoldLeft(LAMBDA n, b : n * Base + b, 0, bytes)

\* i2c0_w_blocking() turns both round.
Message(at, value, width) == Reverse(Bytes(at, 2)) \o Reverse(Bytes(value, width))

Modes == {1, 2, 4}

\* i2c0_w() and i2c0_r(), up to the first transaction; there may be no memory for the message.
RegisterCall(op, r, value, mode) ==
  /\ Begin([op |-> op, reg |-> r, value |-> value, mode |-> mode])
  /\ data' = <<>> /\ attempt' = 0
  /\ \/ mode \in Modes /\ pc' = "transaction" /\ UNCHANGED <<result, faults>>
     \/ mode \notin Modes /\ Return(Failure) /\ UNCHANGED faults
     \/ mode \in Modes /\ Return(Failure) /\ Fault
  /\ UNCHANGED <<handles, offset, module, buffers, bus>>

\* The register a message is for, and what the module keeps of it.
Taken(message) ==
  [r \in Registers |->
     IF r.at = Number(SubSeq(message, 1, 2)) THEN SubSeq(message, 3, Len(message)) ELSE registers[r]]

TransactionFails ==
  /\ Fault /\ attempt' = attempt + 1
  /\ IF attempt + 1 < Retries THEN UNCHANGED <<pc, result>> ELSE Return(Failure)

\* imx500_i2c_transmit_with_retry(), one attempt
Transmit ==
  /\ pc = "transaction" /\ call.op = "write"
  /\ LET message == Message(call.reg.at, call.value, call.mode)
     IN \/ registers' = Taken(message) /\ Return(call.mode) /\ UNCHANGED <<attempt, faults>>
        \/ registers' \in {registers, Taken(message)} /\ TransactionFails
  /\ UNCHANGED <<call, calls, handles, data, offset, received, buffers, bus>>

\* imx500_i2c_transmit_receive_with_retry(), one attempt
Receive ==
  /\ pc = "transaction" /\ call.op = "read"
  /\ \/ /\ \E r \in Registers :
             r.at = Number(Reverse(Bytes(call.reg.at, 2))) /\ data' = <<Number(registers[r])>>
        /\ Return(call.mode) /\ UNCHANGED <<attempt, faults>>
     \/ TransactionFails /\ UNCHANGED data
  /\ UNCHANGED <<call, calls, handles, offset, module, buffers, bus>>

----------------------------------------------------------------------------
\* pivariety_spi_bridge_write(): one transaction, if there is memory for it
SpiWrite(len) ==
  /\ Begin([op |-> "spi write", len |-> len])
  /\ \/ /\ len > 0 /\ received' = [i \in 1 .. len |-> i] /\ Return(len) /\ UNCHANGED faults
     \/ /\ len > 0 /\ Fault /\ received' \in {received, <<>>} /\ Return(Failure)
     \/ /\ len = 0 /\ Return(Failure) /\ UNCHANGED <<received, faults>>
  /\ data' = <<>> /\ UNCHANGED <<handles, attempt, offset, registers, buffers, bus>>

BuffersFit == dma_chunk_size = max_read_chunk_len /\ tx_zero # 0 /\ rx_chunk # 0

\* ensure_spi_dma_chunk_buffers(): both or none
MakeBuffers ==
  /\ tx_zero' = max_read_chunk_len /\ rx_chunk' = max_read_chunk_len
  /\ dma_chunk_size' = max_read_chunk_len

NoBuffers == tx_zero' = 0 /\ rx_chunk' = 0 /\ dma_chunk_size' = 0

\* pivariety_spi_bridge_read(), up to the loop; the bus may be refused.
SpiRead(len) ==
  /\ Begin([op |-> "spi read", len |-> len])
  /\ data' = <<>> /\ offset' = 0
  /\ IF len = 0 THEN Return(Failure) /\ UNCHANGED <<buffers, acquired, faults>>
     ELSE \/ ~BuffersFit /\ NoBuffers /\ Fault /\ Return(Failure) /\ UNCHANGED acquired
          \/ /\ (IF BuffersFit THEN UNCHANGED buffers ELSE MakeBuffers)
             /\ \/ acquired' = TRUE /\ pc' = "chunk" /\ UNCHANGED <<result, faults>>
                \/ Fault /\ Return(Failure) /\ UNCHANGED acquired
  /\ UNCHANGED <<handles, attempt, module, selected, selection, position>>

ChunkLen == IF call.len - offset > max_read_chunk_len THEN max_read_chunk_len ELSE call.len - offset

\* SPI_TRANS_CS_KEEP_ACTIVE
KeepsActive == offset + ChunkLen < call.len

\* The module is selected for the transaction, and clocked for n bytes.
Clocked(n) ==
  /\ selection' = (IF selected THEN selection ELSE selection + 1)
  /\ position' = (IF selected THEN position ELSE 0) + n

\* Once around the loop; a failed transaction ends it, wherever the module is in its frame.
ReadChunk ==
  /\ pc = "chunk" /\ offset < call.len
  /\ \/ /\ Clocked(ChunkLen) /\ selected' = KeepsActive
        /\ data' = data \o [i \in 1 .. ChunkLen |-> <<selection', position' - ChunkLen + i>>]
        /\ offset' = offset + ChunkLen
        /\ UNCHANGED <<pc, faults>>
     \/ /\ Fault /\ \E n \in 0 .. ChunkLen : Clocked(n)
        /\ selected' \in {KeepsActive, FALSE}
        /\ pc' = "done" /\ UNCHANGED <<data, offset>>
  /\ UNCHANGED <<call, result, calls, handles, attempt, module, buffers, acquired>>

\* The end of the loop and the label done; whether the driver deselects a module that was kept
\* selected is its own affair.
Release ==
  /\ \/ pc = "chunk" /\ offset = call.len /\ Return(call.len) /\ UNCHANGED selected
     \/ pc = "done" /\ Return(Failure) /\ selected' \in {selected, FALSE}
  /\ acquired' = FALSE
  /\ UNCHANGED <<call, calls, faults, handles, attempt, data, offset, module, buffers, selection, position>>

RegisterCalls ==
  \E r \in Registers, v \in Values, mode \in {3} \union Modes :
    /\ mode \in {3, r.width}
    /\ \/ RegisterCall("write", r, v, mode)
       \/ v = 1 /\ RegisterCall("read", r, v, mode)

Next ==
  \/ AddI2c \/ AddSpi \/ Restart
  \/ RegisterCalls \/ Transmit \/ Receive
  \/ \E len \in Lengths : SpiWrite(len) \/ SpiRead(len)
  \/ ReadChunk \/ Release

Spec == Init /\ [][Next]_vars

----------------------------------------------------------------------------
Done(op) == pc = "idle" /\ call.op = op /\ result >= 0

\* A register holds what the last write that succeeded gave it, cut to its width, and a read that
\* succeeds gives it back, however many attempts it takes.
RegisterAsWritten ==
  /\ Done("write") => Number(registers[call.reg]) = call.value % Base ^ call.mode
  /\ Done("read") => data = <<Number(registers[call.reg])>>
  /\ pc = "idle" /\ call.op = "read" /\ result < 0 => data = <<>>

\* A frame that was read is the bytes of one selection in their order and none left out; the
\* module is deselected behind it, so the next frame begins at its beginning; and whatever failed
\* before, no byte is of another selection.
FrameOfOneSelection ==
  Done("spi read") =>
    /\ Len(data) = call.len /\ ~selected
    /\ \A i \in 1 .. call.len : data[i] = <<data[1][1], data[1][2] + i - 1>>
    /\ faults = 0 => data[1][2] = 1

\* No transaction is longer than the buffers that are there, or of no bytes; and the bus is given
\* back however a read ends.
BuffersAndBus ==
  /\ pc = "chunk" /\ offset < call.len =>
       ChunkLen > 0 /\ ChunkLen <= tx_zero /\ ChunkLen <= rx_chunk /\ ChunkLen <= SafeChunk
  /\ acquired <=> pc \in {"chunk", "done"}
=============================================================================
