--------------------------- MODULE SensorSettings ---------------------------
(***************************************************************************)
(* The sensor's registers behind the module: single bytes through the      *)
(* bridge's pass-through register, 16- and 32-bit values as two and four   *)
(* of them, most significant first, and the two settings that are staged   *)
(* on the host and applied as a list of such writes.  Any byte may fail,   *)
(* with or without effect on the sensor.                                   *)
(***************************************************************************)
EXTENDS Integers, Sequences

CONSTANTS
  AeConfigs, WbConfigs,    \* configurations the application stages
  Values,                  \* 32-bit values written to the spare register, as four bytes
  MaxCalls, MaxFailures,   \* bounds
  None

Byte  == 256
Spare == 4096
Bits16 == 0 .. Byte * Byte - 1

\* The fields' types in C; a region for the white balance is one of the sensor's picture.
Rois == [top : Bits16, left : Bits16, height : Bits16, width : Bits16]

SensorAssumption ==
  /\ AeConfigs \subseteq [exposure : Bits16, gain : 0 .. Byte - 1, brightness : 0 .. Byte - 1,
                         speed : 0 .. Byte - 1, has_roi : BOOLEAN, roi : Rois]
  /\ WbConfigs \subseteq [mode : {"auto", "one_push", "preset", "unknown"}, preset : Nat, has_roi : BOOLEAN, roi : Rois]
  /\ \A c \in WbConfigs : c.roi.width <= 4056 /\ c.roi.height <= 3040
  /\ Values \subseteq [1 .. 4 -> 0 .. Byte - 1]

VARIABLES
  reg,        \* the sensor's registers: address -> byte
  ae, wb,     \* s_ae_config, s_white_balance_config
  value,      \* of the 32-bit write
  writes,     \* register writes of the call that are still to be done: each its bytes
  op,         \* the call under way
  status,     \* what it will return
  bytes,      \* a register being read: the bytes read so far
  failures,   \* bytes that failed, in this call
  calls, budget,
  applied     \* for each setting: the staged value a successful apply left, if it stands

vars == <<reg, ae, wb, value, writes, op, status, bytes, failures, calls, budget, applied>>

----------------------------------------------------------------------------
AlignUp(v, a) == (((v + a - 1) \div a) * a) % (Byte * Byte)
Clamped(v, lo, hi) == IF v < lo THEN lo ELSE IF v > hi THEN hi ELSE v
OrDefault(v, bad, d) == IF v = bad THEN d ELSE v

NoRoi     == [top |-> 0, left |-> 0, height |-> 0, width |-> 0]
DefaultAe == [exposure |-> 100, gain |-> 70, brightness |-> 40, speed |-> 160,
              has_roi |-> FALSE, roi |-> NoRoi]
DefaultWb == [mode |-> "auto", preset |-> 4300, has_roi |-> FALSE, roi |-> NoRoi]

RoiUsable(c) == c.has_roi /\ c.roi.width # 0 /\ c.roi.height # 0

SaneAe(c) == [c EXCEPT !.exposure = Clamped(@, 1, 333), !.gain = Clamped(@, 0, 75),
                       !.brightness = OrDefault(@, 0, 1), !.speed = OrDefault(@, 0, DefaultAe.speed),
                       !.has_roi = RoiUsable(c)]

Presets == [p \in {3200, 4300, 5600, 6500} |->
              CASE p = 3200 -> <<4096, 4096>> [] p = 4300 -> <<2966, 6124>>
                [] p = 5600 -> <<3199, 5483>> [] p = 6500 -> <<3155, 5590>>]

SaneWb(c) == [c EXCEPT !.mode = IF @ \in {"auto", "one_push", "preset"} THEN @ ELSE DefaultWb.mode,
                       !.preset = IF @ \in DOMAIN Presets THEN @ ELSE DefaultWb.preset,
                       !.has_roi = RoiUsable(c)]

GainReg(db) == Clamped((db * 10) \div 3, 0, Byte - 1)

B(a, v) == [at |-> a, val |-> v % Byte]

\* A write of size bytes at address a, the highest first; the rest of the value is cut off.
W(a, v, size) == IF size = 1 THEN <<B(a, v)>> ELSE <<B(a, v \div Byte), B(a + 1, v)>>

\* imx500_apply_ae_config(), register by register.
AeLimits(c) ==
  <<W(55296, 0, 1), W(53821, 0, 1), W(53938, 1, 1), W(53940, c.exposure, 2),
    W(53870, GainReg(c.gain), 1), W(58880, 8, 1), W(58881, 0, 1),
    W(53856, c.brightness * 160, 2), W(53799, 0, 1), W(53976, c.speed, 1)>>

AeRegion(c) ==
  <<W(53800, 1, 1), W(53801, 255, 1), W(58972, c.roi.top, 2), W(58974, c.roi.left, 2),
    W(58976, c.roi.height, 2), W(58978, c.roi.width, 2), W(53802, c.brightness * 160, 2)>>

AeWholeFrame == <<W(53800, 0, 1), W(53801, 0, 1), W(53836, 450, 2), W(53838, 434, 2)>>

\* Without a region the one of an earlier configuration is left as it is.
AeWritesRegionKept(c) == AeLimits(c) \o IF c.has_roi THEN AeRegion(c) ELSE <<>>

AeWrites(c) == AeLimits(c) \o IF c.has_roi THEN AeRegion(c) ELSE AeWholeFrame

\* imx500_apply_white_balance_config()
WbLimits ==
  <<W(53292, 3570, 2), W(53294, 4188, 2), W(53296, 392, 2), W(53298, 649, 2),
    W(55300, 810, 2), W(55302, 256, 2), W(55304, 256, 2), W(55306, 460, 2)>>

WbRegion(roi) ==
  <<W(58980, AlignUp(roi.width, 32) \div 16, 1), W(58981, AlignUp(roi.height, 24) \div 12, 1),
    W(58992, AlignUp(roi.left, 2), 2), W(58994, AlignUp(roi.top, 2), 2), W(58996, 1, 1)>>

WbMode(c) ==
  CASE c.mode = "auto" /\ c.has_roi  -> <<W(53820, 0, 1)>> \o WbRegion(c.roi)
    [] c.mode = "auto" /\ ~c.has_roi -> <<W(53820, 0, 1), W(58996, 0, 1)>>
    [] c.mode = "one_push" -> <<W(53820, 2, 1)>>
    [] c.mode = "preset"   -> <<W(53820, 4, 1), W(56864, Presets[c.preset][1], 2),
                                W(56866, Presets[c.preset][2], 2)>>
    [] OTHER               -> <<>>

WbWrites(c) == WbLimits \o WbMode(c)

\* The bytes of a list of writes
BytesOf(list) == UNION {{list[i][j] : j \in DOMAIN list[i]} : i \in DOMAIN list}

\* The registers that are written for some configuration
FullRoi   == [top |-> 1, left |-> 1, height |-> 1, width |-> 1]
AeLists   == {AeWrites([DefaultAe EXCEPT !.has_roi = b]) : b \in BOOLEAN}
WbLists   == {WbWrites([DefaultWb EXCEPT !.mode = m, !.has_roi = TRUE, !.roi = FullRoi]) :
                m \in {"auto", "one_push", "preset"}}
Written   == UNION {{b.at : b \in BytesOf(l)} : l \in AeLists \union WbLists}
Spares    == Spare .. Spare + 3
Addresses == Written \union Spares

Init ==
  /\ reg = [a \in Addresses |-> 0]
  /\ ae = DefaultAe /\ wb = DefaultWb /\ value = <<>>
  /\ writes = <<>> /\ op = "none" /\ status = 0 /\ bytes = <<>>
  /\ failures = 0 /\ calls = 0 /\ budget = 0
  /\ applied = [ae |-> None, wb |-> None, spare |-> None]

----------------------------------------------------------------------------
Called == op = "none" /\ calls < MaxCalls /\ calls' = calls + 1

\* imx500_set_*_config(NULL) goes back to the default.
SetAe(c) ==
  /\ Called /\ ae' = IF c = None THEN DefaultAe ELSE SaneAe(c)
  /\ UNCHANGED <<reg, wb, value, writes, op, status, bytes, failures, budget, applied>>

SetWb(c) ==
  /\ Called /\ wb' = IF c = None THEN DefaultWb ELSE SaneWb(c)
  /\ UNCHANGED <<reg, ae, value, writes, op, status, bytes, failures, budget, applied>>

Begin(what, list) ==
  /\ Called
  /\ op' = what /\ writes' = list /\ status' = 0 /\ failures' = 0
  /\ applied' = [applied EXCEPT ![what] = None]
  /\ UNCHANGED <<reg, ae, wb, bytes, budget>>

ApplyAe == Begin("ae", AeWrites(ae)) /\ UNCHANGED value
ApplyWb == Begin("wb", WbWrites(wb)) /\ UNCHANGED value

\* sensor_i2c_write_16_32()
Write32(v) ==
  Begin("spare", <<[i \in 1 .. 4 |-> B(Spare + i - 1, v[i])]>>) /\ value' = v

\* The rest of a value is not written once one of its bytes has failed.
AfterValue(list) == Tail(list)

AfterByte(list) ==
  IF Len(Head(list)) = 1 THEN Tail(list) ELSE <<Tail(Head(list))>> \o Tail(list)

\* fold_passthrough_write_status()
Fold(s, r) == IF r < 0 THEN r ELSE s

\* sensor_i2c_write_16_8() through the pass-through register.
WriteByte ==
  /\ writes # <<>>
  /\ LET w == Head(Head(writes)) IN
     \/ /\ reg' = [reg EXCEPT ![w.at] = w.val]
        /\ writes' = AfterByte(writes)
        /\ status' = IF Len(Head(writes)) = 1 THEN Fold(status, 0) ELSE status
        /\ UNCHANGED <<failures, budget>>
     \/ /\ budget < MaxFailures /\ budget' = budget + 1
        /\ reg' \in {reg, [reg EXCEPT ![w.at] = w.val]}
        /\ writes' = AfterValue(writes) /\ status' = Fold(status, -1)
        /\ failures' = failures + 1
  /\ UNCHANGED <<ae, wb, value, op, bytes, calls, applied>>

\* The list is at its end: the call returns its status.
Return ==
  /\ op \in {"ae", "wb", "spare"} /\ writes = <<>>
  /\ op' = "none"
  /\ applied' = IF status = 0
                THEN [applied EXCEPT ![op] = CASE op = "ae" -> ae [] op = "wb" -> wb
                                               [] op = "spare" -> value]
                ELSE applied
  /\ UNCHANGED <<reg, ae, wb, value, writes, status, bytes, failures, calls, budget>>

\* sensor_i2c_read_16_32(), from the highest byte; a failure gives nothing.
Read32 ==
  /\ Called /\ op' = "read" /\ bytes' = <<>>
  /\ UNCHANGED <<reg, ae, wb, value, writes, status, failures, budget, applied>>

ReadByte ==
  /\ op = "read" /\ Len(bytes) < 4
  /\ \/ bytes' = Append(bytes, reg[Spare + Len(bytes)]) /\ UNCHANGED <<op, budget>>
     \/ /\ budget < MaxFailures /\ budget' = budget + 1
        /\ bytes' = <<>> /\ op' = "none"
  /\ UNCHANGED <<reg, ae, wb, value, writes, status, failures, calls, applied>>

ReadDone ==
  /\ op = "read" /\ Len(bytes) = 4
  /\ op' = "none"
  /\ UNCHANGED <<reg, ae, wb, value, writes, status, bytes, failures, calls, budget, applied>>

Next ==
  \/ \E c \in AeConfigs \union {None} : SetAe(c)
  \/ \E c \in WbConfigs \union {None} : SetWb(c)
  \/ ApplyAe \/ ApplyWb \/ (\E v \in Values : Write32(v))
  \/ WriteByte \/ Return \/ Read32 \/ ReadByte \/ ReadDone

Spec == Init /\ [][Next]_vars

----------------------------------------------------------------------------
(* What the registers mean to the sensor.                                   *)
Two(a) == reg[a] * Byte + reg[a + 1]

AeInEffect == [exposure |-> Two(53940), gain |-> reg[53870], level |-> Two(53856),
               speed |-> reg[53976], has_roi |-> reg[53800] = 1 /\ reg[53801] = 255,
               roi |-> [top |-> Two(58972), left |-> Two(58974),
                        height |-> Two(58976), width |-> Two(58978)]]

\* A configuration whose apply returned 0 is the one in effect, all of it, until it
\* is applied again: no write that failed on the way, none of the other setting's
\* writes, and nothing left over from an apply that failed before it.
AeAppliedIsInEffect ==
  applied.ae # None =>
    /\ AeInEffect.exposure = applied.ae.exposure /\ AeInEffect.gain = GainReg(applied.ae.gain)
    /\ AeInEffect.level = applied.ae.brightness * 160 /\ AeInEffect.speed = applied.ae.speed
    /\ AeInEffect.has_roi = applied.ae.has_roi
    /\ applied.ae.has_roi => AeInEffect.roi = applied.ae.roi

\* The same for the white balance.  Its region is written in units of 16 and 12
\* pixels, one byte each, and is never smaller than the one that was asked for.
WbAppliedIsInEffect ==
  applied.wb # None =>
    /\ reg[53820] = [auto |-> 0, one_push |-> 2, preset |-> 4][applied.wb.mode]
    /\ applied.wb.mode = "preset" => <<Two(56864), Two(56866)>> = Presets[applied.wb.preset]
    /\ applied.wb.mode = "auto" => (reg[58996] = 1) = applied.wb.has_roi
    /\ applied.wb.mode = "auto" /\ applied.wb.has_roi =>
         /\ reg[58980] * 16 >= applied.wb.roi.width /\ reg[58981] * 12 >= applied.wb.roi.height

\* A byte that failed anywhere in an apply shows in what it returns, however many
\* writes succeed after it.
FailureIsTold == failures > 0 /\ writes = <<>> /\ op \in {"ae", "wb", "spare"} => status < 0

\* A register's bytes are never those of two different values after its write
\* returned 0: a read of it gives that value's, in their order.
ReadIsWritten ==
  op = "read" /\ applied.spare # None =>
    \A i \in 1 .. Len(bytes) : bytes[i] = applied.spare[i]
=============================================================================
