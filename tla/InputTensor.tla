----------------------------- MODULE InputTensor -----------------------------
(***************************************************************************)
(* An application's picture made into the bytes of an input tensor: it is  *)
(* resized to the nearest pixel, its rows are padded, and the axes are put *)
(* into the order the network wants.  A byte of the picture is modelled by *)
(* its offset there plus one, so that 0 is the padding.                    *)
(*                                                                         *)
(* Every byte is then put through the inverse of the normalisation that    *)
(* the network's description asks of the module, with registers of several *)
(* widths, signed and with fractional bits.                                *)
(***************************************************************************)
EXTENDS Integers, Sequences

CONSTANTS
  Images, Tensors,   \* <<height, width, channels>> that are asked for, 0 among them
  Orders,            \* transpose orders that are asked for; <<>> asks for the default one
  Aligns, Sizes,     \* align_base and dst_size
  MaxTotal           \* the largest 32-bit number, scaled down

ImageAssumption ==
  /\ Images \union Tensors \subseteq [1 .. 3 -> Nat]
  /\ Orders \subseteq [1 .. 3 -> Nat] \union {<<>>}
  /\ Aligns \union Sizes \subseteq Nat /\ MaxTotal \in Nat

VARIABLES
  asked,    \* the arguments of the last call
  dst,      \* the caller's buffer, by offset from 0
  result    \* what the call has returned, 0 before it

imageVars == <<asked, dst, result>>

Untouched == -1

\* x & y, of numbers below 2^16
And(x, y) ==
  LET upto[i \in 0 .. 16] ==
        IF i = 0 THEN 0
        ELSE upto[i - 1] + 2^(i - 1) * ((x \div 2^(i - 1)) % 2) * ((y \div 2^(i - 1)) % 2)
  IN upto[16]

\* ALIGN_UP with the default for 0, a mask of the low bits whatever align_base is.
AlignedTo(width, base) == (width + base - 1) - And(width + base - 1, base - 1)

Aligned(width, base) == AlignedTo(width, IF base = 0 THEN 32 ELSE base)


Axes == 1 .. 3

OrderIsPermutation(order) == {order[i] : i \in Axes} = 0 .. 2

Dims(a) == <<a.tensor[1], Aligned(a.tensor[2], a.align), a.tensor[3]>>
Total(a) == Dims(a)[1] * Dims(a)[2] * Dims(a)[3]
OrderOf(a) == IF a.order = <<>> THEN <<2, 0, 1>> ELSE a.order

Refused(a) ==
  \/ \E i \in Axes : a.image[i] = 0 \/ a.tensor[i] = 0
  \/ a.image[3] < a.tensor[3]
  \/ Total(a) > MaxTotal
  \/ a.size < Total(a)
  \/ ~OrderIsPermutation(OrderOf(a))

\* The picture's row of a row of the tensor, and likewise a column's.
Nearest(i, extent, image_extent) == (i * image_extent) \div extent

\* input_tensor_final, by height, width and channel.
Resized(a, h, w, c) ==
  IF w >= a.tensor[2] THEN 0
  ELSE ((Nearest(h, a.tensor[1], a.image[1]) * a.image[2]
          + Nearest(w, a.tensor[2], a.image[2])) * a.image[3]) + c + 1

\* The place in the output of a tensor's coordinates.
Place(order, dims, coords) ==
  LET Out(i, of) == of[order[i] + 1]
  IN (Out(1, coords) * Out(2, dims) + Out(2, coords)) * Out(3, dims) + Out(3, coords)

Coordinates(dims) == (0 .. dims[1] - 1) \X (0 .. dims[2] - 1) \X (0 .. dims[3] - 1)

Empty(size) == [i \in 0 .. size - 1 |-> Untouched]

Written(a) ==
  LET dims == Dims(a)
      at == {<<Place(OrderOf(a), dims, k), k>> : k \in Coordinates(dims)}
  IN [i \in 0 .. a.size - 1 |->
        IF \E p \in at : p[1] = i
        THEN LET k == (CHOOSE p \in at : p[1] = i)[2] IN Resized(a, k[1], k[2], k[3])
        ELSE Untouched]

NoCall == [image |-> <<0, 0, 0>>, tensor |-> <<0, 0, 0>>, order |-> <<>>, align |-> 0, size |-> 0]

ImageInit == asked = NoCall /\ dst = Empty(0) /\ result = 0

\* _convert_injected_data(), into a buffer of the caller's; the buffers are there and
\* the scratch memory is given or not.
Convert ==
  /\ result = 0
  /\ \E i \in Images, t \in Tensors, o \in Orders, b \in Aligns, s \in Sizes :
       asked' = [image |-> i, tensor |-> t, order |-> o, align |-> b, size |-> s]
  /\ \/ /\ ~Refused(asked')
        /\ dst' = Written(asked') /\ result' = Total(asked')
     \/ dst' = Empty(asked'.size) /\ result' = -1

\* The next picture goes into a new buffer.
Again ==
  /\ result # 0
  /\ asked' = NoCall /\ dst' = Empty(0) /\ result' = 0

ImageNext == Convert \/ Again

----------------------------------------------------------------------------
\* The axis that runs fastest in the output is the last one of the order, the others
\* follow with the extents of those after them.
StrideOf(axis) ==
  LET order == OrderOf(asked)
      extent(i) == Dims(asked)[order[i] + 1]
  IN CASE axis = order[3] + 1 -> 1
       [] axis = order[2] + 1 -> extent(3)
       [] axis = order[1] + 1 -> extent(2) * extent(3)

At(stride, coords) ==
  dst[coords[1] * stride[1] + coords[2] * stride[2] + coords[3] * stride[3]]

\* What is found in the output where the network looks for a pixel is a byte of that channel
\* and of the picture's pixel whose area the tensor's pixel begins in; the padding is zero.
PixelInPlace ==
  LET stride == <<StrideOf(1), StrideOf(2), StrideOf(3)>> IN
  result > 0 =>
    \A k \in Coordinates(Dims(asked)) :
      LET value == At(stride, k) - 1
          pixel == value \div asked.image[3]
          row == pixel \div asked.image[2]
          column == pixel % asked.image[2]
      IN IF k[2] >= asked.tensor[2] THEN value = -1
         ELSE /\ value >= 0 /\ value % asked.image[3] = k[3]
              /\ row < asked.image[1]
              /\ k[1] * asked.image[1] - row * asked.tensor[1] \in 0 .. asked.tensor[1] - 1
              /\ k[2] * asked.image[2] - column * asked.tensor[2] \in 0 .. asked.tensor[2] - 1

\* The bytes that the call says it has produced are written, every one, and no others: of a
\* refused call none.
ProducedIsWritten ==
  \A i \in DOMAIN dst : dst[i] # Untouched <=> i < result

-----------------------------------------------------------------------------
\* The inverse of the normalisation

CONSTANTS
  Gains,      \* values of the matrix diagonal's 12-bit registers, and of the gain
  Offsets,    \* values of the matrix's 13-bit offsets
  Adds,       \* values of the 9-bit additions
  Bytes       \* values of a picture's bytes

NormalizationAssumption ==
  /\ Gains \subseteq 0 .. 4095 /\ Offsets \subseteq 0 .. 8191
  /\ Adds \subseteq 0 .. 511 /\ Bytes \subseteq 0 .. 255

VARIABLES
  net,      \* network_info[0], its registers as the loader masks them
  channel,  \* the channel of the byte
  src,      \* the byte before
  out       \* the byte after, Nothing before the first

normVars == <<net, channel, src, out>>

Channels == 0 .. 2

\* The complement is not cut to the register.
SignedWide(reg, bit) == IF (reg \div 2^bit) % 2 = 0 THEN reg ELSE -((2^16 - reg) % 2^16)

\* The number a register with this sign bit holds, its complement cut to the register.
Signed(reg, bit) == IF (reg \div 2^bit) % 2 = 0 THEN reg ELSE -((2^(bit + 1) - reg) % 2^(bit + 1))

\* conv_reg_signed() of the three kinds of registers.
AddOf(reg) == Signed(reg, 8)
OffsetOf(reg) == Signed(reg, 12)
GainOf(reg) == Signed(reg, 11)

\* build_input_norm_info(), of a channel: what is taken away, the shifts before and after,
\* and what it is divided by.
NormInfo(n, c) ==
  CASE n.format = "Y" ->
         [val |-> IF c = 0 THEN AddOf(n.yAdd) ELSE 0, shift |-> 0,
          div |-> IF c = 0 /\ n.yGgain # 0 THEN n.yGgain ELSE 1, div_shift |-> 5]
    [] n.format = "BayerRGB" ->
         [val |-> AddOf(n.rgbNorm[c].add), shift |-> n.rgbNorm[c].shift,
          div |-> IF n.yGgain = 0 THEN 1 ELSE n.yGgain, div_shift |-> 5]
    [] OTHER ->
         [val |-> OffsetOf(n.offset[c]), shift |-> 4,
          div |-> GainOf(IF n.format = "RGB" \/ c = 1 THEN n.diagonal[c] ELSE n.antidiagonal[c]), div_shift |-> 6]

\* Division in C.
Quotient(a, b) ==
  LET abs(x) == IF x < 0 THEN -x ELSE x
      q == abs(a) \div abs(b)
  IN IF (a < 0) = (b < 0) THEN q ELSE -q

Divisor(info) == IF info.div = 0 THEN 1 ELSE info.div

Number(info, byte) == Quotient((byte * 2^info.shift - info.val) * 2^info.div_shift, Divisor(info))

\* Networks whose channels are alike but for the diagonal.
Network(format, add, gain, shift, offset, diagonal) ==
  [format |-> format, yAdd |-> add, yGgain |-> gain % 256, rgbNorm |-> [c \in Channels |-> [add |-> add, shift |-> shift]],
   offset |-> [c \in Channels |-> offset], diagonal |-> [c \in Channels |-> diagonal],
   antidiagonal |-> [c \in Channels |-> gain]]

Networks ==
  {Network(f, a, g, s, 0, 0) : f \in {"Y", "BayerRGB"}, a \in Adds, g \in Gains, s \in 0 .. 1}
    \union {Network(f, 0, g, 0, o, d) : f \in {"RGB", "BGR"}, g \in Gains, o \in Offsets, d \in Gains}

Nothing == -1
Unloaded == Network("RGB", 0, 0, 0, 0, 0)

NormInit == net = Unloaded /\ channel = 0 /\ src = 0 /\ out = Nothing

\* load_nn_info_to_sdk_cache(), once.
Load ==
  /\ net = Unloaded /\ out = Nothing
  /\ net' \in Networks
  /\ UNCHANGED <<channel, src, out>>

\* _preprocess_nn_input_data(), of one byte; it does every byte by itself.
Prepare(c, byte) ==
  /\ channel' = c /\ src' = byte
  /\ out' = Number(NormInfo(net, c), byte) % 256
  /\ UNCHANGED net

NormNext == Load \/ \E c \in Channels, byte \in Bytes : Prepare(c, byte)

----------------------------------------------------------------------------
TwosComplement(reg, width) == IF reg >= 2^(width - 1) THEN reg - 2^width ELSE reg

\* What the network's description asks of a channel: a pixel is multiplied by the gain,
\* which has so many fractional bits, and the offset is added, which has so many.
Asked ==
  CASE net.format = "Y" -> [gain |-> net.yGgain, offset |-> TwosComplement(net.yAdd, 9), gain_bits |-> 5, bits |-> 0]
    [] net.format = "BayerRGB" ->
         [gain |-> net.yGgain, offset |-> TwosComplement(net.rgbNorm[channel].add, 9), gain_bits |-> 5,
          bits |-> net.rgbNorm[channel].shift]
    [] net.format = "RGB" ->
         [gain |-> TwosComplement(net.diagonal[channel], 12), offset |-> TwosComplement(net.offset[channel], 13),
          gain_bits |-> 10 - 4, bits |-> 4]
    [] net.format = "BGR" ->
         [gain |-> TwosComplement((IF channel = 1 THEN net.diagonal ELSE net.antidiagonal)[channel], 12),
          offset |-> TwosComplement(net.offset[channel], 13), gain_bits |-> 10 - 4, bits |-> 4]

\* The pixel before the offset, with all the fractional bits of its product.
Wanted == (src * 2^Asked.bits - Asked.offset) * 2^Asked.gain_bits

\* There is a byte that the normalisation turns into src.
Reachable ==
  \/ Asked.gain > 0 /\ Wanted >= 0 /\ Wanted < 256 * Asked.gain
  \/ Asked.gain < 0 /\ Wanted <= 0 /\ Wanted > 256 * Asked.gain

Undone ==
  Reachable =>
    LET short == Wanted - out * Asked.gain
    IN IF Asked.gain > 0 THEN short \in 0 .. Asked.gain - 1 ELSE short \in Asked.gain + 1 .. 0

\* A prepared byte is one that the normalisation the network asks for turns into the
\* picture's, to less than one step of the gain, in every format of three channels and in the
\* one channel of a picture without colours.
NormalisationUndone == out # Nothing /\ (net.format # "Y" \/ channel = 0) => Undone

-----------------------------------------------------------------------------
vars == <<imageVars, normVars>>

Init == ImageInit /\ NormInit

Next ==
  \/ ImageNext /\ UNCHANGED normVars
  \/ NormNext /\ UNCHANGED imageVars

Spec == Init /\ [][Next]_vars
=============================================================================
