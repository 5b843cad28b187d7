-------------------------- MODULE NetworkInfoCache --------------------------
(***************************************************************************)
(* The host's copy of the network information: load_nn_info_to_sdk_cache   *)
(* reads a text of key=value lines twice, first for the keys of the whole  *)
(* text, then for the block of each network, into tables that outlive the  *)
(* call.  A line here is a record of its key, its 1-based suffix if it has *)
(* one, and its value; "Bad" is a value that is no number.                 *)
(***************************************************************************)
EXTENDS Integers, Sequences

CONSTANTS
  Texts,          \* the texts that may be loaded
  Ordinals,       \* 0 .. MAX_NUM_OF_NETWORKS - 1
  MaxTensors,     \* MAX_OUTPUT_TENSOR_NUM
  PoolSlots,      \* OUTPUT_TENSOR_POOL_BYTES / sizeof(sc_output_tensor_size_info_t)
  MaxLoads,       \* bound on the number of loads
  Bad

Byte == 256
Half == 65536
MaxHeader == 4096
Tensors   == 0 .. MaxTensors - 1
Sized     == {"dim", "pad", "bpe"}

\* What is left of an input-tensor value in its field.
FieldMask == [inputTensorWidth |-> Half, inputTensorHeight |-> Half, norm_K00 |-> 4096,
              norm_K03 |-> 8192, inputNorm |-> 512, inputNormShift |-> 2, yGain |-> Byte]
InputKeys == DOMAIN FieldMask

VARIABLES
  net,       \* network_info[]
  num,       \* s_num_of_networks
  used,      \* entries of the pool given out
  text,      \* the text loaded last
  good,      \* the text accepted last
  ret,       \* what that load returned
  loads

vars == <<net, num, used, text, good, ret, loads>>

NoArr    == [at |-> -1, n |-> 0]
ZeroOut  == [k \in Sized |-> [i \in Tensors |-> 0]]
EmptyNet == [header |-> 0, input |-> [k \in InputKeys |-> 0], outNum |-> 0,
             table |-> ZeroOut, arr |-> NoArr, sizes |-> ZeroOut]

Init ==
  /\ net = [i \in Ordinals |-> EmptyNet] /\ num = 0 /\ used = 0
  /\ text = <<>> /\ good = <<>> /\ ret = "none" /\ loads = 0

----------------------------------------------------------------------------
Clamp(v) == IF v > Byte - 1 THEN Byte - 1 ELSE v

\* Not every network's outputs are cleared.
ClearedNone(t) == t

Cleared(t) == [i \in Ordinals |-> [t[i] EXCEPT !.arr = NoArr, !.outNum = 0,
                                               !.table = ZeroOut, !.sizes = ZeroOut]]

\* next_line() and parse_kv() pass over blank lines, comments and lines without "=".
KeyLines(lines) == SelectSeq(lines, LAMBDA l : l.key # "comment")

HeaderSize(ap) == (12 + ((ap + 15) \div 16) * 16) % Half

\* parse_u32_auto(), and the six digits of a network ID (whose value nothing uses).
IsNumber(v) == v # Bad

\* parse_suffix_index_1based()
HasTensor(l) == l.idx \in 1 .. MaxTensors

\* The keys of the whole text; the counts are narrowed as they are stored.
FirstPassLine(s, l) ==
  CASE l.key = "networkID" /\ ~IsNumber(l.val) -> [s EXCEPT !.failed = TRUE]
    [] l.key = "apParamSize" -> [s EXCEPT !.header = HeaderSize(l.val)]
    [] l.key = "networkNum" -> [s EXCEPT !.num = l.val % Byte]
    [] OTHER -> s

FirstPass(lines) ==
  LET s[i \in 0 .. Len(lines)] ==
        IF i = 0 THEN [header |-> 0, num |-> num, failed |-> FALSE]
        ELSE LET before == s[i - 1] IN
             IF before.failed THEN before ELSE FirstPassLine(before, lines[i])
  IN s[Len(lines)]

Acceptable(s) ==
  /\ ~s.failed /\ s.header <= MaxHeader
  /\ s.num # 0 /\ s.num - 1 \in Ordinals

\* ensure_output_arr(): the array of network o, from the pool at its first use.
WithArr(s, o) ==
  LET n == s.net[o] IN
  IF n.arr # NoArr \/ n.outNum = 0 \/ s.used + n.outNum > PoolSlots THEN s
  ELSE [s EXCEPT !.net[o].arr = [at |-> s.used, n |-> n.outNum],
                 !.used = @ + n.outNum]

OrdinalLine(s, l, count, header) ==
  IF ~IsNumber(l.val) THEN s
  ELSE IF l.val >= count THEN [s EXCEPT !.cur = -1]
  ELSE [s EXCEPT !.cur = l.val, !.seen = @ \union {l.val}, !.net[l.val].header = header]

\* outputTensorNum: what the table already has goes to the array.
CountLine(s, l) ==
  LET o == s.cur
      t == WithArr([s EXCEPT !.net[o].outNum = l.val], o)
      table == s.net[o].table IN
  IF ~IsNumber(l.val) THEN s
  ELSE IF l.val = 0 \/ l.val > MaxTensors THEN [s EXCEPT !.failed = TRUE]
  ELSE IF t.net[o].arr = NoArr THEN [t EXCEPT !.failed = TRUE]
  ELSE [t EXCEPT !.net[o].sizes =
          [k \in Sized |-> [i \in Tensors |->
             IF i < l.val /\ table[k][i] # 0 THEN table[k][i] ELSE @[k][i]]]]

\* outputTensorDimSizeN, outputTensorPaddingN, outputTensorBytesPerElementN.
SizeLine(s, l) ==
  LET o == s.cur
      i == l.idx - 1
      tabled == [s EXCEPT !.net[o].table[l.key][i] = IF l.key = "dim" THEN l.val ELSE Clamp(l.val)]
      t == WithArr(tabled, o) IN
  IF ~HasTensor(l) \/ ~IsNumber(l.val) THEN s
  ELSE IF t.net[o].arr # NoArr /\ i < t.net[o].outNum
  THEN [t EXCEPT !.net[o].sizes[l.key][i] = IF l.key = "dim" THEN l.val ELSE l.val % Byte]
  ELSE t

SecondPassLine(s, l, count, header) ==
  CASE l.key = "networkOrdinal" -> OrdinalLine(s, l, count, header)
    [] l.key # "networkOrdinal" /\ s.cur < 0 -> s
    [] l.key \in InputKeys /\ s.cur >= 0 ->
         IF ~IsNumber(l.val) THEN s
         ELSE [s EXCEPT !.net[s.cur].input[l.key] = l.val % FieldMask[l.key]]
    [] l.key = "outputTensorNum" /\ s.cur >= 0 -> CountLine(s, l)
    [] l.key \in Sized /\ s.cur >= 0 -> SizeLine(s, l)
    [] OTHER -> s

SecondPass(lines, first) ==
  LET s[i \in 0 .. Len(lines)] ==
        IF i = 0
        THEN [cur |-> -1, seen |-> {}, net |-> Cleared(net), used |-> 0, failed |-> FALSE]
        ELSE LET before == s[i - 1] IN
             IF before.failed THEN before
             ELSE SecondPassLine(before, lines[i], first.num, first.header)
  IN s[Len(lines)]

\* After the last line: every network had a block with a count.
AllBlocksThere(s, count) ==
  \A i \in 0 .. count - 1 : i \in s.seen /\ s.net[i].outNum # 0 /\ s.net[i].arr # NoArr

Load(t) ==
  LET lines == KeyLines(t)
      first == FirstPass(lines)
      second == SecondPass(lines, first) IN
  /\ loads < MaxLoads /\ loads' = loads + 1
  /\ text' = t
  /\ num' = first.num
  /\ \/ /\ ~Acceptable(first)
        /\ net' = Cleared(net) /\ used' = 0 /\ ret' = "failed"
     \/ /\ Acceptable(first)
        /\ net' = second.net /\ used' = second.used
        /\ ret' = IF ~second.failed /\ AllBlocksThere(second, first.num) THEN "ok" ELSE "failed"
  /\ good' = IF ret' = "ok" THEN t ELSE good

\* calculate_spi_output_metadata_size(), of the first network.
RoundedUp(v, a) == ((v + a - 1) \div a) * a

TensorBytes(o, i) ==
  RoundedUp(net[o].table["bpe"][i] * (net[o].table["pad"][i] + net[o].table["dim"][i]), 4)

SumUpTo(size, n) == LET s[i \in 0 .. n] == IF i = 0 THEN 0 ELSE s[i - 1] + size[i - 1] IN s[n]

OutputSize == net[0].header + SumUpTo([i \in Tensors |-> TensorBytes(0, i)], net[0].outNum)
InputSize  == net[0].header + RoundedUp(net[0].input["inputTensorHeight"], 2)
                                * RoundedUp(net[0].input["inputTensorWidth"], 32) * 3

MetadataSize(format) ==
  IF num = 0 \/ net[0].header = 0 THEN -1
  ELSE CASE format = "output" -> OutputSize
         [] format = "input" -> InputSize
         [] format = "input_output" -> InputSize + OutputSize
         [] format \in {"jpeg", "jpeg_output", "none"} -> 0

Next == \E t \in Texts : Load(t)

Spec == Init /\ [][Next]_vars

----------------------------------------------------------------------------
(* What a text says, line by line, without the code's two passes.           *)

LastVal(t, P(_), default) ==
  LET at == {p \in 1 .. Len(t) : P(p) /\ t[p].val # Bad} IN
  IF at = {} THEN default
  ELSE t[CHOOSE p \in at : \A q \in at : q <= p].val

SaidNum(t) == LastVal(t, LAMBDA p : t[p].key = "networkNum", 0)
SaidHeader(t) == LET ap == LastVal(t, LAMBDA p : t[p].key = "apParamSize", -1) IN
                 IF ap < 0 THEN 0 ELSE 12 + RoundedUp(ap, 16)

\* Line p is in the block of network o.
InBlock(t, p, o) ==
  \E b \in 1 .. p : /\ t[b].key = "networkOrdinal" /\ t[b].val = o
                    /\ \A q \in b + 1 .. p : t[q].key # "networkOrdinal"

Said(t, o, key) == LastVal(t, LAMBDA p : t[p].key = key /\ InBlock(t, p, o), 0)
SaidSize(t, o, key, i) ==
  LastVal(t, LAMBDA p : t[p].key = key /\ t[p].idx = i + 1 /\ InBlock(t, p, o), 0)

\* Network o of the cache is what the text says of it.
IsSaid(t, o) ==
  /\ net[o].header = SaidHeader(t)
  /\ net[o].outNum = Said(t, o, "outputTensorNum")
  /\ \A k \in InputKeys : net[o].input[k] = Said(t, o, k) % FieldMask[k]
  /\ \A k \in Sized, i \in Tensors :
       net[o].table[k][i] = IF k = "dim" THEN SaidSize(t, o, k, i) ELSE Clamp(SaidSize(t, o, k, i))

\* A text that says everything of each of its networks, in numbers that fit.
Complete(t) ==
  /\ SaidNum(t) - 1 \in Ordinals /\ SaidHeader(t) < Half
  /\ \A o \in 0 .. SaidNum(t) - 1, k \in InputKeys :
       \E p \in 1 .. Len(t) : t[p].key = k /\ t[p].val # Bad /\ InBlock(t, p, o)

\* Once a complete text has been loaded, the cache says what the text says, in
\* whatever order its lines came, and nothing of the texts loaded before it.
LoadedIsText ==
  ret = "ok" /\ Complete(text) =>
    num = SaidNum(text) /\ \A o \in 0 .. num - 1 : IsSaid(text, o)

\* The second copy of the sizes, which the dump prints, agrees with the table the
\* size is calculated from, for values that fit a byte.
CopiesAgree ==
  ret = "ok" => \A o \in 0 .. num - 1, k \in Sized, i \in Tensors :
    i < net[o].outNum /\ net[o].table[k][i] < Byte - 1
      => net[o].sizes[k][i] = net[o].table[k][i]

\* No two networks share entries of the pool, and each has one for every tensor.
ArraysApart ==
  ret = "ok" => \A o \in 0 .. num - 1 :
    /\ net[o].arr.n >= net[o].outNum
    /\ \A p \in 0 .. num - 1 : p # o => \/ net[o].arr.at + net[o].arr.n <= net[p].arr.at
                                        \/ net[p].arr.at + net[p].arr.n <= net[o].arr.at

\* The size of an output frame is the one the text describes.
SizeIsText ==
  ret = "ok" /\ Complete(text) =>
    MetadataSize("output") = SaidHeader(text) + SumUpTo(
      [i \in Tensors |-> RoundedUp(SaidSize(text, 0, "bpe", i)
                             * (SaidSize(text, 0, "pad", i) + SaidSize(text, 0, "dim", i)), 4)],
      Said(text, 0, "outputTensorNum"))

\* A text whose blocks are missing or without a count is not accepted.
AcceptedHasBlocks ==
  ret = "ok" => \A o \in 0 .. num - 1 :
    /\ \E p \in 1 .. Len(text) : text[p].key = "networkOrdinal" /\ text[p].val = o
    /\ Said(text, o, "outputTensorNum") \in 1 .. MaxTensors

=============================================================================
