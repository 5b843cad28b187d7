---------------------------- MODULE MetadataStream ----------------------------
(***************************************************************************)
(* read_metadata and get_metadata_size of ArducamIMX500SDK.c, and the      *)
(* three functions that take a frame apart again: parse_metadata and       *)
(* parse_ap_params of the SDK, and parse_metadata of the serial host's     *)
(* metadata_parser.py.  All three must find the tensors at the same place, *)
(* in frames of which any number of bytes may have been read: the ready    *)
(* flag, the size of the frame and the frame are three accesses, and       *)
(* between them the module may put another frame in the place of the one   *)
(* it announced.  A frame is not replaced while it is being clocked out    *)
(* (assumed of the module).                                                *)
(*                                                                         *)
(* A frame is a record: ap, the length of its flatbuffer; tensors, what    *)
(* the flatbuffer says of the outputs; jpeg, its image or None; junk, what *)
(* two bytes that are not a header's read as; pad, the bytes after it.     *)
(* An image has a size, an offset start in its block, the offsets of the   *)
(* bytes FF D8 and FF D9 (sois, eois), and may or may not decode.  A       *)
(* buffer holds the first n bytes of a frame f.  Names of tensors, their   *)
(* scales and values are left out.                                         *)
(***************************************************************************)
EXTENDS Integers, Sequences, SequencesExt, FiniteSetsExt

CONSTANTS
  Word,        \* 2^32, the range of the parser's lengths
  None,
  Frames,      \* what the module produces
  Capacities,  \* buf_size of the calls
  Detected,    \* what a frame's fourth tensor says
  JpegFormat,  \* the SPI format passed to imx500_open
  MaxPolls     \* bound: polls for the ready flag

StreamAssumption ==
  /\ Word \in Nat /\ Word > 8192
  /\ Capacities \subseteq Nat
  /\ JpegFormat \in BOOLEAN
  /\ MaxPolls \in Nat \ {0}

Header        == 12
MaxDims       == 8
MaxOutTensors == 30
MaxItems      == 10

AlignUp(v, base) == (((v + base - 1) % Word) \div base) * base

\* The size word and the image take whole KiB, four at least.
JpegAligned(size) == Max({4096, AlignUp((size + 3) % Word, 1024)})

\* 0 when a dimension is 0 or the product does not fit
ElementCount(dims) ==
  LET count[i \in 0..Len(dims)] ==
        IF i = 0 THEN 1
        ELSE LET before == count[i-1] IN
             IF dims[i] = 0 \/ before > (Word - 1) \div dims[i] THEN 0 ELSE before * dims[i]
  IN count[Min({MaxDims, Len(dims)})]

BytesPerElement(t) == Max({1, (t.bits + 7) \div 8})

TensorFits(t) ==
  /\ ElementCount(t.dims) > 0
  /\ ElementCount(t.dims) <= (Word - 1) \div BytesPerElement(t)

DataBytes(t) == ElementCount(t.dims) * BytesPerElement(t)

AlignedBytes(t) == AlignUp(DataBytes(t), 4)

AlignedSizes(ts) == [i \in DOMAIN ts |-> AlignedBytes(ts[i])]

\* The bytes before each of the tensors of these sizes, and after the last
Offsets(sizes) ==
  LET each == sizes
      sum[i \in 0..Len(each)] == IF i = 0 THEN 0 ELSE sum[i-1] + each[i]
  IN sum

SumOf(sizes) == Offsets(sizes)[Len(sizes)]

\* imx500_parse_networks_from_ap_params: the descriptions, or <<>> if they are
\* refused
Described(f) ==
  IF f.ap > 0 /\ \A i \in DOMAIN f.tensors : TensorFits(f.tensors[i])
  THEN SubSeq(f.tensors, 1, Min({MaxOutTensors, Len(f.tensors)})) ELSE <<>>

\* Where each of the tensors starts, the first one at at
Bound(sizes, at) == LET before == Offsets(sizes) IN [i \in DOMAIN sizes |-> at + before[i - 1]]

-----------------------------------------------------------------------------
\* The module's layout of a frame

ApEnd(f)       == Header + f.ap
BlockStart(f)  == ApEnd(f) + 4
BlockLen(f)    == Max({4096, ((f.jpeg.size + 3 + 1023) \div 1024) * 1024}) - 4
OutHeaderAt(f) == BlockStart(f) + BlockLen(f)
PayloadAt(f)   == IF f.jpeg = None THEN ApEnd(f) ELSE OutHeaderAt(f) + Header + f.ap
PaddedSizes(f) == [i \in DOMAIN f.tensors |-> ((DataBytes(f.tensors[i]) + 3) \div 4) * 4]
PayloadLen(f)  == SumOf(PaddedSizes(f))
FrameLen(f)    == PayloadAt(f) + PayloadLen(f) + f.pad

\* The image is whole, starts its block and decodes.
Intact(f) ==
  f.jpeg # None =>
    /\ f.jpeg.start = Min(f.jpeg.sois)
    /\ f.jpeg.start + f.jpeg.size - 2 \in f.jpeg.eois
    /\ f.jpeg.start + f.jpeg.size <= BlockLen(f)
    /\ f.jpeg.decodes

\* A frame the network's output is in; the others hold zeros, or an image that
\* came to harm.
WellFormed(f) == Described(f) # <<>> /\ Intact(f)

-----------------------------------------------------------------------------
\* parse_metadata (C)

HeaderAp(f, off) ==
  IF off = 0 \/ (f.jpeg # None /\ off = OutHeaderAt(f)) THEN f.ap ELSE f.junk

\* imx500_parse_header_at_impl
HeaderParses(b, off) ==
  /\ off + Header <= b.n
  /\ HeaderAp(b.f, off) <= b.n
  /\ off + Header + HeaderAp(b.f, off) <= b.n

\* the first FF D8 and the last FF D9 of a block of len bytes
Sois(b, len) == IF b.f.jpeg = None THEN {} ELSE {i \in b.f.jpeg.sois : i + 1 < len}
Eois(b, len) == IF b.f.jpeg = None THEN {} ELSE {i \in b.f.jpeg.eois : 0 < i /\ i + 1 < len}

SizeWord(b) == IF b.f.jpeg = None THEN b.f.junk ELSE b.f.jpeg.size

\* The block of the image in the buffer; offsets of the image's first byte and
\* of the one after its last.
Image(b) ==
  LET len == JpegAligned(SizeWord(b)) - 4
      sois == Sois(b, len)
      eois == Eois(b, len)
  IN IF /\ BlockStart(b.f) + len <= b.n
        /\ sois # {} /\ eois # {} /\ Max(eois) + 2 > Min(sois)
     THEN [from |-> BlockStart(b.f) + Min(sois), to |-> BlockStart(b.f) + Max(eois) + 2,
           end |-> BlockStart(b.f) + len]
     ELSE None

Refused == [ok |-> FALSE]

\* Mutant: the remaining length is not compared with what the tensors take.
FitsAlways(b, ts, at) == ts # <<>> /\ at <= b.n

\* "output payload too short"
PayloadFits(b, ts, at) ==
  /\ SumOf(AlignedSizes(ts)) \in 1..Word-1
  /\ at <= b.n
  /\ b.n - at >= SumOf(AlignedSizes(ts))

\* imx500_parse_metadata_impl; parse_metadata allows image and output header
\* together, or neither
ParseMetadata(b, jpegFormat) ==
  LET ts    == Described(b.f)
      image == IF jpegFormat /\ BlockStart(b.f) <= b.n THEN Image(b) ELSE None
      after == IF image = None THEN ApEnd(b.f) ELSE image.end
      at    == IF jpegFormat /\ HeaderParses(b, after)
               THEN after + Header + HeaderAp(b.f, after) ELSE after
  IN IF HeaderParses(b, 0) /\ ts # <<>> /\ PayloadFits(b, ts, at)
     THEN [ok |-> TRUE, image |-> image, tensors |-> Bound(AlignedSizes(ts), at)]
     ELSE Refused

-----------------------------------------------------------------------------
\* parse_metadata (metadata_parser.py): lengths do not wrap, every output has a
\* header before it, and a number type NumPy knows.

PyTensorBytes(t) == ((FoldLeft(LAMBDA x, d : x * d, 1, t.dims) * ((t.bits + 7) \div 8) + 3) \div 4) * 4
PyTensorSizes(ts) == [i \in DOMAIN ts |-> PyTensorBytes(ts[i])]

\* split_output_tensor_payload and bind_output_tensors, with the output at out
PyBind(b, ts, out) ==
  LET at == out + Header + HeaderAp(b.f, out)
      need == SumOf(PyTensorSizes(ts))
  IN IF /\ b.n - out >= Header + need
        /\ at + need <= b.n
        /\ \A i \in DOMAIN ts : ts[i].bits \in {8, 16, 32}
     THEN [ok |-> TRUE, tensors |-> Bound(PyTensorSizes(ts), at)]
     ELSE Refused

PyParseMetadata(b, jpegFormat) ==
  IF b.f.ap = 0 \/ ApEnd(b.f) + 4 > b.n \/ b.f.tensors = <<>> THEN Refused
  ELSE IF ~jpegFormat THEN PyBind(b, b.f.tensors, 0)
  ELSE LET len == Max({4096, ((SizeWord(b) + 3 + 1023) \div 1024) * 1024}) - 4
       IN IF BlockStart(b.f) + len <= b.n /\ b.f.jpeg # None /\ b.f.jpeg.decodes
          THEN PyBind(b, b.f.tensors, BlockStart(b.f) + len) ELSE Refused

-----------------------------------------------------------------------------
\* parse_ap_params: the detections of a frame without image.  The tensors are
\* boxes (four in a row for each item), scores, classes and the number of items;
\* boxes, classes and the number are read as 16-bit values, whatever they are.

ApTensorBytes(t) == AlignUp(IF t.bits = 16 THEN ElementCount(t.dims) * 2 ELSE ElementCount(t.dims), 4)
ApTensorSizes(ts) == [i \in DOMAIN ts |-> ApTensorBytes(ts[i])]

ItemsOf(ts, detected) ==
  Min({ElementCount(ts[1].dims) \div 4, ElementCount(ts[2].dims),
       ElementCount(ts[3].dims), MaxItems, detected})

\* The offsets of the tensors, and how far into each of them is read when
\* detected is the number of items it says
ParseApParams(b, detected) ==
  LET ts == b.f.tensors
      at == ApEnd(b.f)
      stride == ElementCount(ts[1].dims) \div 4
      items == ItemsOf(ts, detected)
  IN IF /\ b.n >= Header /\ b.f.ap > 0 /\ at <= b.n
        /\ Len(ts) \in 4..MaxOutTensors
        /\ \A i \in DOMAIN ts : ElementCount(ts[i].dims) > 0
        /\ at + SumOf(ApTensorSizes(ts)) <= b.n
        /\ stride > 0
     THEN [ok |-> TRUE, tensors |-> Bound(ApTensorSizes(ts), at),
           read |-> <<IF items = 0 THEN 0 ELSE 2 * (3 * stride + items), items, 2 * items, 2>>]
     ELSE Refused
-----------------------------------------------------------------------------
VARIABLES
  frame,   \* module: the frame behind the bridge, None before the first
  ready,   \* module: DATA_READY_STATUS_REG
  pc,      \* the access read_metadata is at; "parse" when it returned bytes
  cap,     \* its buf_size
  polls,   \* polls so far
  size,    \* data_size
  buf,     \* what the buffer holds
  result   \* what the three parsers make of it, None until they ran

moduleVars == <<frame, ready>>
vars == <<moduleVars, pc, cap, polls, size, buf, result>>

Init ==
  /\ frame = None
  /\ ready = FALSE
  /\ pc = "idle"
  /\ cap = 0
  /\ polls = 0
  /\ size = 0
  /\ buf = None
  /\ result = None

-----------------------------------------------------------------------------
\* The module

Produce(f) ==
  /\ frame' = f
  /\ ready' = TRUE
  /\ UNCHANGED <<pc, cap, polls, size, buf, result>>

\* The flag falls once a frame was read, or before the next one.
Unready ==
  /\ ready
  /\ ready' = FALSE
  /\ UNCHANGED <<frame, pc, cap, polls, size, buf, result>>

\* METADATA_SIZE_REG
SizeReg == IF frame = None THEN 0 ELSE FrameLen(frame)

-----------------------------------------------------------------------------
\* read_metadata

Return0 ==
  /\ pc' = "idle"
  /\ cap' = 0
  /\ polls' = 0
  /\ size' = 0
  /\ UNCHANGED buf

Call(c) ==
  /\ pc = "idle"
  /\ pc' = IF c = 0 THEN "idle" ELSE "poll"
  /\ cap' = c
  /\ buf' = None
  /\ result' = None
  /\ UNCHANGED <<moduleVars, polls, size>>

\* 1000 ms in steps of 10; a failed read ends the call.
PollReady ==
  /\ pc = "poll"
  /\ \/ /\ ready
        /\ pc' = "size"
        /\ UNCHANGED <<cap, polls, size, buf>>
     \/ /\ ~ready
        /\ polls + 1 < MaxPolls
        /\ polls' = polls + 1
        /\ UNCHANGED <<pc, cap, size, buf>>
     \/ /\ ~ready
        /\ polls + 1 >= MaxPolls
        /\ Return0
     \/ Return0
  /\ UNCHANGED <<moduleVars, result>>

\* get_metadata_size, 0 also when the read fails
ReadSize ==
  /\ pc = "size"
  /\ \E s \in {SizeReg, 0} :
       IF s = 0 \/ s > cap THEN Return0
       ELSE /\ size' = s
            /\ pc' = "frame"
            /\ UNCHANGED <<cap, polls, buf>>
  /\ UNCHANGED <<moduleVars, result>>

\* One block of size bytes, or an error of the driver
ReadFrame ==
  /\ pc = "frame"
  /\ \/ /\ buf' = [f |-> frame, n |-> size]
        /\ pc' = "parse"
        /\ UNCHANGED <<cap, polls, size>>
     \/ Return0
  /\ UNCHANGED <<moduleVars, result>>

\* The application hands the bytes to a parser.
Parse ==
  /\ pc = "parse"
  /\ \E d \in Detected :
       result' = [c |-> ParseMetadata(buf, JpegFormat), py |-> PyParseMetadata(buf, JpegFormat),
                  ap |-> IF JpegFormat THEN Refused ELSE ParseApParams(buf, d)]
  /\ Return0
  /\ UNCHANGED moduleVars

Module == Unready \/ \E f \in Frames : Produce(f)

Read == PollReady \/ ReadSize \/ ReadFrame

Step == Read \/ Parse

Next == Module \/ (\E c \in Capacities : Call(c)) \/ Step

\* A step of Parse, told by where it leads
Parsed == pc = "parse" /\ pc' = "idle"

\* The caller's own steps are taken; the module and the application need not.
Spec == Init /\ [][Next]_vars /\ WF_vars(Read) /\ WF_pc(Parsed)

-----------------------------------------------------------------------------

Whole(b) == b.n >= FrameLen(b.f) - b.f.pad

Truth(b) == Bound(PaddedSizes(b.f), PayloadAt(b.f))

\* What the SDK's parser accepts - and in the format with images, finds an image
\* in - is a whole frame with its tensors where they are, also when the size was
\* another frame's and the frame was cut off.
ParsedIsWhole ==
  result # None /\ result.c.ok /\ WellFormed(buf.f)
                /\ (JpegFormat => result.c.image # None) =>
    Whole(buf) /\ result.c.tensors = Truth(buf)

\* A frame that was read whole is accepted, and its image found.
WholeIsParsed ==
  result # None /\ WellFormed(buf.f) /\ Whole(buf) =>
    /\ result.c.ok
    /\ JpegFormat => /\ result.c.image # None
                     /\ result.c.image.from = BlockStart(buf.f) + buf.f.jpeg.start
                     /\ result.c.image.to >= result.c.image.from + buf.f.jpeg.size
                     /\ result.c.image.to <= OutHeaderAt(buf.f)

\* The MCU, the serial host and the detection helper look for the tensors of a
\* well-formed frame at the same offsets (the helper knows 8 and 16 bits only).
ParsersAgree ==
  result # None /\ WellFormed(buf.f) =>
    /\ result.c.ok /\ result.py.ok => result.c.tensors = result.py.tensors
    /\ result.c.ok /\ result.ap.ok /\ (\A i \in DOMAIN buf.f.tensors : buf.f.tensors[i].bits \in {8, 16})
         => result.c.tensors = result.ap.tensors

\* The detection helper reads no element beyond its tensor when boxes, classes
\* and number have 16 bits, whatever number of items the frame claims.
DetectionsInside ==
  result # None /\ result.ap.ok /\ (\A i \in {1, 3, 4} : buf.f.tensors[i].bits = 16)
    => \A i \in 1..4 : result.ap.read[i] <= DataBytes(buf.f.tensors[i])

\* "`false` if the payload format is invalid" (ArducamIMX500SDK.h:336): if
\* the image is cut off or without its end the frame is refused, or its tensors
\* are found nevertheless.
InvalidIsRefused ==
  result # None /\ result.c.ok => result.c.tensors = Truth(buf)

=============================================================================
