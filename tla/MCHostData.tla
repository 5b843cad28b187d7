----------------------------- MODULE MCHostData -----------------------------
(***************************************************************************)
(* The parts of the SDK that hold or move data on the host, for TLC: each  *)
(* is set up, and in a behaviour one of them, part, runs.                  *)
(***************************************************************************)
EXTENDS Naturals, Sequences

CONSTANTS None, Bad

VARIABLES
  part,
  frame, ready, pc, cap, polls, size, buf, result,
  net, num, used, text, good, ret, loads,
  reg, ae, wb, value, writes, op, status, bytes, failures, calls, budget, applied,
  mode, open, got, session, call, inject_pc, kind, inject_size, offset, chunk, sent, dry, lost,
  asked, dst, converted,
  network, channel, src, out

streamVars == <<frame, ready, pc, cap, polls, size, buf, result>>
infoVars   == <<net, num, used, text, good, ret, loads>>
sensorVars == <<reg, ae, wb, value, writes, op, status, bytes, failures, calls, budget, applied>>
injectVars == <<mode, open, got, session, call, inject_pc, kind, inject_size, offset, chunk,
                sent, dry, lost>>
imageVars  == <<asked, dst, converted>>
normVars   == <<network, channel, src, out>>
vars == <<part, streamVars, infoVars, sensorVars, injectVars, imageVars, normVars>>

-----------------------------------------------------------------------------
\* frames
Tensor(dims, bits) == [dims |-> dims, bits |-> bits]

Jpeg(len, start, sois, eois, decodes) ==
  [size |-> len, start |-> start, sois |-> sois, eois |-> eois, decodes |-> decodes]

Frame(ap, tensors, jpeg, junk, pad) ==
  [ap |-> ap, tensors |-> tensors, jpeg |-> jpeg, junk |-> junk, pad |-> pad]

Zero == Frame(0, <<>>, None, 0, 40)

\* a detector's outputs: odd lengths, fewer scores than boxes, three dimensions;
\* one 32-bit output; one whose product does not fit
Detector == <<Tensor(<<3, 4>>, 16), Tensor(<<3>>, 8), Tensor(<<3>>, 16), Tensor(<<1>>, 16)>>
Detector20 == <<Tensor(<<20, 2, 2>>, 16), Tensor(<<7>>, 8), Tensor(<<9>>, 16), Tensor(<<1>>, 16)>>
Wide == <<Tensor(<<5>>, 32), Tensor(<<3>>, 8), Tensor(<<3>>, 8), Tensor(<<1>>, 16)>>
Huge == <<Tensor(<<256, 256, 2>>, 8)>>

OutputFrames ==
  {Zero, Frame(100, Detector, None, 7, 0), Frame(100, Detector20, None, 30, 16),
   Frame(60, Huge, None, 0, 0), Frame(60, Wide, None, 60000, 2), Frame(60, <<Tensor(<<5, 1>>, 8)>>, None, 0, 0)}

\* sizes at the edge of the block, markers inside and left over behind it
JpegFrames ==
  {Zero,
   Frame(100, Detector, Jpeg(4080, 0, {0}, {900, 4078}, TRUE), 7, 0),
   Frame(100, <<Tensor(<<5>>, 8)>>, Jpeg(4088, 3, {3, 700}, {4089}, TRUE), 30, 8),
   Frame(100, <<Tensor(<<5>>, 8)>>, Jpeg(4096, 1, {1}, {4095, 4200}, TRUE), 60000, 0),
   Frame(100, <<Tensor(<<5>>, 8)>>, Jpeg(6000, 0, {0}, {5998}, TRUE), 0, 0)}

\* ... and an image that lost its end
DamagedFrames ==
  {Frame(100, <<Tensor(<<5>>, 8)>>, Jpeg(6000, 0, {0}, {5998}, TRUE), 0, 0),
   Frame(100, <<Tensor(<<5>>, 8)>>, Jpeg(6000, 0, {0}, {}, FALSE), 65000, 0)}

\* texts
KV(k, v)     == [key |-> k, idx |-> 0, val |-> v]
KVi(k, i, v) == [key |-> k, idx |-> i, val |-> v]

Head2(n, ap) == <<KV("networkID", "id" ), KV("apParamSize", ap), KV("networkNum", n)>>

\* The block of network o: w tells its input width, d its first dimension.
Inputs(w) == <<KV("inputTensorWidth", w), KV("inputTensorHeight", w + 1), KV("norm_K00", 5000),
               KV("norm_K03", w), KV("inputNorm", 384), KV("inputNormShift", w), KV("yGain", w)>>
Outputs(n, d, p) == <<KVi("dim", 1, d), KVi("pad", 1, p), KVi("bpe", 1, 1)>>
                    \o IF n = 2 THEN <<KVi("dim", 2, d + 1), KVi("pad", 2, 0), KVi("bpe", 2, 4)>>
                       ELSE <<>>
Count(n) == <<KV("outputTensorNum", n)>>
Ord(o)   == <<KV("networkOrdinal", o)>>

Early(o, n, d, p)  == Ord(o) \o Inputs(30 + d) \o Count(n) \o Outputs(n, d, p)
Late(o, n, d, p) == Ord(o) \o Outputs(n, d, p) \o <<KV("comment", 0)>> \o Inputs(30 + d) \o Count(n)

Whole == {Head2(1, 352) \o Early(0, 1, 10, 0),
          Head2(1, 352) \o Late(0, 2, 7, 3),
          Head2(2, 100) \o Early(0, 2, 9, 1) \o Late(1, 1, 5, 0),
          Early(0, 2, 9, 1) \o Head2(2, 100) \o Early(1, 2, 5, 255),
          Head2(2, 40) \o Late(1, 2, 3, 2) \o Late(0, 1, 8, 0) \o Late(2, 1, 8, 0),
          Head2(3, 40) \o Early(0, 2, 3, 2) \o Early(1, 2, 8, 0) \o Late(2, 2, 8, 0)}

\* Texts that are cut off, and texts with a number the code must refuse.
CutOff == {SubSeq(t, 1, Len(t) - k) : t \in Whole, k \in {1, 3, 4, 6, 9, 12, 13}}
Odd    == {Head2(n, 352) \o Early(0, 1, 10, 0) : n \in {0, 4}}
            \union {Head2(1, 5000) \o Early(0, 1, 10, 0),
                    Head2(1, 352) \o Early(0, 3, 10, 0),
                    <<KV("networkID", Bad)>> \o Head2(1, 352) \o Early(0, 1, 10, 0)}

Texts == Whole \union CutOff \union Odd

\* settings
AeConfigs ==
  {[exposure |-> 400, gain |-> 80, brightness |-> 0, speed |-> 0, has_roi |-> TRUE,
    roi |-> [top |-> 300, left |-> 2, height |-> 1000, width |-> 2000]],
   [exposure |-> 50, gain |-> 7, brightness |-> 255, speed |-> 10, has_roi |-> TRUE,
    roi |-> [top |-> 1, left |-> 2, height |-> 0, width |-> 5]]}

WbConfigs ==
  {[mode |-> "auto", preset |-> 1, has_roi |-> TRUE,
    roi |-> [top |-> 301, left |-> 2, height |-> 3040, width |-> 4056]],
   [mode |-> "preset", preset |-> 6500, has_roi |-> FALSE, roi |-> [top |-> 0, left |-> 0, height |-> 0, width |-> 0]],
   [mode |-> "one_push", preset |-> 3200, has_roi |-> FALSE, roi |-> [top |-> 0, left |-> 0, height |-> 0, width |-> 0]]}

SpareValues == {<<1, 2, 3, 4>>, <<5, 6, 7, 8>>}

-----------------------------------------------------------------------------
Output == INSTANCE MetadataStream WITH
  Word <- 65536, Frames <- OutputFrames, Capacities <- {0, 130, 1000}, Detected <- {0, 2, 65535},
  JpegFormat <- FALSE, MaxPolls <- 2

Pictures == INSTANCE MetadataStream WITH
  Word <- 65536, Frames <- JpegFrames, Capacities <- {0, 5000, 10000}, Detected <- {0},
  JpegFormat <- TRUE, MaxPolls <- 2

Damaged == INSTANCE MetadataStream WITH
  Word <- 65536, Frames <- DamagedFrames, Capacities <- {10000}, Detected <- {0},
  JpegFormat <- TRUE, MaxPolls <- 2

Info == INSTANCE NetworkInfoCache WITH
  Texts <- Texts, Ordinals <- 0 .. 2, MaxTensors <- 2, PoolSlots <- 5, MaxLoads <- 3

Sensor == INSTANCE SensorSettings WITH
  AeConfigs <- AeConfigs, WbConfigs <- WbConfigs, Values <- SpareValues,
  MaxCalls <- 4, MaxFailures <- 1

Inject == INSTANCE DataInjection WITH
  Packet <- 4, Block <- 2, Sizes <- {3, 6}, MaxCalls <- 3, MaxFailures <- 2,
  pc <- inject_pc, size <- inject_size, buf <- chunk, failures <- lost

\* pictures smaller and larger than the tensors they go into; the ends of the registers,
\* and some values within
Input == INSTANCE InputTensor WITH
  Images <- {<<1, 1, 1>>, <<2, 3, 1>>, <<3, 2, 3>>, <<5, 4, 2>>, <<0, 3, 1>>, <<2, 2, 0>>},
  Tensors <- {<<1, 1, 1>>, <<2, 3, 2>>, <<3, 2, 1>>, <<4, 3, 2>>, <<2, 5, 2>>, <<0, 2, 1>>, <<2, 0, 2>>},
  Orders <- [1 .. 3 -> 0 .. 2] \union {<<3, 0, 1>>, <<>>},
  Aligns <- {0, 1, 2, 3, 4}, Sizes <- {0, 31, 64, 128}, MaxTotal <- 100, result <- converted,
  Gains <- {0, 1, 255, 1024, 2047, 2048, 3072},
  Offsets <- {0, 2032, 4095, 4096, 6160, 8191},
  Adds <- {0, 1, 128, 255, 256, 384, 511},
  Bytes <- {0, 1, 2, 63, 127, 128, 129, 200, 254, 255}, net <- network

ASSUME HostAssumption ==
  /\ Output!StreamAssumption /\ Pictures!StreamAssumption /\ Sensor!SensorAssumption
  /\ Inject!InjectionAssumption /\ Input!ImageAssumption /\ Input!NormalizationAssumption

AtRest ==
  /\ Output!Init /\ Info!Init /\ Sensor!Init
  /\ Inject!Init /\ Input!Init

Init == part \in {"output", "pictures", "info", "sensor", "inject", "image", "norm"} /\ AtRest

StreamNext ==
  /\ \/ part = "output" /\ Output!Next
     \/ part = "pictures" /\ Pictures!Next
  /\ UNCHANGED <<infoVars, sensorVars, injectVars, imageVars, normVars>>

InfoNext ==
  /\ part = "info" /\ Info!Next
  /\ UNCHANGED <<streamVars, sensorVars, injectVars, imageVars, normVars>>

SensorNext ==
  /\ part = "sensor" /\ Sensor!Next
  /\ UNCHANGED <<streamVars, infoVars, injectVars, imageVars, normVars>>

InjectNext ==
  /\ part = "inject" /\ Inject!Next
  /\ UNCHANGED <<streamVars, infoVars, sensorVars, imageVars, normVars>>

ImageNext ==
  /\ part = "image" /\ Input!ImageNext
  /\ UNCHANGED <<streamVars, infoVars, sensorVars, injectVars, normVars>>

NormNext ==
  /\ part = "norm" /\ Input!NormNext
  /\ UNCHANGED <<streamVars, infoVars, sensorVars, injectVars, imageVars>>

Next ==
  /\ UNCHANGED part
  /\ StreamNext \/ InfoNext \/ SensorNext \/ InjectNext \/ ImageNext \/ NormNext

\* A call that has begun goes on; the module, the application and the provider need not.
Fairness ==
  /\ WF_streamVars(part = "output" /\ Output!Read)
  /\ WF_pc(part = "output" /\ Output!Parsed)
  /\ WF_injectVars(part = "inject" /\ Inject!Step)

Spec == Init /\ [][Next]_vars /\ Fairness

\* One camera that sends frames whose image has lost its end.
DamagedNext ==
  /\ Damaged!Next
  /\ UNCHANGED <<part, infoVars, sensorVars, injectVars, imageVars, normVars>>

DamagedSpec == part = "damaged" /\ AtRest /\ [][DamagedNext]_vars

-----------------------------------------------------------------------------
\* What the SDK's parser accepts of a frame is all of it, with the image and every tensor where
\* they are, also when the size was another frame's and the frame was cut off; a frame that was
\* read whole is accepted; the MCU, the serial host and the detection helper look for its tensors
\* at the same places, and none of them reads beyond its tensor.
FramesParsedWhole ==
  /\ part = "output" =>
       /\ Output!ParsedIsWhole /\ Output!WholeIsParsed
       /\ Output!ParsersAgree /\ Output!DetectionsInside
  /\ part = "pictures" =>
       Pictures!ParsedIsWhole /\ Pictures!WholeIsParsed /\ Pictures!ParsersAgree

\* A frame whose image has lost its end is refused, or its tensors are found nevertheless.
InvalidIsRefused == part = "damaged" => Damaged!InvalidIsRefused

\* Once a complete text has been loaded, both copies of the cache say what that text says, in
\* whatever order its lines came, and nothing of the texts loaded before it; the networks share
\* no entry of the pool, and the size of a frame is the one the text describes.
LoadedIsText ==
  part = "info" =>
    /\ Info!LoadedIsText /\ Info!CopiesAgree /\ Info!ArraysApart
    /\ Info!SizeIsText /\ Info!AcceptedHasBlocks

\* A setting whose apply returned 0 is in effect in the sensor, all of it: no byte that failed on
\* the way, nothing left over of the other setting or of an apply that failed before; and a value
\* of several bytes that was written whole is read back so.
AppliedIsInEffect ==
  part = "sensor" =>
    /\ Sensor!AeAppliedIsInEffect /\ Sensor!WbAppliedIsInEffect
    /\ Sensor!ReadIsWritten /\ Sensor!FailureIsTold

\* What the module has of an injected frame is the beginning of one call's frame, whatever the
\* provider gives at a time and whichever block fails, and all of it when the call says so.
InjectedIsPrefix == part = "inject" => Inject!FrameIsPrefix /\ Inject!CompletedIsWhole

\* A prepared input tensor has the picture's pixels where the network looks for them, nothing is
\* written behind it, and the network's normalisation turns each of its bytes into the picture's.
PreparedIsPicture ==
  /\ part = "image" => Input!PixelInPlace /\ Input!ProducedIsWritten
  /\ part = "norm" => Input!NormalisationUndone

\* read_metadata and the injection calls return, whatever the module and the provider do.
CallReturns ==
  /\ (part = "output" /\ pc # "idle") ~> (pc = "idle")
  /\ (part = "inject" /\ inject_pc # "idle") ~> (inject_pc = "idle")
=============================================================================
