---------------------------- MODULE DataInjection ----------------------------
(***************************************************************************)
(* Input frames sent to the network in the sensor's place: two commands    *)
(* and then the frame over SPI, in packets and blocks that nobody          *)
(* acknowledges.  The functions return nothing, so the application goes on *)
(* with its session whatever happened.                                     *)
(***************************************************************************)
EXTENDS Integers, Sequences, FiniteSetsExt

CONSTANTS
  Packet,       \* MAX_SPI_PACKET_LEN, which is also the size of inject_buf
  Block,        \* SPI_BRIDGE_BLOCK_LEN
  Sizes,        \* sizes of the frames the application injects
  MaxCalls, MaxFailures   \* bounds

InjectionAssumption ==
  Packet \in Nat \ {0} /\ Block \in 1 .. Packet /\ Sizes \subseteq Nat \ {0}

VARIABLES
  mode, open, got,   \* the module: its mode, whether a frame is awaited, the frame's bytes so far
  session,           \* the application has injected a frame and not stopped
  call,              \* the number of the call under way or, between calls, of the last one
  pc, kind, size,    \* the call's step, the function, and total_size or size
  offset,            \* bytes of earlier packets (of the direct call) or chunks (of the stream)
  buf,               \* the chunk or packet being sent: offsets of its bytes in the frame
  sent,              \* bytes of buf handed to the driver
  dry,               \* the provider has once given nothing
  failures

vars == <<mode, open, got, session, call, pc, kind, size, offset, buf, sent, dry, failures>>

Init ==
  /\ mode = "normal" /\ open = FALSE /\ got = <<>>
  /\ session = FALSE /\ call = 0 /\ pc = "idle" /\ kind = "stream" /\ size = 0
  /\ offset = 0 /\ buf = <<>> /\ sent = 0 /\ dry = FALSE /\ failures = 0

----------------------------------------------------------------------------
(* The application, by the documentation: first_time is set for the first  *)
(* frame of a session, and a session is stopped when it ends.              *)
Call(k, s) ==
  /\ pc = "idle" /\ call < MaxCalls
  /\ call' = call + 1 /\ kind' = k /\ size' = s
  /\ pc' = IF session THEN "before" ELSE "switch"
  /\ session' = TRUE /\ offset' = 0 /\ buf' = <<>> /\ sent' = 0 /\ dry' = FALSE
  /\ UNCHANGED <<mode, open, got, failures>>

Stop ==
  /\ pc = "idle" /\ session
  /\ session' = FALSE /\ pc' = "after"
  /\ UNCHANGED <<mode, open, got, call, kind, size, offset, buf, sent, dry, failures>>

\* A command either is acknowledged, or fails with or without effect on the module.
Acknowledged(effect, next) == effect /\ pc' = next /\ UNCHANGED failures

Failed(effect, same, next) ==
  /\ failures < MaxFailures /\ failures' = failures + 1
  /\ effect \/ same
  /\ pc' = next

\* The switch is tried, and the frame begun whatever came of it.
AfterFailedCommand == "idle"

Switch ==
  /\ pc = "switch"
  /\ \/ Acknowledged(mode' = "injection", "before")
     \/ Failed(mode' = "injection", mode' = mode, AfterFailedCommand)
  /\ UNCHANGED <<open, got, session, call, kind, size, offset, buf, sent, dry>>

Before ==
  /\ pc = "before"
  /\ \/ Acknowledged(open' = TRUE /\ got' = <<>>, "fill")
     \/ Failed(open' = TRUE /\ got' = <<>>, open' = open /\ got' = got, AfterFailedCommand)
  /\ UNCHANGED <<mode, session, call, kind, size, offset, buf, sent, dry>>

After ==
  /\ pc = "after"
  /\ \/ Acknowledged(mode' = "normal" /\ open' = FALSE, "idle")
     \/ Failed(mode' = "normal" /\ open' = FALSE, mode' = mode /\ open' = open, "idle")
  /\ UNCHANGED <<got, session, call, kind, size, offset, buf, sent, dry>>

\* A provider that gives nothing is asked again.
AskAgain == dry' = ~dry /\ UNCHANGED <<pc, buf, sent>>

GiveUp == dry' = TRUE /\ pc' = "completed" /\ UNCHANGED <<buf, sent>>

\* The next chunk: as much as the provider gives of what is asked for, from offset on.
\* The direct call takes all of it from its argument.
Fill ==
  /\ pc = "fill"
  /\ LET to_read == Min({size - offset, Packet})
         Chunk(n) == [i \in 1 .. n |-> offset + i - 1]
     IN \/ offset >= size /\ pc' = "completed" /\ UNCHANGED <<buf, sent, dry>>
        \/ kind = "stream" /\ size > offset /\ GiveUp
        \/ /\ size > offset /\ pc' = "send" /\ sent' = 0
           /\ buf' \in {Chunk(n) : n \in IF kind = "stream" THEN 1 .. to_read ELSE {to_read}}
           /\ UNCHANGED dry
  /\ UNCHANGED <<mode, open, got, session, call, kind, size, offset, failures>>

\* Every chunk counts as a whole packet.
AdvanceByPacket == offset + Packet

Advance == offset + Len(buf)

AfterFailedBlock == "idle"

\* sdk_spi_write(), one block; a chunk is never longer than a packet.
Send ==
  /\ pc = "send"
  /\ LET n == Min({Len(buf) - sent, Block})
         Arrived(m) == got' = got \o [i \in 1 .. m |-> <<call, buf[sent + i]>>]
     IN \/ /\ Arrived(n) /\ sent' = sent + n /\ UNCHANGED failures
           /\ IF sent + n = Len(buf) THEN pc' = "fill" /\ offset' = Advance
                                     ELSE UNCHANGED <<pc, offset>>
        \/ /\ failures < MaxFailures /\ failures' = failures + 1
           /\ \E m \in 0 .. n : Arrived(m)
           /\ pc' = IF sent + n = Len(buf) THEN "idle" ELSE AfterFailedBlock
           /\ sent' = sent + n /\ UNCHANGED offset
  /\ UNCHANGED <<mode, open, session, call, kind, size, buf, dry>>

Complete ==
  /\ pc = "completed" /\ pc' = "idle"
  /\ UNCHANGED <<mode, open, got, session, call, kind, size, offset, buf, sent, dry, failures>>

Step == Switch \/ Before \/ After \/ Fill \/ Send \/ Complete

Next == (\E k \in {"stream", "direct"}, s \in Sizes : Call(k, s)) \/ Stop \/ Step

Spec == Init /\ [][Next]_vars /\ WF_vars(Step)

----------------------------------------------------------------------------

\* What the module has of a frame is the beginning of one call's frame: however little
\* the provider gives at a time, and wherever a block fails, no byte is missing in
\* between, comes twice, or comes from another call.
FrameIsPrefix == \E c \in 0 .. call : \A i \in 1 .. Len(got) : got[i] = <<c, i - 1>>

\* "data injection completed" is printed for a frame the module has all of, unless the
\* provider gave nothing.
CompletedIsWhole == (pc = "completed" /\ ~dry) => got = [i \in 1 .. size |-> <<call, i - 1>>]

=============================================================================
