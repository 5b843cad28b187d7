--------------------------- MODULE HostDataProofs ---------------------------
(***************************************************************************)
(* Theorems about what the SDK sends over links that may fail, for all     *)
(* values of the constants and as the run composes them: the frames that   *)
(* are injected over SPI, and the settings of the sensor, written byte by  *)
(* byte over I2C.                                                          *)
(***************************************************************************)
EXTENDS MCHostData, Integers, SequenceTheorems, TLAPS

-----------------------------------------------------------------------------
(* Injected frames                                                          *)

InjectOf(packet, block, sizes, most_calls, most_failures) ==
  INSTANCE DataInjection WITH
    Packet <- packet, Block <- block, Sizes <- sizes, MaxCalls <- most_calls,
    MaxFailures <- most_failures,
    pc <- inject_pc, size <- inject_size, buf <- chunk, failures <- lost

\* The beginning of the frame of call c
Prefix(g, c) == \A i \in 1 .. Len(g) : g[i] = <<c, i - 1>>

\* The bytes of a frame from offset k on
Run(s, k) == \A i \in 1 .. Len(s) : s[i] = k + i - 1

InjectTyped ==
  /\ call \in Nat /\ inject_size \in Nat /\ offset \in Nat /\ sent \in Nat /\ dry \in BOOLEAN
  /\ got \in Seq(Nat \X Nat) /\ chunk \in Seq(Nat)

\* What has arrived and what is being sent, at each step of a call: where a chunk has been sent
\* the next one begins, and blocks of it are sent in their order until one fails.
InjectInv ==
  /\ InjectTyped
  /\ \E c \in 0 .. call : Prefix(got, c)
  /\ inject_pc \in {"switch", "before"} => offset = 0
  /\ inject_pc \in {"fill", "send", "completed"} => Prefix(got, call)
  /\ inject_pc \in {"fill", "completed"} => Len(got) = offset /\ offset <= inject_size
  /\ inject_pc = "completed" /\ ~dry => offset = inject_size
  /\ inject_pc = "send" =>
       /\ Len(got) = offset + sent /\ sent < Len(chunk) /\ offset + Len(chunk) <= inject_size
       /\ Run(chunk, offset)

LEMMA LeastOfTwo ==
  ASSUME NEW packet, NEW block, NEW sizes, NEW most_calls, NEW most_failures,
         NEW x \in Int, NEW y \in Int
  PROVE  /\ InjectOf(packet, block, sizes, most_calls, most_failures)!Min({x, y}) \in {x, y}
         /\ InjectOf(packet, block, sizes, most_calls, most_failures)!Min({x, y}) <= x
         /\ InjectOf(packet, block, sizes, most_calls, most_failures)!Min({x, y}) <= y
<1>. DEFINE n == InjectOf(packet, block, sizes, most_calls, most_failures)!Min({x, y})
            Least(z) == \A w \in {x, y} : z <= w
<1>1. \E z \in {x, y} : Least(z)
  OBVIOUS
<1>2. n = CHOOSE z \in {x, y} : Least(z)
  BY DEF InjectOf!Min
<1>. HIDE DEF Least, n
<1>3. n \in {x, y} /\ Least(n)
  BY <1>1, <1>2
<1>. QED
  BY <1>3 DEF Least, n

LEMMA BehindEachOther ==
  ASSUME NEW S, NEW s \in Seq(S), NEW t \in Seq(S), NEW u, u = s \o t
  PROVE  /\ u \in Seq(S) /\ Len(u) = Len(s) + Len(t)
         /\ \A i \in 1 .. Len(s) + Len(t) : u[i] = IF i <= Len(s) THEN s[i] ELSE t[i - Len(s)]
BY ConcatProperties

\* m more bytes of the chunk arrive.
LEMMA Arrives ==
  ASSUME InjectInv, inject_pc = "send", NEW m \in Nat, sent + m <= Len(chunk),
         NEW g, g = got \o [i \in 1 .. m |-> <<call, chunk[sent + i]>>]
  PROVE  g \in Seq(Nat \X Nat) /\ Len(g) = Len(got) + m /\ Prefix(g, call)
<1>. DEFINE more == [i \in 1 .. m |-> <<call, chunk[sent + i]>>]
<1>1. /\ call \in Nat /\ sent \in Nat /\ offset \in Nat /\ got \in Seq(Nat \X Nat)
      /\ chunk \in Seq(Nat) /\ Len(chunk) \in Nat
  BY DEF InjectInv, InjectTyped
<1>2. \A i \in 1 .. m : sent + i \in 1 .. Len(chunk)
  BY <1>1
<1>3. \A i \in 1 .. m : chunk[sent + i] \in Nat
  BY <1>1, <1>2
<1>4. more \in Seq(Nat \X Nat) /\ Len(more) = m
  BY <1>1, <1>3
<1>5. \A i \in 1 .. m : more[i] = <<call, Len(got) + i - 1>>
  <2>. SUFFICES ASSUME NEW i \in 1 .. m PROVE more[i] = <<call, Len(got) + i - 1>>
    OBVIOUS
  <2>1. chunk[sent + i] = offset + (sent + i) - 1
    BY <1>2 DEF InjectInv, Run
  <2>2. Len(got) = offset + sent
    BY DEF InjectInv
  <2>3. chunk[sent + i] = Len(got) + i - 1
    BY <1>1, <2>1, <2>2
  <2>4. more[i] = <<call, chunk[sent + i]>>
    OBVIOUS
  <2>. QED
    BY <2>3, <2>4
<1>. HIDE DEF more
<1>6. g = got \o more
  BY DEF more
<1>. DEFINE n == Len(got)
<1>7. /\ g \in Seq(Nat \X Nat) /\ Len(g) = n + m /\ n \in Nat
      /\ \A i \in 1 .. n + m : g[i] = IF i <= n THEN got[i] ELSE more[i - n]
  <2>1. /\ g \in Seq(Nat \X Nat) /\ Len(g) = Len(got) + Len(more)
        /\ \A i \in 1 .. Len(got) + Len(more) : g[i] = IF i <= Len(got) THEN got[i] ELSE more[i - Len(got)]
    <3>. DEFINE P == Nat \X Nat
    <3>1. got \in Seq(P) /\ more \in Seq(P)
      BY <1>1, <1>4
    <3>. HIDE DEF P
    <3>2. /\ g \in Seq(P) /\ Len(g) = Len(got) + Len(more)
          /\ \A i \in 1 .. Len(got) + Len(more) : g[i] = IF i <= Len(got) THEN got[i] ELSE more[i - Len(got)]
      BY ONLY <1>6, <3>1, BehindEachOther
    <3>. QED
      BY <3>2 DEF P
  <2>2. n \in Nat
    BY <1>1
  <2>. QED
    BY <1>4, <2>1, <2>2
<1>8. Prefix(got, call)
  BY DEF InjectInv
<1>9. \A i \in 1 .. n : got[i] = <<call, i - 1>>
  BY <1>8 DEF Prefix
<1>10. \A i \in 1 .. m : more[i] = <<call, n + i - 1>>
  BY <1>5
<1>. HIDE DEF n
<1>11. ASSUME NEW i \in 1 .. n + m PROVE g[i] = <<call, i - 1>>
  <2>1. CASE i <= n
    BY <1>7, <1>9, <2>1
  <2>2. CASE ~(i <= n)
    <3>1. i - n \in 1 .. m /\ n + (i - n) - 1 = i - 1
      BY <1>7, <2>2
    <3>2. g[i] = more[i - n]
      BY <1>7, <2>2
    <3>. QED
      BY <1>10, <3>1, <3>2
  <2>. QED
    BY <2>1, <2>2
<1>12. Prefix(g, call)
  BY <1>7, <1>11, Zenon DEF Prefix
<1>. QED
  BY <1>7, <1>12 DEF n

LEMMA InjectInit ==
  ASSUME NEW packet, NEW block, NEW sizes, NEW most_calls, NEW most_failures,
         InjectOf(packet, block, sizes, most_calls, most_failures)!Init
  PROVE  InjectInv
<1>1. got = <<>> /\ chunk = <<>> /\ call = 0 /\ offset = 0 /\ sent = 0 /\ inject_size = 0 /\ dry = FALSE
      /\ inject_pc = "idle"
  BY DEF InjectOf!Init
<1>2. Prefix(got, 0) /\ 0 \in 0 .. call
  BY <1>1 DEF Prefix
<1>3. <<>> \in Seq(Nat \X Nat) /\ <<>> \in Seq(Nat)
  OBVIOUS
<1>4. InjectTyped
  BY <1>1, <1>3 DEF InjectTyped
<1>. QED
  BY <1>1, <1>2, <1>4 DEF InjectInv

LEMMA InjectStep ==
  ASSUME NEW packet \in Nat \ {0}, NEW block \in 1 .. packet, NEW sizes \in SUBSET (Nat \ {0}),
         NEW most_calls, NEW most_failures, InjectInv,
         [InjectOf(packet, block, sizes, most_calls, most_failures)!Next]_injectVars
  PROVE  InjectInv'
<1>1. /\ call \in Nat /\ inject_size \in Nat /\ offset \in Nat /\ sent \in Nat /\ dry \in BOOLEAN
      /\ got \in Seq(Nat \X Nat) /\ chunk \in Seq(Nat) /\ Len(chunk) \in Nat /\ Len(got) \in Nat
  BY DEF InjectInv, InjectTyped
<1>2. PICK c \in 0 .. call : Prefix(got, c)
  BY DEF InjectInv
<1>3. <<>> \in Seq(Nat \X Nat) /\ <<>> \in Seq(Nat) /\ Len(<<>>) = 0 /\ Prefix(<<>>, call)
  BY DEF Prefix
<1>4. ASSUME NEW k \in {"stream", "direct"}, NEW s \in sizes,
             InjectOf(packet, block, sizes, most_calls, most_failures)!Call(k, s)
      PROVE  InjectInv'
  <2>1. /\ call' = call + 1 /\ inject_size' = s /\ offset' = 0 /\ chunk' = <<>> /\ sent' = 0
        /\ dry' = FALSE /\ got' = got /\ inject_pc' \in {"before", "switch"}
    BY <1>4 DEF InjectOf!Call
  <2>2. c \in 0 .. call' /\ Prefix(got', c)
    BY <1>1, <1>2, <2>1 DEF Prefix
  <2>3. s \in Nat /\ call + 1 \in Nat
    BY <1>1
  <2>4. InjectTyped'
    BY <1>1, <1>3, <2>1, <2>3, Zenon DEF InjectTyped
  <2>5. inject_pc' \notin {"fill", "send", "completed"} /\ offset' = 0
    BY <2>1
  <2>. QED
    BY <2>2, <2>4, <2>5 DEF InjectInv
<1>5. ASSUME UNCHANGED <<got, call, inject_size, offset, chunk, sent, dry>>,
             inject_pc' \notin {"fill", "send", "completed"},
             inject_pc' \in {"switch", "before"} => offset = 0
      PROVE  InjectInv'
  BY <1>2, <1>5 DEF InjectInv, InjectTyped, Prefix
<1>6. CASE InjectOf(packet, block, sizes, most_calls, most_failures)!Stop
  BY <1>5, <1>6 DEF InjectOf!Stop
<1>7. CASE InjectOf(packet, block, sizes, most_calls, most_failures)!Switch
  BY <1>5, <1>7 DEF InjectOf!Switch, InjectOf!Acknowledged, InjectOf!Failed, InjectOf!AfterFailedCommand,
       InjectInv
<1>8. CASE InjectOf(packet, block, sizes, most_calls, most_failures)!After
  BY <1>5, <1>8 DEF InjectOf!After, InjectOf!Acknowledged, InjectOf!Failed
<1>9. CASE InjectOf(packet, block, sizes, most_calls, most_failures)!Complete
  BY <1>5, <1>9 DEF InjectOf!Complete
<1>10. CASE InjectOf(packet, block, sizes, most_calls, most_failures)!Before
  <2>1. UNCHANGED <<call, inject_size, offset, chunk, sent, dry>>
    BY <1>10 DEF InjectOf!Before
  <2>2. CASE inject_pc' = "fill" /\ got' = <<>>
    <3>1. offset = 0
      BY <1>10 DEF InjectOf!Before, InjectInv
    <3>. QED
      BY <1>1, <1>3, <2>1, <2>2, <3>1 DEF InjectInv, InjectTyped
  <2>3. CASE inject_pc' = "idle" /\ got' = <<>>
    BY <1>1, <1>3, <2>1, <2>3 DEF InjectInv, InjectTyped
  <2>4. CASE inject_pc' = "idle" /\ got' = got
    BY <1>5, <2>1, <2>4
  <2>. QED
    BY <1>10, <2>2, <2>3, <2>4 DEF InjectOf!Before, InjectOf!Acknowledged, InjectOf!Failed,
      InjectOf!AfterFailedCommand
<1>11. CASE InjectOf(packet, block, sizes, most_calls, most_failures)!Fill
  <2>1. /\ inject_pc = "fill" /\ UNCHANGED <<got, call, inject_size, offset>>
        /\ Len(got) = offset /\ offset <= inject_size /\ Prefix(got, call)
    BY <1>11 DEF InjectOf!Fill, InjectInv
  <2>2. CASE inject_pc' = "completed" /\ UNCHANGED <<chunk, sent>> /\ dry' \in BOOLEAN
             /\ (~dry' => offset >= inject_size)
    BY <1>1, <1>2, <2>1, <2>2 DEF InjectInv, InjectTyped, Prefix
  <2>3. CASE /\ inject_size > offset /\ inject_pc' = "send" /\ sent' = 0 /\ UNCHANGED dry
             /\ \E n \in Nat : n # 0 /\ n <= inject_size - offset /\ chunk' = [i \in 1 .. n |-> offset + i - 1]
    <3>1. PICK n \in Nat : n # 0 /\ n <= inject_size - offset /\ chunk' = [i \in 1 .. n |-> offset + i - 1]
      BY <2>3
    <3>2. \A i \in 1 .. n : offset + i - 1 \in Nat
      BY <1>1
    <3>3. chunk' \in Seq(Nat) /\ Len(chunk') = n
      BY <3>1, <3>2
    <3>4. Run(chunk', offset)
      BY <3>1, <3>3 DEF Run
    <3>5. offset + n <= inject_size /\ 0 < n
      BY <1>1, <3>1
    <3>6. InjectTyped'
      BY <1>1, <2>1, <2>3, <3>3 DEF InjectTyped
    <3>7. Prefix(got', call') /\ call' \in 0 .. call' /\ Len(got') = offset' + sent'
      BY <1>1, <2>1, <2>3 DEF Prefix
    <3>8. sent' < Len(chunk') /\ offset' + Len(chunk') <= inject_size' /\ Run(chunk', offset')
      BY <2>1, <2>3, <3>3, <3>4, <3>5 DEF Run
    <3>. QED
      BY <2>3, <3>6, <3>7, <3>8 DEF InjectInv
  <2>. DEFINE left == inject_size - offset
              to_read == InjectOf(packet, block, sizes, most_calls, most_failures)!Min({left, packet})
  <2>4. CASE inject_size > offset /\ inject_pc' = "send" /\ sent' = 0 /\ UNCHANGED dry
    <3>1. left \in Int /\ left > 0 /\ packet \in Int /\ packet > 0
      BY <1>1, <2>4
    <3>2. PICK n \in 1 .. to_read \union {to_read} : chunk' = [i \in 1 .. n |-> offset + i - 1]
      BY <1>11, <2>4 DEF InjectOf!Fill, InjectOf!GiveUp
    <3>. HIDE DEF left
    <3>3. to_read \in {left, packet} /\ to_read <= left
      BY <3>1, LeastOfTwo
    <3>. HIDE DEF to_read
    <3>4. n \in Nat /\ n # 0 /\ n <= left
      BY <3>1, <3>2, <3>3
    <3>. QED
      BY <2>3, <2>4, <3>2, <3>4 DEF left
  <2>5. \/ offset >= inject_size /\ inject_pc' = "completed" /\ UNCHANGED <<chunk, sent, dry>>
        \/ inject_size > offset /\ dry' = TRUE /\ inject_pc' = "completed" /\ UNCHANGED <<chunk, sent>>
        \/ inject_size > offset /\ inject_pc' = "send" /\ sent' = 0 /\ UNCHANGED dry
    BY <1>11 DEF InjectOf!Fill, InjectOf!GiveUp
  <2>. QED
    BY <1>1, <2>2, <2>4, <2>5
<1>12. CASE InjectOf(packet, block, sizes, most_calls, most_failures)!Send
  <2>. DEFINE n == InjectOf(packet, block, sizes, most_calls, most_failures)!Min({Len(chunk) - sent, block})
  <2>1. /\ inject_pc = "send" /\ UNCHANGED <<call, inject_size, chunk, dry>> /\ sent' = sent + n
        /\ Len(got) = offset + sent /\ sent < Len(chunk) /\ offset + Len(chunk) <= inject_size
        /\ Run(chunk, offset)
    BY <1>12 DEF InjectOf!Send, InjectInv
  <2>2. n \in Nat \ {0} /\ sent + n <= Len(chunk)
    <3>1. Len(chunk) - sent \in Nat \ {0} /\ block \in Nat \ {0}
      BY <1>1, <2>1
    <3>. DEFINE left == Len(chunk) - sent
    <3>2. n = InjectOf(packet, block, sizes, most_calls, most_failures)!Min({left, block})
      OBVIOUS
    <3>3. left \in Int /\ left > 0 /\ block \in Int /\ block > 0
      BY <3>1
    <3>. HIDE DEF left, n
    <3>4. n \in {left, block} /\ n <= left
      BY <3>2, <3>3, LeastOfTwo
    <3>5. n \in Nat \ {0}
      BY <3>3, <3>4
    <3>6. n <= Len(chunk) - sent
      BY <3>4 DEF left
    <3>. QED
      BY <1>1, <3>5, <3>6
  <2>3. CASE /\ got' = got \o [i \in 1 .. n |-> <<call, chunk[sent + i]>>]
             /\ IF sent + n = Len(chunk) THEN inject_pc' = "fill" /\ offset' = offset + Len(chunk)
                ELSE UNCHANGED <<inject_pc, offset>>
    <3>. HIDE DEF n
    <3>1. got' \in Seq(Nat \X Nat) /\ Len(got') = Len(got) + n /\ Prefix(got', call)
      BY <2>1, <2>2, <2>3, Arrives
    <3>2. call \in 0 .. call /\ sent + n \in Nat /\ offset + Len(chunk) \in Nat
      BY <1>1, <2>2
    <3>. DEFINE l == Len(chunk)
                k == Len(got)
                k1 == Len(got')
    <3>3. InjectTyped' /\ \E d \in 0 .. call' : Prefix(got', d)
      BY <1>1, <2>1, <2>3, <3>1, <3>2 DEF InjectTyped
    <3>4. l \in Nat /\ k = offset + sent /\ k1 = k + n /\ sent < l /\ offset + l <= inject_size /\ sent + n <= l
      BY <1>1, <2>1, <2>2, <3>1
    <3>5. CASE sent + n = Len(chunk)
      <4>1. inject_pc' = "fill" /\ offset' = offset + l /\ sent + n = l
        BY <2>3, <3>5
      <4>2. k1 = offset' /\ offset' <= inject_size'
        <5>. HIDE DEF k, k1, l
        <5>. QED
          BY <1>1, <2>1, <2>2, <3>4, <4>1
      <4>. QED
        BY <2>1, <3>1, <3>3, <4>1, <4>2 DEF InjectInv
    <3>6. CASE sent + n # Len(chunk)
      <4>1. inject_pc' = "send" /\ offset' = offset /\ Len(chunk') = l /\ Run(chunk', offset')
        BY <2>1, <2>3, <3>6 DEF Run
      <4>2. k1 = offset' + sent' /\ sent' < l /\ offset' + l <= inject_size'
        <5>1. sent + n # l
          BY <3>6
        <5>. HIDE DEF k, k1, l
        <5>. QED
          BY <1>1, <2>1, <2>2, <3>4, <4>1, <5>1
      <4>. QED
        BY <2>1, <3>1, <3>3, <4>1, <4>2 DEF InjectInv
    <3>. QED
      BY <3>5, <3>6
  <2>4. CASE /\ \E m \in 0 .. n : got' = got \o [i \in 1 .. m |-> <<call, chunk[sent + i]>>]
             /\ inject_pc' = "idle" /\ UNCHANGED offset
    <3>. HIDE DEF n
    <3>1. PICK m \in 0 .. n : got' = got \o [i \in 1 .. m |-> <<call, chunk[sent + i]>>]
      BY <2>4
    <3>2. m \in Nat /\ sent + m <= Len(chunk)
      BY <1>1, <2>2
    <3>3. got' \in Seq(Nat \X Nat) /\ Prefix(got', call)
      BY <2>1, <3>1, <3>2, Arrives
    <3>4. call \in 0 .. call /\ sent + n \in Nat
      BY <1>1, <2>2
    <3>. QED
      BY <1>1, <2>1, <2>4, <3>3, <3>4 DEF InjectInv, InjectTyped
  <2>. QED
    BY <1>12, <2>3, <2>4 DEF InjectOf!Send, InjectOf!Advance, InjectOf!AfterFailedBlock
<1>13. CASE UNCHANGED injectVars
  BY <1>2, <1>13 DEF injectVars, InjectInv, InjectTyped, Prefix, Run
<1>. QED
  BY <1>4, <1>6, <1>7, <1>8, <1>9, <1>10, <1>11, <1>12, <1>13 DEF InjectOf!Next, InjectOf!Step

LEMMA InjectedPrefix ==
  ASSUME NEW packet, NEW block, NEW sizes, NEW most_calls, NEW most_failures, InjectInv
  PROVE  /\ InjectOf(packet, block, sizes, most_calls, most_failures)!FrameIsPrefix
         /\ InjectOf(packet, block, sizes, most_calls, most_failures)!CompletedIsWhole
<1>1. InjectOf(packet, block, sizes, most_calls, most_failures)!FrameIsPrefix
  BY DEF InjectInv, Prefix, InjectOf!FrameIsPrefix
<1>2. ASSUME inject_pc = "completed", ~dry
      PROVE  got = [i \in 1 .. inject_size |-> <<call, i - 1>>]
  <2>1. Len(got) = inject_size /\ Prefix(got, call) /\ got \in Seq(Nat \X Nat)
    BY <1>2 DEF InjectInv, InjectTyped
  <2>2. got = [i \in 1 .. inject_size |-> got[i]]
    BY <2>1
  <2>. QED
    BY <2>1, <2>2 DEF Prefix
<1>. QED
  BY <1>1, <1>2 DEF InjectOf!CompletedIsWhole

\* For every size of packets, blocks and frames: what the module has of an injected frame is the
\* beginning of one call's frame, and all of it when the call says so.
THEOREM InjectedIsWhole ==
  ASSUME NEW packet \in Nat \ {0}, NEW block \in 1 .. packet, NEW sizes \in SUBSET (Nat \ {0}),
         NEW most_calls, NEW most_failures
  PROVE  InjectOf(packet, block, sizes, most_calls, most_failures)!Spec =>
           [](/\ InjectOf(packet, block, sizes, most_calls, most_failures)!FrameIsPrefix
              /\ InjectOf(packet, block, sizes, most_calls, most_failures)!CompletedIsWhole)
<1>1. InjectOf(packet, block, sizes, most_calls, most_failures)!Init => InjectInv
  BY InjectInit
<1>2. InjectInv
      /\ [InjectOf(packet, block, sizes, most_calls, most_failures)!Next]_(InjectOf(packet, block, sizes, most_calls, most_failures)!vars)
      => InjectInv'
  <2>1. UNCHANGED InjectOf(packet, block, sizes, most_calls, most_failures)!vars => UNCHANGED injectVars
    BY DEF injectVars, InjectOf!vars
  <2>. QED
    BY <2>1, InjectStep
<1>3. InjectInv => /\ InjectOf(packet, block, sizes, most_calls, most_failures)!FrameIsPrefix
                   /\ InjectOf(packet, block, sizes, most_calls, most_failures)!CompletedIsWhole
  BY InjectedPrefix
<1>. QED
  BY <1>1, <1>2, <1>3, PTL DEF InjectOf!Spec

-----------------------------------------------------------------------------
(* The sensor's settings                                                    *)

SensorOf(aes, wbs, values, most_calls, most_failures) ==
  INSTANCE SensorSettings WITH
    AeConfigs <- aes, WbConfigs <- wbs, Values <- values, MaxCalls <- most_calls,
    MaxFailures <- most_failures

\* A range of numbers, known by its ends
Span(m, n) == m .. n

LEMMA InSpan ==
  ASSUME NEW m \in Int, NEW n \in Int, NEW i
  PROVE  i \in Span(m, n) <=> i \in Int /\ m <= i /\ i <= n
BY DEF Span

Numbers == Span(0, 65535)
Regions == [top : Numbers, left : Numbers, height : Numbers, width : Numbers]

\* What is staged
AeSane ==
  [exposure : Span(1, 333), gain : Span(0, 75), brightness : Span(1, 255), speed : Span(1, 255),
   has_roi : BOOLEAN, roi : Regions]

InPicture(r) == r.width <= 4056 /\ r.height <= 3040

WbSane ==
  {c \in [mode : {"auto", "one_push", "preset"}, preset : {3200, 4300, 5600, 6500},
          has_roi : BOOLEAN, roi : Regions] : InPicture(c.roi)}

Values4 == [1 .. 4 -> Span(0, 255)]

High(v) == (v \div 256) % 256
Low(v)  == v % 256

Byte(a, v) == [at |-> a, val |-> v]

\* The bytes of a list of writes
Of(w) == {w[j] : j \in DOMAIN w}
In(list) == UNION {Of(list[i]) : i \in DOMAIN list}

LEMMA OfOne ==
  ASSUME NEW aes, NEW wbs, NEW values, NEW mc, NEW mf, NEW a \in Nat, NEW v \in Nat
  PROVE  Of(SensorOf(aes, wbs, values, mc, mf)!W(a, v, 1)) = {Byte(a, Low(v))}
BY DEF Of, Byte, Low, SensorOf!W, SensorOf!B, SensorOf!Byte

LEMMA OfTwo ==
  ASSUME NEW aes, NEW wbs, NEW values, NEW mc, NEW mf, NEW a \in Nat, NEW v \in Nat
  PROVE  Of(SensorOf(aes, wbs, values, mc, mf)!W(a, v, 2)) = {Byte(a, High(v)), Byte(a + 1, Low(v))}
BY DEF Of, Byte, Low, High, SensorOf!W, SensorOf!B, SensorOf!Byte

LEMMA InTen ==
  ASSUME NEW a, NEW b, NEW c, NEW d, NEW e, NEW f, NEW g, NEW h, NEW i, NEW j
  PROVE  In(<<a, b, c, d, e, f, g, h, i, j>>) =
           Of(a) \union Of(b) \union Of(c) \union Of(d) \union Of(e) \union Of(f) \union Of(g) \union Of(h)
           \union Of(i) \union Of(j)
BY DEF In

LEMMA InBoth ==
  ASSUME NEW S, NEW s \in Seq(S), NEW t \in Seq(S)
  PROVE  In(s \o t) = In(s) \union In(t)
<1>. DEFINE m == Len(s)
            n == Len(t)
            u == s \o t
<1>1. /\ m \in Nat /\ n \in Nat /\ DOMAIN s = 1 .. m /\ DOMAIN t = 1 .. n /\ DOMAIN u = 1 .. m + n
      /\ \A i \in 1 .. m + n : u[i] = IF i <= m THEN s[i] ELSE t[i - m]
  BY ConcatProperties, LenProperties
<1>. HIDE DEF m, n, u
<1>2. \A i \in 1 .. m : i \in 1 .. m + n /\ u[i] = s[i]
  BY <1>1
<1>3. \A i \in 1 .. n : m + i \in 1 .. m + n /\ u[m + i] = t[i]
  BY <1>1
<1>4. \A i \in 1 .. m + n : (i \in 1 .. m /\ u[i] = s[i]) \/ (i - m \in 1 .. n /\ u[i] = t[i - m])
  BY <1>1
<1>5. In(u) = In(s) \union In(t)
  BY <1>1, <1>2, <1>3, <1>4 DEF In
<1>. QED
  BY <1>5 DEF u


Bytes == [at : Nat, val : Span(0, 255)]
Pieces == Seq(Bytes) \ {<<>>}

\* One write is one value in one or two registers.
LEMMA AnyWrite ==
  ASSUME NEW aes, NEW wbs, NEW values, NEW mc, NEW mf, NEW a \in Nat, NEW v \in Nat, NEW n \in {1, 2}
  PROVE  SensorOf(aes, wbs, values, mc, mf)!W(a, v, n) \in Pieces
<1>1. /\ v % 256 \in Span(0, 255) /\ (v \div 256) % 256 \in Span(0, 255)
      /\ a + 1 \in Nat
  BY InSpan
<1>. DEFINE x == Byte(a, v % 256)
            y == Byte(a, (v \div 256) % 256)
            z == Byte(a + 1, v % 256)
<1>2. x \in Bytes /\ y \in Bytes /\ z \in Bytes
  BY <1>1 DEF Byte, Bytes
<1>3. SensorOf(aes, wbs, values, mc, mf)!W(a, v, n) = IF n = 1 THEN <<x>> ELSE <<y, z>>
  BY DEF Byte, SensorOf!W, SensorOf!B, SensorOf!Byte
<1>. HIDE DEF x, y, z
<1>4. <<x>> \in Pieces /\ <<y, z>> \in Pieces
  BY <1>2 DEF Pieces
<1>. QED
  BY <1>3, <1>4

LEMMA AeNumbers ==
  ASSUME NEW c \in AeSane
  PROVE  /\ c.exposure \in Nat /\ c.exposure < 65536 /\ c.speed \in Nat /\ c.speed < 256
         /\ c.gain \in Nat /\ (c.gain * 10) \div 3 \in Nat /\ (c.gain * 10) \div 3 <= 255
         /\ c.brightness * 160 \in Nat /\ c.brightness * 160 < 65536
         /\ c.roi.top \in Nat /\ c.roi.left \in Nat /\ c.roi.height \in Nat /\ c.roi.width \in Nat
         /\ c.roi.top < 65536 /\ c.roi.left < 65536 /\ c.roi.height < 65536 /\ c.roi.width < 65536
<1>. DEFINE e == c.exposure
            g == c.gain
            b == c.brightness
            s == c.speed
            r == c.roi
<1>1. /\ e \in Span(1, 333) /\ g \in Span(0, 75) /\ b \in Span(1, 255) /\ s \in Span(1, 255)
      /\ r \in Regions
  BY DEF AeSane
<1>. HIDE DEF e, g, b, s, r
<1>2. r.top \in Numbers /\ r.left \in Numbers /\ r.height \in Numbers /\ r.width \in Numbers
  BY <1>1 DEF Regions
<1>3. \A n \in Numbers : n \in Nat /\ n < 65536
  BY InSpan DEF Numbers
<1>4. /\ e \in Nat /\ e < 65536 /\ s \in Nat /\ s < 256 /\ b \in Nat /\ b <= 255 /\ g \in Nat /\ g <= 75
  BY <1>1, InSpan
<1>5. (g * 10) \div 3 \in Nat /\ (g * 10) \div 3 <= 255 /\ b * 160 \in Nat /\ b * 160 < 65536
  BY ONLY <1>4
<1>. QED
  BY <1>2, <1>3, <1>4, <1>5 DEF e, g, b, s, r

\* A value in one and in two registers
One(a, v) == {Byte(a, Low(v))}
Two(a, v) == {Byte(a, High(v)), Byte(a + 1, Low(v))}

AeLimitsBytes(c) ==
  One(55296, 0) \union One(53821, 0) \union One(53938, 1) \union Two(53940, c.exposure)
  \union One(53870, (c.gain * 10) \div 3) \union One(58880, 8) \union One(58881, 0)
  \union Two(53856, c.brightness * 160) \union One(53799, 0) \union One(53976, c.speed)

LEMMA AeLimitsIn ==
  ASSUME NEW aes, NEW wbs, NEW values, NEW mc, NEW mf, NEW c \in AeSane
  PROVE  /\ SensorOf(aes, wbs, values, mc, mf)!AeLimits(c) \in Seq(Pieces)
         /\ In(SensorOf(aes, wbs, values, mc, mf)!AeLimits(c)) = AeLimitsBytes(c)
<1>. DEFINE W(a, v, n) == SensorOf(aes, wbs, values, mc, mf)!W(a, v, n)
            gain == (c.gain * 10) \div 3
            level == c.brightness * 160
            s == SensorOf(aes, wbs, values, mc, mf)!AeLimits(c)
<1>1. /\ c.exposure \in Nat /\ c.speed \in Nat /\ level \in Nat /\ gain \in Nat
  BY AeNumbers
<1>2. SensorOf(aes, wbs, values, mc, mf)!GainReg(c.gain) = gain
  BY AeNumbers DEF SensorOf!GainReg, SensorOf!Clamped, SensorOf!Byte
<1>3. s = <<W(55296, 0, 1), W(53821, 0, 1), W(53938, 1, 1), W(53940, c.exposure, 2),
            W(53870, gain, 1), W(58880, 8, 1), W(58881, 0, 1),
            W(53856, level, 2), W(53799, 0, 1), W(53976, c.speed, 1)>>
  BY <1>2 DEF SensorOf!AeLimits
<1>4. AeLimitsBytes(c) = 
        One(55296, 0) \union One(53821, 0) \union One(53938, 1) \union Two(53940, c.exposure)
        \union One(53870, gain) \union One(58880, 8) \union One(58881, 0)
        \union Two(53856, level) \union One(53799, 0) \union One(53976, c.speed)
  BY DEF AeLimitsBytes
<1>. HIDE DEF W, gain, level, s
<1>5. \A a, v \in Nat : /\ W(a, v, 1) \in Pieces /\ W(a, v, 2) \in Pieces
                        /\ Of(W(a, v, 1)) = One(a, v) /\ Of(W(a, v, 2)) = Two(a, v)
  BY AnyWrite, OfOne, OfTwo DEF W, One, Two
<1>6. /\ W(55296, 0, 1) \in Pieces /\ W(53821, 0, 1) \in Pieces /\ W(53938, 1, 1) \in Pieces
      /\ W(53940, c.exposure, 2) \in Pieces /\ W(53870, gain, 1) \in Pieces
      /\ W(58880, 8, 1) \in Pieces /\ W(58881, 0, 1) \in Pieces /\ W(53856, level, 2) \in Pieces
      /\ W(53799, 0, 1) \in Pieces /\ W(53976, c.speed, 1) \in Pieces
  BY <1>1, <1>5
<1>7. s \in Seq(Pieces)
  BY <1>3, <1>6
<1>8. /\ Of(W(55296, 0, 1)) = One(55296, 0) /\ Of(W(53821, 0, 1)) = One(53821, 0)
      /\ Of(W(53938, 1, 1)) = One(53938, 1) /\ Of(W(53940, c.exposure, 2)) = Two(53940, c.exposure)
      /\ Of(W(53870, gain, 1)) = One(53870, gain)
      /\ Of(W(58880, 8, 1)) = One(58880, 8) /\ Of(W(58881, 0, 1)) = One(58881, 0)
      /\ Of(W(53856, level, 2)) = Two(53856, level)
      /\ Of(W(53799, 0, 1)) = One(53799, 0) /\ Of(W(53976, c.speed, 1)) = One(53976, c.speed)
  BY <1>1, <1>5
<1>9. In(s) = AeLimitsBytes(c)
  BY <1>3, <1>4, <1>8, InTen
<1>. QED
  BY <1>7, <1>9 DEF s

AeRegionBytes(c) ==
  One(53800, 1) \union One(53801, 255) \union Two(58972, c.roi.top) \union Two(58974, c.roi.left)
  \union Two(58976, c.roi.height) \union Two(58978, c.roi.width) \union Two(53802, c.brightness * 160)

AeWholeBytes == One(53800, 0) \union One(53801, 0) \union Two(53836, 450) \union Two(53838, 434)

LEMMA InSeven ==
  ASSUME NEW a, NEW b, NEW c, NEW d, NEW e, NEW f, NEW g
  PROVE  In(<<a, b, c, d, e, f, g>>) =
           Of(a) \union Of(b) \union Of(c) \union Of(d) \union Of(e) \union Of(f) \union Of(g)
BY DEF In

LEMMA InFour ==
  ASSUME NEW a, NEW b, NEW c, NEW d
  PROVE  In(<<a, b, c, d>>) = Of(a) \union Of(b) \union Of(c) \union Of(d)
BY DEF In

LEMMA AeRegionIn ==
  ASSUME NEW aes, NEW wbs, NEW values, NEW mc, NEW mf, NEW c \in AeSane
  PROVE  /\ SensorOf(aes, wbs, values, mc, mf)!AeRegion(c) \in Seq(Pieces)
         /\ In(SensorOf(aes, wbs, values, mc, mf)!AeRegion(c)) = AeRegionBytes(c)
<1>. DEFINE W(a, v, n) == SensorOf(aes, wbs, values, mc, mf)!W(a, v, n)
            level == c.brightness * 160
            s == SensorOf(aes, wbs, values, mc, mf)!AeRegion(c)
<1>1. /\ c.roi.top \in Nat /\ c.roi.left \in Nat /\ c.roi.height \in Nat /\ c.roi.width \in Nat
      /\ level \in Nat
  BY AeNumbers
<1>2. s = <<W(53800, 1, 1), W(53801, 255, 1), W(58972, c.roi.top, 2), W(58974, c.roi.left, 2),
            W(58976, c.roi.height, 2), W(58978, c.roi.width, 2), W(53802, level, 2)>>
  BY DEF SensorOf!AeRegion
<1>3. AeRegionBytes(c) =
        One(53800, 1) \union One(53801, 255) \union Two(58972, c.roi.top) \union Two(58974, c.roi.left)
        \union Two(58976, c.roi.height) \union Two(58978, c.roi.width) \union Two(53802, level)
  BY DEF AeRegionBytes
<1>. HIDE DEF W, level, s
<1>4. \A a, v \in Nat : /\ W(a, v, 1) \in Pieces /\ W(a, v, 2) \in Pieces
                        /\ Of(W(a, v, 1)) = One(a, v) /\ Of(W(a, v, 2)) = Two(a, v)
  BY AnyWrite, OfOne, OfTwo DEF W, One, Two
<1>5. /\ W(53800, 1, 1) \in Pieces /\ W(53801, 255, 1) \in Pieces /\ W(58972, c.roi.top, 2) \in Pieces
      /\ W(58974, c.roi.left, 2) \in Pieces /\ W(58976, c.roi.height, 2) \in Pieces
      /\ W(58978, c.roi.width, 2) \in Pieces /\ W(53802, level, 2) \in Pieces
  BY <1>1, <1>4
<1>6. /\ Of(W(53800, 1, 1)) = One(53800, 1) /\ Of(W(53801, 255, 1)) = One(53801, 255)
      /\ Of(W(58972, c.roi.top, 2)) = Two(58972, c.roi.top)
      /\ Of(W(58974, c.roi.left, 2)) = Two(58974, c.roi.left)
      /\ Of(W(58976, c.roi.height, 2)) = Two(58976, c.roi.height)
      /\ Of(W(58978, c.roi.width, 2)) = Two(58978, c.roi.width)
      /\ Of(W(53802, level, 2)) = Two(53802, level)
  BY <1>1, <1>4
<1>7. s \in Seq(Pieces)
  BY <1>2, <1>5
<1>8. In(s) = AeRegionBytes(c)
  BY <1>2, <1>3, <1>6, InSeven
<1>. QED
  BY <1>7, <1>8 DEF s

LEMMA AeWholeFrameIn ==
  ASSUME NEW aes, NEW wbs, NEW values, NEW mc, NEW mf
  PROVE  /\ SensorOf(aes, wbs, values, mc, mf)!AeWholeFrame \in Seq(Pieces)
         /\ In(SensorOf(aes, wbs, values, mc, mf)!AeWholeFrame) = AeWholeBytes
<1>. DEFINE W(a, v, n) == SensorOf(aes, wbs, values, mc, mf)!W(a, v, n)
            s == SensorOf(aes, wbs, values, mc, mf)!AeWholeFrame
<1>1. s = <<W(53800, 0, 1), W(53801, 0, 1), W(53836, 450, 2), W(53838, 434, 2)>>
  BY DEF SensorOf!AeWholeFrame
<1>. HIDE DEF W, s
<1>2. \A a, v \in Nat : /\ W(a, v, 1) \in Pieces /\ W(a, v, 2) \in Pieces
                        /\ Of(W(a, v, 1)) = One(a, v) /\ Of(W(a, v, 2)) = Two(a, v)
  BY AnyWrite, OfOne, OfTwo DEF W, One, Two
<1>3. /\ W(53800, 0, 1) \in Pieces /\ W(53801, 0, 1) \in Pieces /\ W(53836, 450, 2) \in Pieces
      /\ W(53838, 434, 2) \in Pieces
  BY <1>2
<1>4. /\ Of(W(53800, 0, 1)) = One(53800, 0) /\ Of(W(53801, 0, 1)) = One(53801, 0)
      /\ Of(W(53836, 450, 2)) = Two(53836, 450) /\ Of(W(53838, 434, 2)) = Two(53838, 434)
  BY <1>2
<1>5. s \in Seq(Pieces)
  BY <1>1, <1>3
<1>6. In(s) = AeWholeBytes
  BY <1>1, <1>4, InFour DEF AeWholeBytes
<1>. QED
  BY <1>5, <1>6 DEF s

AeParts(c) == AeLimitsBytes(c) \union IF c.has_roi THEN AeRegionBytes(c) ELSE AeWholeBytes

LEMMA AeWritesIn ==
  ASSUME NEW aes, NEW wbs, NEW values, NEW mc, NEW mf, NEW c \in AeSane
  PROVE  /\ SensorOf(aes, wbs, values, mc, mf)!AeWrites(c) \in Seq(Pieces)
         /\ In(SensorOf(aes, wbs, values, mc, mf)!AeWrites(c)) = AeParts(c)
<1>. DEFINE s == SensorOf(aes, wbs, values, mc, mf)!AeLimits(c)
            t == SensorOf(aes, wbs, values, mc, mf)!AeRegion(c)
            u == SensorOf(aes, wbs, values, mc, mf)!AeWholeFrame
            x == IF c.has_roi THEN t ELSE u
            y == IF c.has_roi THEN AeRegionBytes(c) ELSE AeWholeBytes
<1>1. /\ s \in Seq(Pieces) /\ In(s) = AeLimitsBytes(c)
      /\ t \in Seq(Pieces) /\ In(t) = AeRegionBytes(c)
      /\ u \in Seq(Pieces) /\ In(u) = AeWholeBytes
  BY AeLimitsIn, AeRegionIn, AeWholeFrameIn
<1>2. SensorOf(aes, wbs, values, mc, mf)!AeWrites(c) = s \o x
  BY DEF SensorOf!AeWrites
<1>3. AeParts(c) = AeLimitsBytes(c) \union y
  BY DEF AeParts
<1>4. x \in Seq(Pieces) /\ In(x) = y
  BY <1>1
<1>. HIDE DEF s, t, u, x, y, Pieces
<1>5. s \o x \in Seq(Pieces) /\ In(s \o x) = In(s) \union In(x)
  BY <1>1, <1>4, ConcatProperties, InBoth
<1>. QED
  BY <1>1, <1>2, <1>3, <1>4, <1>5

\* The registers of a setting, and what each is to have
AeLimitsAt == {55296, 53821, 53938, 53940, 53941, 53870, 58880, 58881, 53856, 53857, 53799, 53976}
AeRegionAt == {53800, 53801, 53802, 53803, 58972, 58973, 58974, 58975, 58976, 58977, 58978, 58979}
AeWholeAt  == {53800, 53801, 53836, 53837, 53838, 53839}
AeAt(c)    == AeLimitsAt \union IF c.has_roi THEN AeRegionAt ELSE AeWholeAt

AeOf(c, a) ==
  CASE a = 55296 -> Low(0) [] a = 53821 -> Low(0) [] a = 53938 -> Low(1)
    [] a = 53940 -> High(c.exposure) [] a = 53941 -> Low(c.exposure)
    [] a = 53870 -> Low((c.gain * 10) \div 3) [] a = 58880 -> Low(8) [] a = 58881 -> Low(0)
    [] a = 53856 -> High(c.brightness * 160) [] a = 53857 -> Low(c.brightness * 160)
    [] a = 53799 -> Low(0) [] a = 53976 -> Low(c.speed)
    [] a = 53800 -> IF c.has_roi THEN Low(1) ELSE Low(0)
    [] a = 53801 -> IF c.has_roi THEN Low(255) ELSE Low(0)
    [] a = 53802 -> High(c.brightness * 160) [] a = 53803 -> Low(c.brightness * 160)
    [] a = 58972 -> High(c.roi.top) [] a = 58973 -> Low(c.roi.top)
    [] a = 58974 -> High(c.roi.left) [] a = 58975 -> Low(c.roi.left)
    [] a = 58976 -> High(c.roi.height) [] a = 58977 -> Low(c.roi.height)
    [] a = 58978 -> High(c.roi.width) [] a = 58979 -> Low(c.roi.width)
    [] a = 53836 -> High(450) [] a = 53837 -> Low(450)
    [] a = 53838 -> High(434) [] a = 53839 -> Low(434)

LEMMA AeLimitsValues ==
  ASSUME NEW c, NEW b \in AeLimitsBytes(c)
  PROVE  \E a \in AeLimitsAt : b = Byte(a, AeOf(c, a))
<1>. DEFINE F(a) == AeOf(c, a)
<1>1. /\ F(55296) = Low(0) /\ F(53821) = Low(0) /\ F(53938) = Low(1)
      /\ F(53940) = High(c.exposure) /\ F(53941) = Low(c.exposure)
      /\ F(53870) = Low((c.gain * 10) \div 3) /\ F(58880) = Low(8) /\ F(58881) = Low(0)
      /\ F(53856) = High(c.brightness * 160) /\ F(53857) = Low(c.brightness * 160)
      /\ F(53799) = Low(0) /\ F(53976) = Low(c.speed)
  BY DEF AeOf
<1>. HIDE DEF F
<1>2. \/ b = Byte(55296, F(55296)) \/ b = Byte(53821, F(53821)) \/ b = Byte(53938, F(53938))
      \/ b = Byte(53940, F(53940)) \/ b = Byte(53941, F(53941)) \/ b = Byte(53870, F(53870))
      \/ b = Byte(58880, F(58880)) \/ b = Byte(58881, F(58881)) \/ b = Byte(53856, F(53856))
      \/ b = Byte(53857, F(53857)) \/ b = Byte(53799, F(53799)) \/ b = Byte(53976, F(53976))
  BY <1>1 DEF AeLimitsBytes, One, Two
<1>3. \E a \in AeLimitsAt : b = Byte(a, F(a))
  BY <1>2 DEF AeLimitsAt
<1>. QED
  BY <1>3 DEF F

LEMMA AeRegionValues ==
  ASSUME NEW c, c.has_roi, NEW b \in AeRegionBytes(c)
  PROVE  \E a \in AeRegionAt : b = Byte(a, AeOf(c, a))
<1>. DEFINE F(a) == AeOf(c, a)
<1>1. /\ F(53800) = Low(1) /\ F(53801) = Low(255) /\ F(53802) = High(c.brightness * 160)
      /\ F(53803) = Low(c.brightness * 160)
      /\ F(58972) = High(c.roi.top) /\ F(58973) = Low(c.roi.top)
      /\ F(58974) = High(c.roi.left) /\ F(58975) = Low(c.roi.left)
      /\ F(58976) = High(c.roi.height) /\ F(58977) = Low(c.roi.height)
      /\ F(58978) = High(c.roi.width) /\ F(58979) = Low(c.roi.width)
  BY DEF AeOf
<1>. HIDE DEF F
<1>2. \/ b = Byte(53800, F(53800)) \/ b = Byte(53801, F(53801)) \/ b = Byte(53802, F(53802))
      \/ b = Byte(53803, F(53803)) \/ b = Byte(58972, F(58972)) \/ b = Byte(58973, F(58973))
      \/ b = Byte(58974, F(58974)) \/ b = Byte(58975, F(58975)) \/ b = Byte(58976, F(58976))
      \/ b = Byte(58977, F(58977)) \/ b = Byte(58978, F(58978)) \/ b = Byte(58979, F(58979))
  BY <1>1 DEF AeRegionBytes, One, Two
<1>3. \E a \in AeRegionAt : b = Byte(a, F(a))
  BY <1>2 DEF AeRegionAt
<1>. QED
  BY <1>3 DEF F

LEMMA AeWholeValues ==
  ASSUME NEW c, ~c.has_roi, NEW b \in AeWholeBytes
  PROVE  \E a \in AeWholeAt : b = Byte(a, AeOf(c, a))
<1>. DEFINE F(a) == AeOf(c, a)
<1>1. /\ F(53800) = Low(0) /\ F(53801) = Low(0) /\ F(53836) = High(450) /\ F(53837) = Low(450)
      /\ F(53838) = High(434) /\ F(53839) = Low(434)
  BY DEF AeOf
<1>. HIDE DEF F
<1>2. \/ b = Byte(53800, F(53800)) \/ b = Byte(53801, F(53801)) \/ b = Byte(53836, F(53836))
      \/ b = Byte(53837, F(53837)) \/ b = Byte(53838, F(53838)) \/ b = Byte(53839, F(53839))
  BY <1>1 DEF AeWholeBytes, One, Two
<1>3. \E a \in AeWholeAt : b = Byte(a, F(a))
  BY <1>2 DEF AeWholeAt
<1>. QED
  BY <1>3 DEF F

\* No register of a configuration is given two values.
LEMMA AeValues ==
  ASSUME NEW c, NEW b \in AeParts(c)
  PROVE  b.at \in AeAt(c) /\ b.val = AeOf(c, b.at)
<1>1. \E a \in AeAt(c) : b = Byte(a, AeOf(c, a))
  BY AeLimitsValues, AeRegionValues, AeWholeValues DEF AeParts, AeAt
<1>. QED
  BY <1>1 DEF Byte

\* The white balance
Units(v, block, unit) == ((((v + block - 1) \div block) * block) % 65536) \div unit

WbWide(c) == Units(c.roi.width, 32, 16)
WbTall(c) == Units(c.roi.height, 24, 12)
WbLeft(c) == Units(c.roi.left, 2, 1)
WbTop(c)  == Units(c.roi.top, 2, 1)

Red(p)  == CASE p = 3200 -> 4096 [] p = 4300 -> 2966 [] p = 5600 -> 3199 [] p = 6500 -> 3155
Blue(p) == CASE p = 3200 -> 4096 [] p = 4300 -> 6124 [] p = 5600 -> 5483 [] p = 6500 -> 5590

WbLimitsBytes ==
  Two(53292, 3570) \union Two(53294, 4188) \union Two(53296, 392) \union Two(53298, 649)
  \union Two(55300, 810) \union Two(55302, 256) \union Two(55304, 256) \union Two(55306, 460)

WbRegionBytes(c) ==
  One(58980, WbWide(c)) \union One(58981, WbTall(c)) \union Two(58992, WbLeft(c))
  \union Two(58994, WbTop(c)) \union One(58996, 1)

WbModeBytes(c) ==
  CASE c.mode = "auto" /\ c.has_roi  -> One(53820, 0) \union WbRegionBytes(c)
    [] c.mode = "auto" /\ ~c.has_roi -> One(53820, 0) \union One(58996, 0)
    [] c.mode = "one_push" -> One(53820, 2)
    [] c.mode = "preset"   -> One(53820, 4) \union Two(56864, Red(c.preset)) \union Two(56866, Blue(c.preset))

WbParts(c) == WbLimitsBytes \union WbModeBytes(c)

LEMMA InEight ==
  ASSUME NEW a, NEW b, NEW c, NEW d, NEW e, NEW f, NEW g, NEW h
  PROVE  In(<<a, b, c, d, e, f, g, h>>) =
           Of(a) \union Of(b) \union Of(c) \union Of(d) \union Of(e) \union Of(f) \union Of(g) \union Of(h)
BY DEF In

LEMMA InFive ==
  ASSUME NEW a, NEW b, NEW c, NEW d, NEW e
  PROVE  In(<<a, b, c, d, e>>) = Of(a) \union Of(b) \union Of(c) \union Of(d) \union Of(e)
BY DEF In

LEMMA InThree ==
  ASSUME NEW a, NEW b, NEW c
  PROVE  In(<<a, b, c>>) = Of(a) \union Of(b) \union Of(c)
BY DEF In

LEMMA InTwo ==
  ASSUME NEW a, NEW b
  PROVE  In(<<a, b>>) = Of(a) \union Of(b)
BY DEF In

LEMMA InOne ==
  ASSUME NEW a
  PROVE  In(<<a>>) = Of(a)
BY DEF In

\* Regions of the picture fit into the bytes they are given.
LEMMA WbNumbers ==
  ASSUME NEW c \in WbSane
  PROVE  /\ WbWide(c) \in Nat /\ WbWide(c) <= 255 /\ WbWide(c) * 16 >= c.roi.width
         /\ WbTall(c) \in Nat /\ WbTall(c) <= 255 /\ WbTall(c) * 12 >= c.roi.height
         /\ WbLeft(c) \in Nat /\ WbTop(c) \in Nat
         /\ Red(c.preset) \in Nat /\ Blue(c.preset) \in Nat
         /\ c.mode \in {"auto", "one_push", "preset"} /\ c.has_roi \in BOOLEAN
<1>1. c.roi \in Regions /\ InPicture(c.roi) /\ c.preset \in {3200, 4300, 5600, 6500}
      /\ c.mode \in {"auto", "one_push", "preset"} /\ c.has_roi \in BOOLEAN
  BY DEF WbSane
<1>. DEFINE r == c.roi
<1>2. Red(c.preset) \in Nat /\ Blue(c.preset) \in Nat
  <2>1. \A p \in {3200, 4300, 5600, 6500} : Red(p) \in Nat /\ Blue(p) \in Nat
    BY DEF Red, Blue
  <2>. QED
    BY <1>1, <2>1
<1>. HIDE DEF r
<1>3. r \in Regions /\ r.width <= 4056 /\ r.height <= 3040
  BY <1>1 DEF InPicture, r
<1>4. r.width \in Numbers /\ r.height \in Numbers /\ r.left \in Numbers /\ r.top \in Numbers
  BY <1>3 DEF Regions
<1>5. \A n \in Numbers : n \in Nat
  BY InSpan DEF Numbers
<1>6. \A v \in Nat : v <= 4056 => Units(v, 32, 16) \in Nat /\ Units(v, 32, 16) <= 255 /\ Units(v, 32, 16) * 16 >= v
  BY DEF Units
<1>7. \A v \in Nat : v <= 3040 => Units(v, 24, 12) \in Nat /\ Units(v, 24, 12) <= 255 /\ Units(v, 24, 12) * 12 >= v
  BY DEF Units
<1>8. \A v \in Nat : Units(v, 2, 1) \in Nat
  BY DEF Units
<1>9. WbWide(c) = Units(r.width, 32, 16) /\ WbTall(c) = Units(r.height, 24, 12)
      /\ WbLeft(c) = Units(r.left, 2, 1) /\ WbTop(c) = Units(r.top, 2, 1)
  BY DEF WbWide, WbTall, WbLeft, WbTop, r
<1>10. WbWide(c) \in Nat /\ WbWide(c) <= 255 /\ WbWide(c) * 16 >= r.width
  BY <1>3, <1>4, <1>5, <1>6, <1>9
<1>11. WbTall(c) \in Nat /\ WbTall(c) <= 255 /\ WbTall(c) * 12 >= r.height
  BY <1>3, <1>4, <1>5, <1>7, <1>9
<1>12. WbLeft(c) \in Nat /\ WbTop(c) \in Nat
  BY <1>4, <1>5, <1>8, <1>9
<1>. QED
  BY <1>1, <1>2, <1>10, <1>11, <1>12 DEF r

LEMMA WbLimitsIn ==
  ASSUME NEW aes, NEW wbs, NEW values, NEW mc, NEW mf
  PROVE  /\ SensorOf(aes, wbs, values, mc, mf)!WbLimits \in Seq(Pieces)
         /\ In(SensorOf(aes, wbs, values, mc, mf)!WbLimits) = WbLimitsBytes
<1>. DEFINE W(a, v, n) == SensorOf(aes, wbs, values, mc, mf)!W(a, v, n)
            s == SensorOf(aes, wbs, values, mc, mf)!WbLimits
<1>1. s = <<W(53292, 3570, 2), W(53294, 4188, 2), W(53296, 392, 2), W(53298, 649, 2),
            W(55300, 810, 2), W(55302, 256, 2), W(55304, 256, 2), W(55306, 460, 2)>>
  BY DEF SensorOf!WbLimits
<1>. HIDE DEF W, s
<1>2. \A a, v \in Nat : W(a, v, 2) \in Pieces /\ Of(W(a, v, 2)) = Two(a, v)
  BY AnyWrite, OfTwo DEF W, Two
<1>3. /\ W(53292, 3570, 2) \in Pieces /\ W(53294, 4188, 2) \in Pieces /\ W(53296, 392, 2) \in Pieces
      /\ W(53298, 649, 2) \in Pieces /\ W(55300, 810, 2) \in Pieces /\ W(55302, 256, 2) \in Pieces
      /\ W(55304, 256, 2) \in Pieces /\ W(55306, 460, 2) \in Pieces
  BY <1>2
<1>4. /\ Of(W(53292, 3570, 2)) = Two(53292, 3570) /\ Of(W(53294, 4188, 2)) = Two(53294, 4188)
      /\ Of(W(53296, 392, 2)) = Two(53296, 392) /\ Of(W(53298, 649, 2)) = Two(53298, 649)
      /\ Of(W(55300, 810, 2)) = Two(55300, 810) /\ Of(W(55302, 256, 2)) = Two(55302, 256)
      /\ Of(W(55304, 256, 2)) = Two(55304, 256) /\ Of(W(55306, 460, 2)) = Two(55306, 460)
  BY <1>2
<1>5. s \in Seq(Pieces)
  BY <1>1, <1>3
<1>6. In(s) = WbLimitsBytes
  BY <1>1, <1>4, InEight DEF WbLimitsBytes
<1>. QED
  BY <1>5, <1>6 DEF s

LEMMA WbRegionIn ==
  ASSUME NEW aes, NEW wbs, NEW values, NEW mc, NEW mf, NEW c \in WbSane
  PROVE  /\ SensorOf(aes, wbs, values, mc, mf)!WbRegion(c.roi) \in Seq(Pieces)
         /\ In(SensorOf(aes, wbs, values, mc, mf)!WbRegion(c.roi)) = WbRegionBytes(c)
<1>. DEFINE W(a, v, n) == SensorOf(aes, wbs, values, mc, mf)!W(a, v, n)
            s == SensorOf(aes, wbs, values, mc, mf)!WbRegion(c.roi)
            left == WbLeft(c)
            top == WbTop(c)
            wide == WbWide(c)
            tall == WbTall(c)
<1>1. wide \in Nat /\ tall \in Nat /\ left \in Nat /\ top \in Nat
  BY WbNumbers
<1>0. c.roi.left \in Int /\ c.roi.top \in Int
  <2>. DEFINE r == c.roi
  <2>1. r \in Regions
    BY DEF WbSane
  <2>. HIDE DEF r
  <2>2. r.left \in Numbers /\ r.top \in Numbers
    BY <2>1 DEF Regions
  <2>3. \A n \in Numbers : n \in Int
    BY InSpan DEF Numbers
  <2>4. r.left \in Int /\ r.top \in Int
    BY <2>2, <2>3
  <2>. QED
    BY <2>4 DEF r
<1>2. /\ SensorOf(aes, wbs, values, mc, mf)!AlignUp(c.roi.width, 32) \div 16 = wide
      /\ SensorOf(aes, wbs, values, mc, mf)!AlignUp(c.roi.height, 24) \div 12 = tall
  BY DEF SensorOf!AlignUp, SensorOf!Byte, WbWide, WbTall, Units
<1>3. /\ SensorOf(aes, wbs, values, mc, mf)!AlignUp(c.roi.left, 2) = left
      /\ SensorOf(aes, wbs, values, mc, mf)!AlignUp(c.roi.top, 2) = top
  BY <1>0 DEF SensorOf!AlignUp, SensorOf!Byte, WbLeft, WbTop, Units
<1>4. s = <<W(58980, wide, 1), W(58981, tall, 1), W(58992, left, 2), W(58994, top, 2), W(58996, 1, 1)>>
  BY <1>2, <1>3 DEF SensorOf!WbRegion
<1>5. WbRegionBytes(c) = One(58980, wide) \union One(58981, tall) \union Two(58992, left)
                         \union Two(58994, top) \union One(58996, 1)
  BY DEF WbRegionBytes
<1>. HIDE DEF W, s, left, top, wide, tall
<1>6. \A a, v \in Nat : /\ W(a, v, 1) \in Pieces /\ W(a, v, 2) \in Pieces
                        /\ Of(W(a, v, 1)) = One(a, v) /\ Of(W(a, v, 2)) = Two(a, v)
  BY AnyWrite, OfOne, OfTwo DEF W, One, Two
<1>7. /\ W(58980, wide, 1) \in Pieces /\ W(58981, tall, 1) \in Pieces /\ W(58992, left, 2) \in Pieces
      /\ W(58994, top, 2) \in Pieces /\ W(58996, 1, 1) \in Pieces
  BY <1>1, <1>6
<1>8. /\ Of(W(58980, wide, 1)) = One(58980, wide) /\ Of(W(58981, tall, 1)) = One(58981, tall)
      /\ Of(W(58992, left, 2)) = Two(58992, left) /\ Of(W(58994, top, 2)) = Two(58994, top)
      /\ Of(W(58996, 1, 1)) = One(58996, 1)
  BY <1>1, <1>6
<1>9. s \in Seq(Pieces)
  BY <1>4, <1>7
<1>10. In(s) = WbRegionBytes(c)
  BY <1>4, <1>5, <1>8, InFive
<1>. QED
  BY <1>9, <1>10 DEF s

LEMMA WbModeIn ==
  ASSUME NEW aes, NEW wbs, NEW values, NEW mc, NEW mf, NEW c \in WbSane
  PROVE  /\ SensorOf(aes, wbs, values, mc, mf)!WbMode(c) \in Seq(Pieces)
         /\ In(SensorOf(aes, wbs, values, mc, mf)!WbMode(c)) = WbModeBytes(c)
<1>. DEFINE W(a, v, n) == SensorOf(aes, wbs, values, mc, mf)!W(a, v, n)
            s == SensorOf(aes, wbs, values, mc, mf)!WbMode(c)
            t == SensorOf(aes, wbs, values, mc, mf)!WbRegion(c.roi)
            red == Red(c.preset)
            blue == Blue(c.preset)
            m == c.mode
<1>1. /\ red \in Nat /\ blue \in Nat /\ c.has_roi \in BOOLEAN
      /\ m \in {"auto", "one_push", "preset"}
  BY WbNumbers
<1>2. c.preset \in {3200, 4300, 5600, 6500}
  BY DEF WbSane
<1>3. /\ SensorOf(aes, wbs, values, mc, mf)!Presets[c.preset][1] = red
      /\ SensorOf(aes, wbs, values, mc, mf)!Presets[c.preset][2] = blue
  <2>. DEFINE P == SensorOf(aes, wbs, values, mc, mf)!Presets
  <2>1. /\ P[3200] = <<4096, 4096>> /\ P[4300] = <<2966, 6124>> /\ P[5600] = <<3199, 5483>>
        /\ P[6500] = <<3155, 5590>>
    BY DEF SensorOf!Presets
  <2>2. /\ Red(3200) = 4096 /\ Red(4300) = 2966 /\ Red(5600) = 3199 /\ Red(6500) = 3155
        /\ Blue(3200) = 4096 /\ Blue(4300) = 6124 /\ Blue(5600) = 5483 /\ Blue(6500) = 5590
    BY DEF Red, Blue
  <2>. HIDE DEF P
  <2>3. P[c.preset][1] = Red(c.preset) /\ P[c.preset][2] = Blue(c.preset)
    BY <1>2, <2>1, <2>2
  <2>. QED
    BY <2>3 DEF P
<1>4. /\ m = "auto" /\ c.has_roi  => s = <<W(53820, 0, 1)>> \o t
      /\ m = "auto" /\ ~c.has_roi => s = <<W(53820, 0, 1), W(58996, 0, 1)>>
      /\ m = "one_push" => s = <<W(53820, 2, 1)>>
      /\ m = "preset"   => s = <<W(53820, 4, 1), W(56864, red, 2), W(56866, blue, 2)>>
  BY <1>1, <1>3 DEF SensorOf!WbMode
<1>5. /\ m = "auto" /\ c.has_roi  => WbModeBytes(c) = One(53820, 0) \union WbRegionBytes(c)
      /\ m = "auto" /\ ~c.has_roi => WbModeBytes(c) = One(53820, 0) \union One(58996, 0)
      /\ m = "one_push" => WbModeBytes(c) = One(53820, 2)
      /\ m = "preset"   => WbModeBytes(c) = One(53820, 4) \union Two(56864, red) \union Two(56866, blue)
  BY <1>1 DEF WbModeBytes
<1>6. t \in Seq(Pieces) /\ In(t) = WbRegionBytes(c)
  BY WbRegionIn
<1>. HIDE DEF W, s, t, red, blue, m
<1>7. \A a, v \in Nat : /\ W(a, v, 1) \in Pieces /\ W(a, v, 2) \in Pieces
                        /\ Of(W(a, v, 1)) = One(a, v) /\ Of(W(a, v, 2)) = Two(a, v)
  BY AnyWrite, OfOne, OfTwo DEF W, One, Two
<1>8. /\ W(53820, 0, 1) \in Pieces /\ W(58996, 0, 1) \in Pieces /\ W(53820, 2, 1) \in Pieces
      /\ W(53820, 4, 1) \in Pieces /\ W(56864, red, 2) \in Pieces /\ W(56866, blue, 2) \in Pieces
  BY <1>1, <1>7
<1>9. /\ Of(W(53820, 0, 1)) = One(53820, 0) /\ Of(W(58996, 0, 1)) = One(58996, 0)
      /\ Of(W(53820, 2, 1)) = One(53820, 2) /\ Of(W(53820, 4, 1)) = One(53820, 4)
      /\ Of(W(56864, red, 2)) = Two(56864, red) /\ Of(W(56866, blue, 2)) = Two(56866, blue)
  BY <1>1, <1>7
<1>10. s \in Seq(Pieces) /\ In(s) = WbModeBytes(c)
  <2>1. CASE m = "auto" /\ c.has_roi
    <3>. DEFINE u == <<W(53820, 0, 1)>>
    <3>1. u \in Seq(Pieces)
      BY <1>8
    <3>4. In(u) = One(53820, 0)
      BY <1>9, InOne
    <3>5. WbModeBytes(c) = One(53820, 0) \union WbRegionBytes(c)
      BY <1>5, <2>1
    <3>. HIDE DEF u, Pieces
    <3>2. u \o t \in Seq(Pieces) /\ In(u \o t) = In(u) \union In(t)
      BY <1>6, <3>1, ConcatProperties, InBoth
    <3>3. s = u \o t
      BY <1>4, <2>1 DEF u
    <3>. QED
      BY <1>6, <3>2, <3>3, <3>4, <3>5
  <2>2. CASE m = "auto" /\ ~c.has_roi
    <3>1. s = <<W(53820, 0, 1), W(58996, 0, 1)>> /\ WbModeBytes(c) = One(53820, 0) \union One(58996, 0)
      BY <1>4, <1>5, <2>2
    <3>2. s \in Seq(Pieces)
      BY <1>8, <3>1
    <3>3. In(s) = Of(W(53820, 0, 1)) \union Of(W(58996, 0, 1))
      BY <3>1, InTwo
    <3>. QED
      BY <1>9, <3>1, <3>2, <3>3
  <2>3. CASE m = "one_push"
    <3>1. s = <<W(53820, 2, 1)>> /\ WbModeBytes(c) = One(53820, 2)
      BY <1>4, <1>5, <2>3
    <3>2. s \in Seq(Pieces)
      BY <1>8, <3>1
    <3>3. In(s) = Of(W(53820, 2, 1))
      BY <3>1, InOne
    <3>. QED
      BY <1>9, <3>1, <3>2, <3>3
  <2>4. CASE m = "preset"
    <3>1. /\ s = <<W(53820, 4, 1), W(56864, red, 2), W(56866, blue, 2)>>
          /\ WbModeBytes(c) = One(53820, 4) \union Two(56864, red) \union Two(56866, blue)
      BY <1>4, <1>5, <2>4
    <3>. QED
      BY <1>8, <1>9, <3>1, InThree
  <2>. QED
    BY <1>1, <2>1, <2>2, <2>3, <2>4
<1>. QED
  BY <1>10 DEF s

LEMMA WbWritesIn ==
  ASSUME NEW aes, NEW wbs, NEW values, NEW mc, NEW mf, NEW c \in WbSane
  PROVE  /\ SensorOf(aes, wbs, values, mc, mf)!WbWrites(c) \in Seq(Pieces)
         /\ In(SensorOf(aes, wbs, values, mc, mf)!WbWrites(c)) = WbParts(c)
<1>. DEFINE s == SensorOf(aes, wbs, values, mc, mf)!WbLimits
            t == SensorOf(aes, wbs, values, mc, mf)!WbMode(c)
<1>1. s \in Seq(Pieces) /\ In(s) = WbLimitsBytes /\ t \in Seq(Pieces) /\ In(t) = WbModeBytes(c)
  BY WbLimitsIn, WbModeIn
<1>2. SensorOf(aes, wbs, values, mc, mf)!WbWrites(c) = s \o t
  BY DEF SensorOf!WbWrites
<1>. HIDE DEF s, t, Pieces
<1>3. s \o t \in Seq(Pieces) /\ In(s \o t) = In(s) \union In(t)
  BY <1>1, ConcatProperties, InBoth
<1>. QED
  BY <1>1, <1>2, <1>3 DEF WbParts

WbLimitsAt == {53292, 53293, 53294, 53295, 53296, 53297, 53298, 53299,
               55300, 55301, 55302, 55303, 55304, 55305, 55306, 55307}
WbModeAt(c) ==
  {53820} \union (CASE c.mode = "auto" /\ c.has_roi -> {58980, 58981, 58992, 58993, 58994, 58995, 58996}
                    [] c.mode = "auto" /\ ~c.has_roi -> {58996}
                    [] c.mode = "one_push" -> {}
                    [] c.mode = "preset" -> {56864, 56865, 56866, 56867})
WbAt(c) == WbLimitsAt \union WbModeAt(c)

WbOf(c, a) ==
  CASE a = 53292 -> High(3570) [] a = 53293 -> Low(3570) [] a = 53294 -> High(4188) [] a = 53295 -> Low(4188)
    [] a = 53296 -> High(392) [] a = 53297 -> Low(392) [] a = 53298 -> High(649) [] a = 53299 -> Low(649)
    [] a = 55300 -> High(810) [] a = 55301 -> Low(810) [] a = 55302 -> High(256) [] a = 55303 -> Low(256)
    [] a = 55304 -> High(256) [] a = 55305 -> Low(256) [] a = 55306 -> High(460) [] a = 55307 -> Low(460)
    [] a = 53820 -> (CASE c.mode = "auto" -> Low(0) [] c.mode = "one_push" -> Low(2)
                       [] c.mode = "preset" -> Low(4))
    [] a = 58980 -> Low(WbWide(c)) [] a = 58981 -> Low(WbTall(c))
    [] a = 58992 -> High(WbLeft(c)) [] a = 58993 -> Low(WbLeft(c))
    [] a = 58994 -> High(WbTop(c)) [] a = 58995 -> Low(WbTop(c))
    [] a = 58996 -> IF c.has_roi THEN Low(1) ELSE Low(0)
    [] a = 56864 -> High(Red(c.preset)) [] a = 56865 -> Low(Red(c.preset))
    [] a = 56866 -> High(Blue(c.preset)) [] a = 56867 -> Low(Blue(c.preset))

LEMMA WbLimitsValues ==
  ASSUME NEW c, NEW b \in WbLimitsBytes
  PROVE  \E a \in WbLimitsAt : b = Byte(a, WbOf(c, a))
<1>. DEFINE F(a) == WbOf(c, a)
<1>1. /\ F(53292) = High(3570) /\ F(53293) = Low(3570) /\ F(53294) = High(4188) /\ F(53295) = Low(4188)
      /\ F(53296) = High(392) /\ F(53297) = Low(392) /\ F(53298) = High(649) /\ F(53299) = Low(649)
      /\ F(55300) = High(810) /\ F(55301) = Low(810) /\ F(55302) = High(256) /\ F(55303) = Low(256)
      /\ F(55304) = High(256) /\ F(55305) = Low(256) /\ F(55306) = High(460) /\ F(55307) = Low(460)
  BY DEF WbOf
<1>. HIDE DEF F
<1>2. \/ b = Byte(53292, F(53292)) \/ b = Byte(53293, F(53293)) \/ b = Byte(53294, F(53294))
      \/ b = Byte(53295, F(53295)) \/ b = Byte(53296, F(53296)) \/ b = Byte(53297, F(53297))
      \/ b = Byte(53298, F(53298)) \/ b = Byte(53299, F(53299)) \/ b = Byte(55300, F(55300))
      \/ b = Byte(55301, F(55301)) \/ b = Byte(55302, F(55302)) \/ b = Byte(55303, F(55303))
      \/ b = Byte(55304, F(55304)) \/ b = Byte(55305, F(55305)) \/ b = Byte(55306, F(55306))
      \/ b = Byte(55307, F(55307))
  BY <1>1 DEF WbLimitsBytes, Two
<1>3. \E a \in WbLimitsAt : b = Byte(a, F(a))
  BY <1>2 DEF WbLimitsAt
<1>. QED
  BY <1>3 DEF F

LEMMA WbModeValues ==
  ASSUME NEW c, c.mode \in {"auto", "one_push", "preset"}, c.has_roi \in BOOLEAN, NEW b \in WbModeBytes(c)
  PROVE  \E a \in WbModeAt(c) : b = Byte(a, WbOf(c, a))
<1>. DEFINE F(a) == WbOf(c, a)
<1>1. F(53820) = CASE c.mode = "auto" -> Low(0) [] c.mode = "one_push" -> Low(2) [] c.mode = "preset" -> Low(4)
  BY DEF WbOf
<1>2. /\ F(58980) = Low(WbWide(c)) /\ F(58981) = Low(WbTall(c))
      /\ F(58992) = High(WbLeft(c)) /\ F(58993) = Low(WbLeft(c))
      /\ F(58994) = High(WbTop(c)) /\ F(58995) = Low(WbTop(c))
      /\ F(58996) = IF c.has_roi THEN Low(1) ELSE Low(0)
      /\ F(56864) = High(Red(c.preset)) /\ F(56865) = Low(Red(c.preset))
      /\ F(56866) = High(Blue(c.preset)) /\ F(56867) = Low(Blue(c.preset))
  BY DEF WbOf
<1>. HIDE DEF F
<1>3. CASE c.mode = "auto" /\ c.has_roi
  <2>1. WbModeBytes(c) = One(53820, 0) \union WbRegionBytes(c)
    BY <1>3 DEF WbModeBytes
  <2>2. WbModeAt(c) = {53820, 58980, 58981, 58992, 58993, 58994, 58995, 58996}
    BY <1>3 DEF WbModeAt
  <2>3. F(53820) = Low(0) /\ F(58996) = Low(1)
    BY <1>1, <1>2, <1>3
  <2>4. \/ b = Byte(53820, F(53820)) \/ b = Byte(58980, F(58980)) \/ b = Byte(58981, F(58981))
        \/ b = Byte(58992, F(58992)) \/ b = Byte(58993, F(58993)) \/ b = Byte(58994, F(58994))
        \/ b = Byte(58995, F(58995)) \/ b = Byte(58996, F(58996))
    BY <1>2, <2>1, <2>3 DEF WbRegionBytes, One, Two
  <2>5. \E a \in WbModeAt(c) : b = Byte(a, F(a))
    BY <2>2, <2>4
  <2>. QED
    BY <2>5 DEF F
<1>4. CASE c.mode = "auto" /\ ~c.has_roi
  <2>1. WbModeBytes(c) = One(53820, 0) \union One(58996, 0)
    BY <1>4 DEF WbModeBytes
  <2>2. WbModeAt(c) = {53820, 58996}
    BY <1>4 DEF WbModeAt
  <2>3. F(53820) = Low(0) /\ F(58996) = Low(0)
    BY <1>1, <1>2, <1>4
  <2>4. b = Byte(53820, F(53820)) \/ b = Byte(58996, F(58996))
    BY <2>1, <2>3 DEF One
  <2>5. \E a \in WbModeAt(c) : b = Byte(a, F(a))
    BY <2>2, <2>4
  <2>. QED
    BY <2>5 DEF F
<1>5. CASE c.mode = "one_push"
  <2>1. WbModeBytes(c) = One(53820, 2) /\ WbModeAt(c) = {53820}
    BY <1>5 DEF WbModeBytes, WbModeAt
  <2>2. F(53820) = Low(2)
    BY <1>1, <1>5
  <2>3. \E a \in WbModeAt(c) : b = Byte(a, F(a))
    BY <2>1, <2>2 DEF One
  <2>. QED
    BY <2>3 DEF F
<1>6. CASE c.mode = "preset"
  <2>1. WbModeBytes(c) = One(53820, 4) \union Two(56864, Red(c.preset)) \union Two(56866, Blue(c.preset))
    BY <1>6 DEF WbModeBytes
  <2>2. WbModeAt(c) = {53820, 56864, 56865, 56866, 56867}
    BY <1>6 DEF WbModeAt
  <2>3. F(53820) = Low(4)
    BY <1>1, <1>6
  <2>4. \/ b = Byte(53820, F(53820)) \/ b = Byte(56864, F(56864)) \/ b = Byte(56865, F(56865))
        \/ b = Byte(56866, F(56866)) \/ b = Byte(56867, F(56867))
    BY <1>2, <2>1, <2>3 DEF One, Two
  <2>5. \E a \in WbModeAt(c) : b = Byte(a, F(a))
    BY <2>2, <2>4
  <2>. QED
    BY <2>5 DEF F
<1>. QED
  BY <1>3, <1>4, <1>5, <1>6

LEMMA WbValues ==
  ASSUME NEW c \in WbSane, NEW b \in WbParts(c)
  PROVE  b.at \in WbAt(c) /\ b.val = WbOf(c, b.at)
<1>1. c.mode \in {"auto", "one_push", "preset"} /\ c.has_roi \in BOOLEAN
  BY DEF WbSane
<1>2. \E a \in WbAt(c) : b = Byte(a, WbOf(c, a))
  BY <1>1, WbLimitsValues, WbModeValues DEF WbParts, WbAt
<1>. QED
  BY <1>2 DEF Byte

\* ... and each of its registers is given one.
LEMMA AeLimitsReached ==
  ASSUME NEW c, NEW a \in AeLimitsAt
  PROVE  Byte(a, AeOf(c, a)) \in AeLimitsBytes(c)
<1>. DEFINE F(x) == AeOf(c, x)
<1>1. /\ F(55296) = Low(0) /\ F(53821) = Low(0) /\ F(53938) = Low(1)
      /\ F(53940) = High(c.exposure) /\ F(53941) = Low(c.exposure)
      /\ F(53870) = Low((c.gain * 10) \div 3) /\ F(58880) = Low(8) /\ F(58881) = Low(0)
      /\ F(53856) = High(c.brightness * 160) /\ F(53857) = Low(c.brightness * 160)
      /\ F(53799) = Low(0) /\ F(53976) = Low(c.speed)
  BY DEF AeOf
<1>. HIDE DEF F
<1>2. /\ Byte(55296, F(55296)) \in AeLimitsBytes(c) /\ Byte(53821, F(53821)) \in AeLimitsBytes(c) /\ Byte(53938, F(53938)) \in AeLimitsBytes(c)
      /\ Byte(53940, F(53940)) \in AeLimitsBytes(c) /\ Byte(53941, F(53941)) \in AeLimitsBytes(c) /\ Byte(53870, F(53870)) \in AeLimitsBytes(c)
      /\ Byte(58880, F(58880)) \in AeLimitsBytes(c) /\ Byte(58881, F(58881)) \in AeLimitsBytes(c) /\ Byte(53856, F(53856)) \in AeLimitsBytes(c)
      /\ Byte(53857, F(53857)) \in AeLimitsBytes(c) /\ Byte(53799, F(53799)) \in AeLimitsBytes(c) /\ Byte(53976, F(53976)) \in AeLimitsBytes(c)
  BY <1>1 DEF AeLimitsBytes, One, Two
<1>3. Byte(a, F(a)) \in AeLimitsBytes(c)
  BY <1>2 DEF AeLimitsAt
<1>. QED
  BY <1>3 DEF F

LEMMA AeRegionReached ==
  ASSUME NEW c, c.has_roi, NEW a \in AeRegionAt
  PROVE  Byte(a, AeOf(c, a)) \in AeRegionBytes(c)
<1>. DEFINE F(x) == AeOf(c, x)
<1>1. /\ F(53800) = Low(1) /\ F(53801) = Low(255) /\ F(53802) = High(c.brightness * 160)
      /\ F(53803) = Low(c.brightness * 160)
      /\ F(58972) = High(c.roi.top) /\ F(58973) = Low(c.roi.top)
      /\ F(58974) = High(c.roi.left) /\ F(58975) = Low(c.roi.left)
      /\ F(58976) = High(c.roi.height) /\ F(58977) = Low(c.roi.height)
      /\ F(58978) = High(c.roi.width) /\ F(58979) = Low(c.roi.width)
  BY DEF AeOf
<1>. HIDE DEF F
<1>2. /\ Byte(53800, F(53800)) \in AeRegionBytes(c) /\ Byte(53801, F(53801)) \in AeRegionBytes(c) /\ Byte(53802, F(53802)) \in AeRegionBytes(c)
      /\ Byte(53803, F(53803)) \in AeRegionBytes(c) /\ Byte(58972, F(58972)) \in AeRegionBytes(c) /\ Byte(58973, F(58973)) \in AeRegionBytes(c)
      /\ Byte(58974, F(58974)) \in AeRegionBytes(c) /\ Byte(58975, F(58975)) \in AeRegionBytes(c) /\ Byte(58976, F(58976)) \in AeRegionBytes(c)
      /\ Byte(58977, F(58977)) \in AeRegionBytes(c) /\ Byte(58978, F(58978)) \in AeRegionBytes(c) /\ Byte(58979, F(58979)) \in AeRegionBytes(c)
  BY <1>1 DEF AeRegionBytes, One, Two
<1>3. Byte(a, F(a)) \in AeRegionBytes(c)
  BY <1>2 DEF AeRegionAt
<1>. QED
  BY <1>3 DEF F

LEMMA AeWholeReached ==
  ASSUME NEW c, ~c.has_roi, NEW a \in AeWholeAt
  PROVE  Byte(a, AeOf(c, a)) \in AeWholeBytes
<1>. DEFINE F(x) == AeOf(c, x)
<1>1. /\ F(53800) = Low(0) /\ F(53801) = Low(0) /\ F(53836) = High(450) /\ F(53837) = Low(450)
      /\ F(53838) = High(434) /\ F(53839) = Low(434)
  BY DEF AeOf
<1>. HIDE DEF F
<1>2. /\ Byte(53800, F(53800)) \in AeWholeBytes /\ Byte(53801, F(53801)) \in AeWholeBytes /\ Byte(53836, F(53836)) \in AeWholeBytes
      /\ Byte(53837, F(53837)) \in AeWholeBytes /\ Byte(53838, F(53838)) \in AeWholeBytes /\ Byte(53839, F(53839)) \in AeWholeBytes
  BY <1>1 DEF AeWholeBytes, One, Two
<1>3. Byte(a, F(a)) \in AeWholeBytes
  BY <1>2 DEF AeWholeAt
<1>. QED
  BY <1>3 DEF F

LEMMA AeReached ==
  ASSUME NEW c, NEW a \in AeAt(c)
  PROVE  Byte(a, AeOf(c, a)) \in AeParts(c)
BY AeLimitsReached, AeRegionReached, AeWholeReached DEF AeParts, AeAt

LEMMA WbLimitsReached ==
  ASSUME NEW c, NEW a \in WbLimitsAt
  PROVE  Byte(a, WbOf(c, a)) \in WbLimitsBytes
<1>. DEFINE F(x) == WbOf(c, x)
<1>1. /\ F(53292) = High(3570) /\ F(53293) = Low(3570) /\ F(53294) = High(4188) /\ F(53295) = Low(4188)
      /\ F(53296) = High(392) /\ F(53297) = Low(392) /\ F(53298) = High(649) /\ F(53299) = Low(649)
      /\ F(55300) = High(810) /\ F(55301) = Low(810) /\ F(55302) = High(256) /\ F(55303) = Low(256)
      /\ F(55304) = High(256) /\ F(55305) = Low(256) /\ F(55306) = High(460) /\ F(55307) = Low(460)
  BY DEF WbOf
<1>. HIDE DEF F
<1>2. /\ Byte(53292, F(53292)) \in WbLimitsBytes /\ Byte(53293, F(53293)) \in WbLimitsBytes
      /\ Byte(53294, F(53294)) \in WbLimitsBytes /\ Byte(53295, F(53295)) \in WbLimitsBytes
      /\ Byte(53296, F(53296)) \in WbLimitsBytes /\ Byte(53297, F(53297)) \in WbLimitsBytes
      /\ Byte(53298, F(53298)) \in WbLimitsBytes /\ Byte(53299, F(53299)) \in WbLimitsBytes
  BY <1>1 DEF WbLimitsBytes, Two
<1>3. /\ Byte(55300, F(55300)) \in WbLimitsBytes /\ Byte(55301, F(55301)) \in WbLimitsBytes
      /\ Byte(55302, F(55302)) \in WbLimitsBytes /\ Byte(55303, F(55303)) \in WbLimitsBytes
      /\ Byte(55304, F(55304)) \in WbLimitsBytes /\ Byte(55305, F(55305)) \in WbLimitsBytes
      /\ Byte(55306, F(55306)) \in WbLimitsBytes /\ Byte(55307, F(55307)) \in WbLimitsBytes
  BY <1>1 DEF WbLimitsBytes, Two
<1>4. Byte(a, F(a)) \in WbLimitsBytes
  BY <1>2, <1>3 DEF WbLimitsAt
<1>. QED
  BY <1>4 DEF F

LEMMA WbModeReached ==
  ASSUME NEW c, c.mode \in {"auto", "one_push", "preset"}, c.has_roi \in BOOLEAN, NEW a \in WbModeAt(c)
  PROVE  Byte(a, WbOf(c, a)) \in WbModeBytes(c)
<1>. DEFINE F(x) == WbOf(c, x)
<1>1. F(53820) = CASE c.mode = "auto" -> Low(0) [] c.mode = "one_push" -> Low(2) [] c.mode = "preset" -> Low(4)
  BY DEF WbOf
<1>2. /\ F(58980) = Low(WbWide(c)) /\ F(58981) = Low(WbTall(c))
      /\ F(58992) = High(WbLeft(c)) /\ F(58993) = Low(WbLeft(c))
      /\ F(58994) = High(WbTop(c)) /\ F(58995) = Low(WbTop(c))
      /\ F(58996) = IF c.has_roi THEN Low(1) ELSE Low(0)
      /\ F(56864) = High(Red(c.preset)) /\ F(56865) = Low(Red(c.preset))
      /\ F(56866) = High(Blue(c.preset)) /\ F(56867) = Low(Blue(c.preset))
  BY DEF WbOf
<1>. HIDE DEF F
<1>3. CASE c.mode = "auto" /\ c.has_roi
  <2>1. WbModeBytes(c) = One(53820, 0) \union WbRegionBytes(c)
    BY <1>3 DEF WbModeBytes
  <2>2. WbModeAt(c) = {53820, 58980, 58981, 58992, 58993, 58994, 58995, 58996}
    BY <1>3 DEF WbModeAt
  <2>3. F(53820) = Low(0) /\ F(58996) = Low(1)
    BY <1>1, <1>2, <1>3
  <2>4. /\ Byte(53820, F(53820)) \in WbModeBytes(c) /\ Byte(58980, F(58980)) \in WbModeBytes(c) /\ Byte(58981, F(58981)) \in WbModeBytes(c)
        /\ Byte(58992, F(58992)) \in WbModeBytes(c) /\ Byte(58993, F(58993)) \in WbModeBytes(c) /\ Byte(58994, F(58994)) \in WbModeBytes(c)
        /\ Byte(58995, F(58995)) \in WbModeBytes(c) /\ Byte(58996, F(58996)) \in WbModeBytes(c)
    BY <1>2, <2>1, <2>3 DEF WbRegionBytes, One, Two
  <2>5. Byte(a, F(a)) \in WbModeBytes(c)
    BY <2>2, <2>4
  <2>. QED
    BY <2>5 DEF F
<1>4. CASE c.mode = "auto" /\ ~c.has_roi
  <2>1. WbModeBytes(c) = One(53820, 0) \union One(58996, 0)
    BY <1>4 DEF WbModeBytes
  <2>2. WbModeAt(c) = {53820, 58996}
    BY <1>4 DEF WbModeAt
  <2>3. F(53820) = Low(0) /\ F(58996) = Low(0)
    BY <1>1, <1>2, <1>4
  <2>4. Byte(53820, F(53820)) \in WbModeBytes(c) /\ Byte(58996, F(58996)) \in WbModeBytes(c)
    BY <2>1, <2>3 DEF One
  <2>5. Byte(a, F(a)) \in WbModeBytes(c)
    BY <2>2, <2>4
  <2>. QED
    BY <2>5 DEF F
<1>5. CASE c.mode = "one_push"
  <2>1. WbModeBytes(c) = One(53820, 2) /\ WbModeAt(c) = {53820}
    BY <1>5 DEF WbModeBytes, WbModeAt
  <2>2. F(53820) = Low(2)
    BY <1>1, <1>5
  <2>3. Byte(a, F(a)) \in WbModeBytes(c)
    BY <2>1, <2>2 DEF One
  <2>. QED
    BY <2>3 DEF F
<1>6. CASE c.mode = "preset"
  <2>1. WbModeBytes(c) = One(53820, 4) \union Two(56864, Red(c.preset)) \union Two(56866, Blue(c.preset))
    BY <1>6 DEF WbModeBytes
  <2>2. WbModeAt(c) = {53820, 56864, 56865, 56866, 56867}
    BY <1>6 DEF WbModeAt
  <2>3. F(53820) = Low(4)
    BY <1>1, <1>6
  <2>4. /\ Byte(53820, F(53820)) \in WbModeBytes(c) /\ Byte(56864, F(56864)) \in WbModeBytes(c) /\ Byte(56865, F(56865)) \in WbModeBytes(c)
        /\ Byte(56866, F(56866)) \in WbModeBytes(c) /\ Byte(56867, F(56867)) \in WbModeBytes(c)
    BY <1>2, <2>1, <2>3 DEF One, Two
  <2>5. Byte(a, F(a)) \in WbModeBytes(c)
    BY <2>2, <2>4
  <2>. QED
    BY <2>5 DEF F
<1>. QED
  BY <1>3, <1>4, <1>5, <1>6

LEMMA WbReached ==
  ASSUME NEW c \in WbSane, NEW a \in WbAt(c)
  PROVE  Byte(a, WbOf(c, a)) \in WbParts(c)
<1>1. c.mode \in {"auto", "one_push", "preset"} /\ c.has_roi \in BOOLEAN
  BY DEF WbSane
<1>. QED
  BY <1>1, WbLimitsReached, WbModeReached DEF WbParts, WbAt

-----------------------------------------------------------------------------
(* The three settings: what each may be, its registers and what they are    *)
(* to have                                                                  *)

Settings == {"ae", "wb", "spare"}

Staging(w) == CASE w = "ae" -> AeSane [] w = "wb" -> WbSane [] w = "spare" -> Values4

SpareAt == {4096, 4097, 4098, 4099}

SpareParts(v) == {Byte(4096, v[1]), Byte(4097, v[2]), Byte(4098, v[3]), Byte(4099, v[4])}

At(w, x) == CASE w = "ae" -> AeAt(x) [] w = "wb" -> WbAt(x) [] w = "spare" -> SpareAt

Due(w, x, a) == CASE w = "ae" -> AeOf(x, a) [] w = "wb" -> WbOf(x, a) [] w = "spare" -> x[a - 4095]

\* The bytes that are sent for setting w with value x
Parts(w, x) == CASE w = "ae" -> AeParts(x) [] w = "wb" -> WbParts(x) [] w = "spare" -> SpareParts(x)

LEMMA PartsDue ==
  ASSUME NEW w \in Settings, NEW x \in Staging(w)
  PROVE  /\ \A b \in Parts(w, x) : b.at \in At(w, x) /\ b.val = Due(w, x, b.at)
         /\ \A a \in At(w, x) : Byte(a, Due(w, x, a)) \in Parts(w, x)
<1>1. CASE w = "ae"
  <2>1. x \in AeSane /\ Parts(w, x) = AeParts(x) /\ At(w, x) = AeAt(x) /\ \A a : Due(w, x, a) = AeOf(x, a)
    BY <1>1 DEF Staging, Parts, At, Due
  <2>. QED
    BY <2>1, AeValues, AeReached
<1>2. CASE w = "wb"
  <2>1. x \in WbSane /\ Parts(w, x) = WbParts(x) /\ At(w, x) = WbAt(x) /\ \A a : Due(w, x, a) = WbOf(x, a)
    BY <1>2 DEF Staging, Parts, At, Due
  <2>. QED
    BY <2>1, WbValues, WbReached
<1>3. CASE w = "spare"
  <2>1. Parts(w, x) = SpareParts(x) /\ At(w, x) = SpareAt /\ \A a : Due(w, x, a) = x[a - 4095]
    BY <1>3 DEF Parts, At, Due
  <2>2. \A a \in SpareAt : Byte(a, x[a - 4095]) \in SpareParts(x)
    BY DEF SpareAt, SpareParts
  <2>3. \A b \in SpareParts(x) : b.at \in SpareAt /\ b.val = x[b.at - 4095]
    BY DEF SpareAt, SpareParts, Byte
  <2>. QED
    BY <2>1, <2>2, <2>3
<1>. QED
  BY <1>1, <1>2, <1>3 DEF Settings

AeAll == AeLimitsAt \union AeRegionAt \union AeWholeAt
WbAll == WbLimitsAt \union {53820, 58980, 58981, 58992, 58993, 58994, 58995, 58996,
                           56864, 56865, 56866, 56867}
AllAt == AeAll \union WbAll \union SpareAt

LEMMA AtWithin ==
  ASSUME NEW w \in Settings, NEW x \in Staging(w)
  PROVE  /\ w = "ae" => At(w, x) \subseteq AeAll
         /\ w = "wb" => At(w, x) \subseteq WbAll
         /\ w = "spare" => At(w, x) = SpareAt
<1>1. CASE w = "ae"
  BY <1>1 DEF At, AeAt, AeAll
<1>2. CASE w = "wb"
  <2>1. x.mode \in {"auto", "one_push", "preset"} /\ x.has_roi \in BOOLEAN
    BY <1>2 DEF Staging, WbSane
  <2>2. WbModeAt(x) \subseteq {53820, 58980, 58981, 58992, 58993, 58994, 58995, 58996, 56864, 56865, 56866, 56867}
    BY <2>1 DEF WbModeAt
  <2>. QED
    BY <1>2, <2>2 DEF At, WbAt, WbAll
<1>3. CASE w = "spare"
  BY <1>3 DEF At
<1>. QED
  BY <1>1, <1>2, <1>3 DEF Settings

\* No register is of two settings.
LEMMA Apart ==
  ASSUME NEW w \in Settings, NEW x \in Staging(w), NEW u \in Settings, NEW y \in Staging(u), w # u,
         NEW a \in At(w, x)
  PROVE  a \notin At(u, y)
<1>1. \A b \in AeAll : b \notin WbAll
  BY DEF AeAll, AeLimitsAt, AeRegionAt, AeWholeAt, WbAll, WbLimitsAt
<1>2. \A b \in AeAll : b \notin SpareAt
  BY DEF AeAll, AeLimitsAt, AeRegionAt, AeWholeAt, SpareAt
<1>3. \A b \in WbAll : b \notin SpareAt
  BY DEF WbAll, WbLimitsAt, SpareAt
<1>. QED
  BY <1>1, <1>2, <1>3, AtWithin DEF Settings

LEMMA AtAll ==
  ASSUME NEW w \in Settings, NEW x \in Staging(w)
  PROVE  At(w, x) \subseteq AllAt
BY AtWithin DEF Settings, AllAt


-----------------------------------------------------------------------------
(* A list of writes, byte by byte                                           *)

LEMMA OfHead ==
  ASSUME NEW S, NEW s \in Seq(S), s # <<>>
  PROVE  /\ Head(s) \in S /\ Tail(s) \in Seq(S) /\ Len(s) \in Nat /\ Len(s) >= 1
         /\ Of(s) = {Head(s)} \union Of(Tail(s))
         /\ Tail(s) = <<>> <=> Len(s) = 1
<1>. DEFINE n == Len(s)
            t == Tail(s)
<1>1. /\ n \in Nat /\ n >= 1 /\ Head(s) = s[1] /\ DOMAIN s = 1 .. n /\ s[1] \in S
      /\ t \in Seq(S) /\ Len(t) = n - 1 /\ DOMAIN t = 1 .. n - 1 /\ \A i \in 1 .. n - 1 : t[i] = s[i + 1]
  BY EmptySeq, HeadTailProperties, LenProperties, ElementOfSeq
<1>2. t = <<>> <=> n = 1
  <2>1. t = <<>> <=> Len(t) = 0
    BY <1>1, EmptySeq
  <2>. HIDE DEF n, t
  <2>. QED
    BY <1>1, <2>1
<1>. HIDE DEF n, t
<1>3. \A i \in 2 .. n : i - 1 \in 1 .. n - 1 /\ s[i] = t[i - 1]
  BY <1>1
<1>4. \A i \in 1 .. n - 1 : i + 1 \in 1 .. n /\ t[i] = s[i + 1]
  BY <1>1
<1>5. 1 \in 1 .. n /\ \A i \in 1 .. n : i = 1 \/ i \in 2 .. n
  BY <1>1
<1>6. Of(s) = {s[1]} \union Of(t)
  <2>1. Of(s) = {s[i] : i \in 1 .. n} /\ Of(t) = {t[i] : i \in 1 .. n - 1}
    BY <1>1 DEF Of
  <2>. QED
    BY <1>3, <1>4, <1>5, <2>1
<1>. QED
  BY <1>1, <1>2, <1>6 DEF n, t

LEMMA InHead ==
  ASSUME NEW S, NEW s \in Seq(S), s # <<>>
  PROVE  In(s) = Of(Head(s)) \union In(Tail(s))
<1>. DEFINE n == Len(s)
            t == Tail(s)
<1>1. /\ n \in Nat /\ n >= 1 /\ Head(s) = s[1] /\ DOMAIN s = 1 .. n
      /\ DOMAIN t = 1 .. n - 1 /\ \A i \in 1 .. n - 1 : t[i] = s[i + 1]
  BY EmptySeq, HeadTailProperties, LenProperties
<1>. HIDE DEF n, t
<1>2. \A i \in 2 .. n : i - 1 \in 1 .. n - 1 /\ s[i] = t[i - 1]
  BY <1>1
<1>3. \A i \in 1 .. n - 1 : i + 1 \in 1 .. n /\ t[i] = s[i + 1]
  BY <1>1
<1>4. 1 \in 1 .. n /\ \A i \in 1 .. n : i = 1 \/ i \in 2 .. n
  BY <1>1
<1>5. In(s) = Of(s[1]) \union In(t)
  BY <1>1, <1>2, <1>3, <1>4 DEF In
<1>. QED
  BY <1>1, <1>5 DEF t

LEMMA InEmpty == In(<<>>) = {} /\ Of(<<>>) = {}
BY DEF In, Of

\* The byte that is next, and what is left after it.
LEMMA NextByte ==
  ASSUME NEW aes, NEW wbs, NEW values, NEW mc, NEW mf, NEW list \in Seq(Pieces), list # <<>>
  PROVE  /\ Head(Head(list)) \in Bytes /\ Head(Head(list)) \in In(list)
         /\ Len(Head(list)) \in Nat /\ Len(Head(list)) >= 1
         /\ SensorOf(aes, wbs, values, mc, mf)!AfterByte(list) \in Seq(Pieces)
         /\ In(list) = {Head(Head(list))} \union In(SensorOf(aes, wbs, values, mc, mf)!AfterByte(list))
         /\ SensorOf(aes, wbs, values, mc, mf)!AfterValue(list) \in Seq(Pieces)
         /\ In(SensorOf(aes, wbs, values, mc, mf)!AfterValue(list)) \subseteq In(list)
<1>. DEFINE h == Head(list)
            t == Tail(list)
            rest == Tail(h)
            after == SensorOf(aes, wbs, values, mc, mf)!AfterByte(list)
            u == <<rest>>
<1>1. h \in Pieces /\ t \in Seq(Pieces) /\ In(list) = Of(h) \union In(t)
  BY OfHead, InHead
<1>2. h \in Seq(Bytes) /\ h # <<>>
  BY <1>1 DEF Pieces
<1>3. /\ Head(h) \in Bytes /\ rest \in Seq(Bytes) /\ Len(h) \in Nat /\ Len(h) >= 1
      /\ Of(h) = {Head(h)} \union Of(rest) /\ (rest = <<>> <=> Len(h) = 1)
  BY <1>2, OfHead
<1>4. after = IF Len(h) = 1 THEN t ELSE u \o t
  BY DEF SensorOf!AfterByte
<1>5. SensorOf(aes, wbs, values, mc, mf)!AfterValue(list) = t
  BY DEF SensorOf!AfterValue
<1>6. after \in Seq(Pieces) /\ In(list) = {Head(h)} \union In(after)
  <2>1. CASE Len(h) = 1
    <3>. HIDE DEF h, t, rest, after, u, Pieces
    <3>1. after = t /\ rest = <<>>
      BY <1>3, <1>4, <2>1
    <3>. QED
      BY <1>1, <1>3, <2>1, <3>1, InEmpty
  <2>2. CASE Len(h) # 1
    <3>. HIDE DEF h, t, rest, after
    <3>1. rest \in Pieces
      BY <1>3, <2>2 DEF Pieces
    <3>. HIDE DEF Pieces
    <3>2. u \in Seq(Pieces)
      BY <3>1
    <3>3. In(u) = Of(rest)
      BY InOne
    <3>. HIDE DEF u
    <3>4. u \o t \in Seq(Pieces) /\ In(u \o t) = In(u) \union In(t)
      <4>1. u \o t \in Seq(Pieces)
        BY <1>1, <3>2, ConcatProperties
      <4>2. In(u \o t) = In(u) \union In(t)
        BY <1>1, <3>2, InBoth
      <4>. QED
        BY <4>1, <4>2
    <3>5. after = u \o t
      BY <1>4, <2>2
    <3>6. In(list) = {Head(h)} \union In(after)
      BY <1>1, <1>3, <3>3, <3>4, <3>5
    <3>. QED
      BY <3>4, <3>5, <3>6
  <2>. QED
    BY <2>1, <2>2
<1>. HIDE DEF h, t, rest, after, u, Pieces
<1>7. Head(h) \in In(list) /\ In(t) \subseteq In(list)
  BY <1>1, <1>6
<1>. QED
  BY <1>3, <1>5, <1>6, <1>7, <1>1 DEF h, after

-----------------------------------------------------------------------------
(* What is staged is within its ranges.                                     *)

LEMMA SaneAeIn ==
  ASSUME NEW aes, NEW wbs, NEW values, NEW mc, NEW mf,
         SensorOf(aes, wbs, values, mc, mf)!SensorAssumption
  PROVE  /\ SensorOf(aes, wbs, values, mc, mf)!DefaultAe \in AeSane
         /\ \A c \in aes : SensorOf(aes, wbs, values, mc, mf)!SaneAe(c) \in AeSane
<1>1. SensorOf(aes, wbs, values, mc, mf)!Rois = Regions
  <2>1. SensorOf(aes, wbs, values, mc, mf)!Bits16 = Numbers
    BY DEF SensorOf!Bits16, SensorOf!Byte, Numbers, Span
  <2>. QED
    BY <2>1 DEF SensorOf!Rois, Regions
<1>2. SensorOf(aes, wbs, values, mc, mf)!NoRoi \in Regions
  <2>1. 0 \in Numbers
    BY InSpan DEF Numbers
  <2>. QED
    BY <2>1 DEF SensorOf!NoRoi, Regions
<1>3. SensorOf(aes, wbs, values, mc, mf)!DefaultAe \in AeSane
  <2>1. /\ 100 \in Span(1, 333) /\ 70 \in Span(0, 75) /\ 40 \in Span(1, 255) /\ 160 \in Span(1, 255)
    BY InSpan
  <2>. QED
    BY <1>2, <2>1 DEF SensorOf!DefaultAe, AeSane
<1>4. ASSUME NEW c \in aes
      PROVE  SensorOf(aes, wbs, values, mc, mf)!SaneAe(c) \in AeSane
  <2>. DEFINE d == SensorOf(aes, wbs, values, mc, mf)!SaneAe(c)
              e == SensorOf(aes, wbs, values, mc, mf)!Clamped(c.exposure, 1, 333)
              g == SensorOf(aes, wbs, values, mc, mf)!Clamped(c.gain, 0, 75)
              b == SensorOf(aes, wbs, values, mc, mf)!OrDefault(c.brightness, 0, 1)
              s == SensorOf(aes, wbs, values, mc, mf)!OrDefault(c.speed, 0, 160)
              r == SensorOf(aes, wbs, values, mc, mf)!RoiUsable(c)
  <2>. DEFINE A == SensorOf(aes, wbs, values, mc, mf)!Bits16
              N == 0 .. SensorOf(aes, wbs, values, mc, mf)!Byte - 1
  <2>1. A = Span(0, 65535) /\ N = Span(0, 255)
    BY DEF SensorOf!Bits16, SensorOf!Byte, Span
  <2>2. aes \subseteq [exposure : A, gain : N, brightness : N, speed : N, has_roi : BOOLEAN, roi : Regions]
    BY <1>1 DEF SensorOf!SensorAssumption
  <2>3. d = [c EXCEPT !.exposure = e, !.gain = g, !.brightness = b, !.speed = s, !.has_roi = r]
    BY DEF SensorOf!SaneAe, SensorOf!DefaultAe
  <2>. HIDE DEF d, A, N
  <2>4. c \in [exposure : A, gain : N, brightness : N, speed : N, has_roi : BOOLEAN, roi : Regions]
    BY <2>2
  <2>5. /\ c.exposure \in A /\ c.gain \in N /\ c.brightness \in N /\ c.speed \in N
        /\ c.has_roi \in BOOLEAN /\ c.roi \in Regions
    BY <2>4
  <2>6. c.exposure \in Span(0, 65535) /\ c.gain \in Span(0, 255) /\ c.brightness \in Span(0, 255)
        /\ c.speed \in Span(0, 255)
    BY <2>1, <2>5
  <2>7. e \in Span(1, 333) /\ g \in Span(0, 75)
    <3>1. c.exposure \in Int /\ c.gain \in Int
      BY <2>6, InSpan
    <3>. QED
      BY <3>1, InSpan DEF SensorOf!Clamped
  <2>8. b \in Span(1, 255) /\ s \in Span(1, 255)
    <3>1. /\ c.brightness \in Int /\ 0 <= c.brightness /\ c.brightness <= 255
          /\ c.speed \in Int /\ 0 <= c.speed /\ c.speed <= 255
      BY <2>6, InSpan
    <3>. QED
      BY <3>1, InSpan DEF SensorOf!OrDefault
  <2>9. r \in BOOLEAN
    BY <2>5 DEF SensorOf!RoiUsable
  <2>. HIDE DEF e, g, b, s, r
  <2>10. d = [exposure |-> e, gain |-> g, brightness |-> b, speed |-> s, has_roi |-> r, roi |-> c.roi]
    BY <2>3, <2>4
  <2>11. d \in AeSane
    BY <2>5, <2>7, <2>8, <2>9, <2>10 DEF AeSane
  <2>. QED
    BY <2>11 DEF d
<1>. QED
  BY <1>3, <1>4

LEMMA SaneWbIn ==
  ASSUME NEW aes, NEW wbs, NEW values, NEW mc, NEW mf,
         SensorOf(aes, wbs, values, mc, mf)!SensorAssumption
  PROVE  /\ SensorOf(aes, wbs, values, mc, mf)!DefaultWb \in WbSane
         /\ \A c \in wbs : SensorOf(aes, wbs, values, mc, mf)!SaneWb(c) \in WbSane
<1>1. SensorOf(aes, wbs, values, mc, mf)!Rois = Regions
  <2>1. SensorOf(aes, wbs, values, mc, mf)!Bits16 = Numbers
    BY DEF SensorOf!Bits16, SensorOf!Byte, Numbers, Span
  <2>. QED
    BY <2>1 DEF SensorOf!Rois, Regions
<1>2. SensorOf(aes, wbs, values, mc, mf)!NoRoi \in Regions /\ InPicture(SensorOf(aes, wbs, values, mc, mf)!NoRoi)
  <2>1. 0 \in Numbers
    BY InSpan DEF Numbers
  <2>. QED
    BY <2>1 DEF SensorOf!NoRoi, Regions, InPicture
<1>3. SensorOf(aes, wbs, values, mc, mf)!DefaultWb \in WbSane
  BY <1>2 DEF SensorOf!DefaultWb, WbSane
<1>4. ASSUME NEW c \in wbs
      PROVE  SensorOf(aes, wbs, values, mc, mf)!SaneWb(c) \in WbSane
  <2>. DEFINE d == SensorOf(aes, wbs, values, mc, mf)!SaneWb(c)
              m == IF c.mode \in {"auto", "one_push", "preset"} THEN c.mode ELSE "auto"
              p == IF c.preset \in {3200, 4300, 5600, 6500} THEN c.preset ELSE 4300
              r == SensorOf(aes, wbs, values, mc, mf)!RoiUsable(c)
  <2>. DEFINE M == {"auto", "one_push", "preset", "unknown"}
  <2>0. c \in [mode : M, preset : Nat, has_roi : BOOLEAN, roi : Regions]
    BY <1>1 DEF SensorOf!SensorAssumption
  <2>1. c.roi.width <= 4056 /\ c.roi.height <= 3040
    BY <1>1 DEF SensorOf!SensorAssumption
  <2>. HIDE DEF M
  <2>2. c.has_roi \in BOOLEAN /\ c.roi \in Regions /\ InPicture(c.roi)
    BY <2>0, <2>1 DEF InPicture
  <2>3. m \in {"auto", "one_push", "preset"} /\ p \in {3200, 4300, 5600, 6500}
    OBVIOUS
  <2>4. r \in BOOLEAN
    BY <2>2 DEF SensorOf!RoiUsable
  <2>5. DOMAIN SensorOf(aes, wbs, values, mc, mf)!Presets = {3200, 4300, 5600, 6500}
    BY DEF SensorOf!Presets
  <2>6. d = [c EXCEPT !.mode = m, !.preset = p, !.has_roi = r]
    BY <2>5 DEF SensorOf!SaneWb, SensorOf!DefaultWb
  <2>. HIDE DEF d, m, p, r
  <2>7. d = [mode |-> m, preset |-> p, has_roi |-> r, roi |-> c.roi]
    BY <2>0, <2>6
  <2>8. d \in WbSane
    BY <2>2, <2>3, <2>4, <2>7 DEF WbSane
  <2>. QED
    BY <2>8 DEF d
<1>. QED
  BY <1>3, <1>4

\* What a call is to send
LEMMA SpareIn ==
  ASSUME NEW aes, NEW wbs, NEW values, NEW mc, NEW mf, NEW v \in Values4
  PROVE  LET S == SensorOf(aes, wbs, values, mc, mf)!Spare
             list == <<[i \in 1 .. 4 |-> SensorOf(aes, wbs, values, mc, mf)!B(S + i - 1, v[i])]>>
         IN  list \in Seq(Pieces) /\ In(list) = SpareParts(v)
<1>. DEFINE S == SensorOf(aes, wbs, values, mc, mf)!Spare
            w == [i \in 1 .. 4 |-> SensorOf(aes, wbs, values, mc, mf)!B(S + i - 1, v[i])]
            p == Byte(4096, v[1])
            q == Byte(4097, v[2])
            r == Byte(4098, v[3])
            s == Byte(4099, v[4])
<1>1. \A i \in 1 .. 4 : v[i] \in Span(0, 255)
  BY DEF Values4
<1>2. \A i \in 1 .. 4 : v[i] \in Int /\ 0 <= v[i] /\ v[i] <= 255
  BY <1>1, InSpan
<1>3. /\ v[1] \in Span(0, 255) /\ v[2] \in Span(0, 255) /\ v[3] \in Span(0, 255) /\ v[4] \in Span(0, 255)
      /\ v[1] % 256 = v[1] /\ v[2] % 256 = v[2] /\ v[3] % 256 = v[3] /\ v[4] % 256 = v[4]
  BY <1>1, <1>2
<1>4. DOMAIN w = 1 .. 4 /\ w[1] = p /\ w[2] = q /\ w[3] = r /\ w[4] = s
  BY <1>3 DEF Byte, SensorOf!B, SensorOf!Byte, SensorOf!Spare
<1>5. p \in Bytes /\ q \in Bytes /\ r \in Bytes /\ s \in Bytes
  BY <1>3 DEF Byte, Bytes
<1>6. w = [i \in 1 .. 4 |-> w[i]]
  OBVIOUS
<1>. HIDE DEF w, p, q, r, s
<1>7. w \in Pieces
  <2>1. \A i \in 1 .. 4 : w[i] \in Bytes
    BY <1>4, <1>5
  <2>2. w \in Seq(Bytes)
    BY <1>6, <2>1
  <2>3. w # <<>>
    BY <1>4
  <2>. QED
    BY <2>2, <2>3 DEF Pieces
<1>8. Of(w) = {p, q, r, s}
  BY <1>4 DEF Of
<1>9. <<w>> \in Seq(Pieces)
  BY <1>7
<1>10. In(<<w>>) = Of(w)
  BY InOne
<1>. QED
  BY <1>8, <1>9, <1>10 DEF w, p, q, r, s, SpareParts

\* The registers there are
LEMMA InAddresses ==
  ASSUME NEW aes, NEW wbs, NEW values, NEW mc, NEW mf,
         NEW l, \/ l \in SensorOf(aes, wbs, values, mc, mf)!AeLists
                \/ l \in SensorOf(aes, wbs, values, mc, mf)!WbLists,
         NEW x \in In(l)
  PROVE  x.at \in SensorOf(aes, wbs, values, mc, mf)!Addresses
<1>. DEFINE A == SensorOf(aes, wbs, values, mc, mf)!AeLists \union SensorOf(aes, wbs, values, mc, mf)!WbLists
            P(k) == {b.at : b \in SensorOf(aes, wbs, values, mc, mf)!BytesOf(k)}
            U == SensorOf(aes, wbs, values, mc, mf)!Written
            B == SensorOf(aes, wbs, values, mc, mf)!BytesOf(l)
<1>1. B = In(l)
  <2>1. B = UNION {{l[i][j] : j \in DOMAIN l[i]} : i \in DOMAIN l}
    BY DEF SensorOf!BytesOf
  <2>2. In(l) = UNION {{l[i][j] : j \in DOMAIN l[i]} : i \in DOMAIN l}
    BY DEF In, Of
  <2>. QED
    BY ONLY <2>1, <2>2
<1>2. U = UNION {P(k) : k \in A} /\ P(l) = {b.at : b \in B} /\ l \in A
  BY DEF SensorOf!Written
<1>. HIDE DEF P, A, B, U
<1>3. P(l) \in {P(k) : k \in A}
  BY <1>2
<1>4. x.at \in U
  BY <1>1, <1>2, <1>3
<1>. QED
  BY <1>4 DEF SensorOf!Addresses, U

LEMMA AeAddresses ==
  ASSUME NEW aes, NEW wbs, NEW values, NEW mc, NEW mf,
         SensorOf(aes, wbs, values, mc, mf)!SensorAssumption
  PROVE  AeAll \subseteq SensorOf(aes, wbs, values, mc, mf)!Addresses
<1>. DEFINE W == SensorOf(aes, wbs, values, mc, mf)!DefaultAe
            R == SensorOf(aes, wbs, values, mc, mf)!Addresses
<1>1. ASSUME NEW b \in BOOLEAN, NEW d, d = [W EXCEPT !.has_roi = b]
      PROVE  AeAt(d) \subseteq R /\ d.has_roi = b
  <2>. DEFINE I == Span(1, 333)
              J == Span(0, 75)
              K == Span(1, 255)
              L == SensorOf(aes, wbs, values, mc, mf)!AeWrites(d)
  <2>1. W \in [exposure : I, gain : J, brightness : K, speed : K, has_roi : BOOLEAN, roi : Regions]
    BY SaneAeIn DEF AeSane
  <2>2. /\ d \in [exposure : I, gain : J, brightness : K, speed : K, has_roi : BOOLEAN, roi : Regions]
        /\ d.has_roi = b
    <3>. HIDE DEF I, J, K, W
    <3>. QED
      BY <1>1, <2>1
  <2>3. d \in AeSane
    BY <2>2 DEF AeSane
  <2>4. L \in SensorOf(aes, wbs, values, mc, mf)!AeLists
    BY <1>1 DEF SensorOf!AeLists
  <2>5. In(L) = AeParts(d)
    BY <2>3, AeWritesIn
  <2>. HIDE DEF L, R
  <2>6. ASSUME NEW a \in AeAt(d) PROVE a \in R
    <3>. DEFINE x == Byte(a, AeOf(d, a))
    <3>1. x \in In(L) /\ x.at = a
      BY <2>5, AeReached DEF Byte
    <3>. HIDE DEF x
    <3>. QED
      BY <2>4, <3>1, InAddresses DEF R
  <2>. QED
    BY <2>2, <2>6
<1>. HIDE DEF R, W
<1>2. AeLimitsAt \union AeRegionAt \subseteq R
  <2>. DEFINE d == [W EXCEPT !.has_roi = TRUE]
  <2>. HIDE DEF d
  <2>1. AeAt(d) \subseteq R /\ d.has_roi = TRUE
    BY <1>1 DEF d
  <2>. QED
    BY <2>1 DEF AeAt
<1>3. AeWholeAt \subseteq R
  <2>. DEFINE d == [W EXCEPT !.has_roi = FALSE]
  <2>. HIDE DEF d
  <2>1. AeAt(d) \subseteq R /\ d.has_roi = FALSE
    BY <1>1 DEF d
  <2>. QED
    BY <2>1 DEF AeAt
<1>. QED
  BY <1>2, <1>3 DEF AeAll, R

LEMMA WbAddresses ==
  ASSUME NEW aes, NEW wbs, NEW values, NEW mc, NEW mf,
         SensorOf(aes, wbs, values, mc, mf)!SensorAssumption
  PROVE  WbAll \subseteq SensorOf(aes, wbs, values, mc, mf)!Addresses
<1>. DEFINE W == SensorOf(aes, wbs, values, mc, mf)!DefaultWb
            F == SensorOf(aes, wbs, values, mc, mf)!FullRoi
            R == SensorOf(aes, wbs, values, mc, mf)!Addresses
            M == {"auto", "one_push", "preset"}
            P == {3200, 4300, 5600, 6500}
<1>1. W \in [mode : M, preset : P, has_roi : BOOLEAN, roi : Regions]
  BY SaneWbIn DEF WbSane
<1>2. F \in Regions /\ InPicture(F)
  <2>1. 1 \in Numbers
    BY InSpan DEF Numbers
  <2>. QED
    BY <2>1 DEF SensorOf!FullRoi, Regions, InPicture
<1>3. ASSUME NEW m \in M, NEW d, d = [W EXCEPT !.mode = m, !.has_roi = TRUE, !.roi = F]
      PROVE  WbAt(d) \subseteq R /\ d.mode = m /\ d.has_roi = TRUE
  <2>. DEFINE L == SensorOf(aes, wbs, values, mc, mf)!WbWrites(d)
  <2>1. /\ d \in [mode : M, preset : P, has_roi : BOOLEAN, roi : Regions]
        /\ d.mode = m /\ d.has_roi = TRUE /\ d.roi = F
    <3>. HIDE DEF W, F, M, P
    <3>. QED
      BY <1>1, <1>2, <1>3
  <2>2. d \in WbSane
    BY <1>2, <2>1 DEF WbSane
  <2>3. L \in SensorOf(aes, wbs, values, mc, mf)!WbLists
    BY <1>3 DEF SensorOf!WbLists
  <2>4. In(L) = WbParts(d)
    BY <2>2, WbWritesIn
  <2>. HIDE DEF L, R
  <2>5. ASSUME NEW a \in WbAt(d) PROVE a \in R
    <3>. DEFINE x == Byte(a, WbOf(d, a))
    <3>1. x \in In(L) /\ x.at = a
      BY <2>2, <2>4, WbReached DEF Byte
    <3>. HIDE DEF x
    <3>. QED
      BY <2>3, <3>1, InAddresses DEF R
  <2>. QED
    BY <2>1, <2>5
<1>. HIDE DEF R, W, F
<1>4. WbLimitsAt \union {53820, 58980, 58981, 58992, 58993, 58994, 58995, 58996} \subseteq R
  <2>. DEFINE d == [W EXCEPT !.mode = "auto", !.has_roi = TRUE, !.roi = F]
  <2>. HIDE DEF d
  <2>1. WbAt(d) \subseteq R /\ d.mode = "auto" /\ d.has_roi = TRUE
    BY <1>3 DEF d
  <2>2. WbModeAt(d) = {53820, 58980, 58981, 58992, 58993, 58994, 58995, 58996}
    BY <2>1 DEF WbModeAt
  <2>. QED
    BY <2>1, <2>2 DEF WbAt
<1>5. {56864, 56865, 56866, 56867} \subseteq R
  <2>. DEFINE d == [W EXCEPT !.mode = "preset", !.has_roi = TRUE, !.roi = F]
  <2>. HIDE DEF d
  <2>1. WbAt(d) \subseteq R /\ d.mode = "preset"
    BY <1>3 DEF d
  <2>2. WbModeAt(d) = {53820, 56864, 56865, 56866, 56867}
    BY <2>1 DEF WbModeAt
  <2>. QED
    BY <2>1, <2>2 DEF WbAt
<1>. QED
  BY <1>4, <1>5 DEF WbAll, R

LEMMA AllAddresses ==
  ASSUME NEW aes, NEW wbs, NEW values, NEW mc, NEW mf,
         SensorOf(aes, wbs, values, mc, mf)!SensorAssumption
  PROVE  AllAt \subseteq SensorOf(aes, wbs, values, mc, mf)!Addresses
<1>1. SpareAt \subseteq SensorOf(aes, wbs, values, mc, mf)!Spares
  BY DEF SpareAt, SensorOf!Spares, SensorOf!Spare
<1>2. SpareAt \subseteq SensorOf(aes, wbs, values, mc, mf)!Addresses
  BY <1>1 DEF SensorOf!Addresses
<1>. QED
  BY <1>2, AeAddresses, WbAddresses DEF AllAt

-----------------------------------------------------------------------------
(* The invariant                                                            *)

Staged(w) == CASE w = "ae" -> ae [] w = "wb" -> wb [] w = "spare" -> value

\* Setting w has value x in the sensor's registers.
Stands(w, x) == \A a \in At(w, x) : reg[a] = Due(w, x, a)

SensorTyped ==
  /\ AllAt \subseteq DOMAIN reg /\ reg \in [DOMAIN reg -> Span(0, 255)]
  /\ ae \in AeSane /\ wb \in WbSane /\ (op = "spare" => value \in Values4)
  /\ op \in {"none", "read"} \union Settings
  /\ writes \in Seq(Pieces) /\ status \in Int /\ failures \in Nat /\ bytes \in Seq(Span(0, 255))
  /\ applied \in [Settings -> {None} \union AeSane \union WbSane \union Values4]

\* What the call under way has left to send is of its setting, each register once, and while
\* no byte has failed the rest is in place.
UnderWay ==
  op \in Settings =>
    /\ applied[op] = None
    /\ \A b \in In(writes) : b.at \in At(op, Staged(op)) /\ b.val = Due(op, Staged(op), b.at)
    /\ status = 0 => \A a \in At(op, Staged(op)) :
                       Byte(a, Due(op, Staged(op), a)) \in In(writes) \/ reg[a] = Due(op, Staged(op), a)
    /\ failures > 0 => status < 0

AllApplied ==
  \A w \in Settings : applied[w] = None \/ (applied[w] \in Staging(w) /\ Stands(w, applied[w]))

Reading ==
  op = "read" => Len(bytes) <= 4 /\ \A i \in 1 .. Len(bytes) : bytes[i] = reg[4095 + i]

SensorInv ==
  /\ SensorTyped /\ UnderWay /\ AllApplied /\ Reading
  /\ op \notin Settings => writes = <<>>

LEMMA SensorInit ==
  ASSUME NEW aes, NEW wbs, NEW values, NEW mc, NEW mf,
         SensorOf(aes, wbs, values, mc, mf)!SensorAssumption,
         SensorOf(aes, wbs, values, mc, mf)!Init
  PROVE  SensorInv
<1>. DEFINE R == SensorOf(aes, wbs, values, mc, mf)!Addresses
<1>1. /\ reg = [a \in R |-> 0] /\ writes = <<>> /\ op = "none" /\ status = 0 /\ bytes = <<>> /\ failures = 0
      /\ applied = [ae |-> None, wb |-> None, spare |-> None]
      /\ ae = SensorOf(aes, wbs, values, mc, mf)!DefaultAe
      /\ wb = SensorOf(aes, wbs, values, mc, mf)!DefaultWb
  BY DEF SensorOf!Init
<1>2. AllAt \subseteq R /\ ae \in AeSane /\ wb \in WbSane
  BY <1>1, AllAddresses, SaneAeIn, SaneWbIn
<1>. HIDE DEF R
<1>3. DOMAIN reg = R /\ reg \in [R -> Span(0, 255)]
  <2>1. 0 \in Span(0, 255)
    BY InSpan
  <2>. QED
    BY <1>1, <2>1
<1>4. \A w \in Settings : applied[w] = None
  BY <1>1 DEF Settings
<1>5. applied \in [Settings -> {None}]
  BY <1>1 DEF Settings
<1>6. writes \in Seq(Pieces) /\ bytes \in Seq(Span(0, 255))
  BY <1>1
<1>7. applied \in [Settings -> {None} \union AeSane \union WbSane \union Values4]
  <2>. DEFINE S == AeSane \union WbSane \union Values4
  <2>. HIDE DEF S
  <2>1. applied \in [Settings -> {None} \union S]
    BY <1>5
  <2>2. {None} \union S = {None} \union AeSane \union WbSane \union Values4
    BY DEF S
  <2>. QED
    BY <2>1, <2>2
<1>8. "none" \notin Settings
  BY DEF Settings
<1>9. SensorTyped
  BY <1>1, <1>2, <1>3, <1>6, <1>7 DEF SensorTyped
<1>. QED
  BY <1>1, <1>4, <1>8, <1>9 DEF SensorInv, UnderWay, AllApplied, Reading

\* Nothing of a setting is lost with a byte of another one.
LEMMA StandsOn ==
  ASSUME NEW w \in Settings, NEW x \in Staging(w), NEW u \in Settings, NEW y \in Staging(u), w # u,
         NEW a \in At(u, y), NEW v, SensorTyped, Stands(w, x), reg' = [reg EXCEPT ![a] = v]
  PROVE  Stands(w, x)'
<1>1. ASSUME NEW d \in At(w, x) PROVE reg'[d] = Due(w, x, d)
  <2>1. d # a
    BY Apart
  <2>2. d \in DOMAIN reg
    BY AtAll DEF SensorTyped
  <2>. QED
    BY <2>1, <2>2 DEF Stands
<1>. QED
  BY <1>1 DEF Stands

LEMMA SensorSet ==
  ASSUME NEW aes, NEW wbs, NEW values, NEW mc, NEW mf,
         SensorOf(aes, wbs, values, mc, mf)!SensorAssumption, SensorInv,
         \/ \E c \in aes \union {None} : SensorOf(aes, wbs, values, mc, mf)!SetAe(c)
         \/ \E c \in wbs \union {None} : SensorOf(aes, wbs, values, mc, mf)!SetWb(c)
  PROVE  SensorInv'
<1>1. /\ op = "none" /\ op' = op /\ reg' = reg /\ value' = value /\ writes' = writes /\ status' = status
      /\ bytes' = bytes /\ failures' = failures /\ applied' = applied
  BY DEF SensorOf!SetAe, SensorOf!SetWb, SensorOf!Called
<1>2. ae' \in AeSane /\ wb' \in WbSane
  <2>1. CASE \E c \in aes \union {None} : SensorOf(aes, wbs, values, mc, mf)!SetAe(c)
    <3>1. PICK c \in aes \union {None} : SensorOf(aes, wbs, values, mc, mf)!SetAe(c)
      BY <2>1
    <3>2. /\ ae' = IF c = None THEN SensorOf(aes, wbs, values, mc, mf)!DefaultAe
                   ELSE SensorOf(aes, wbs, values, mc, mf)!SaneAe(c)
          /\ wb' = wb
      BY <3>1 DEF SensorOf!SetAe
    <3>. QED
      BY <3>2, SaneAeIn DEF SensorInv, SensorTyped
  <2>2. CASE \E c \in wbs \union {None} : SensorOf(aes, wbs, values, mc, mf)!SetWb(c)
    <3>1. PICK c \in wbs \union {None} : SensorOf(aes, wbs, values, mc, mf)!SetWb(c)
      BY <2>2
    <3>2. /\ wb' = IF c = None THEN SensorOf(aes, wbs, values, mc, mf)!DefaultWb
                   ELSE SensorOf(aes, wbs, values, mc, mf)!SaneWb(c)
          /\ ae' = ae
      BY <3>1 DEF SensorOf!SetWb
    <3>. QED
      BY <3>2, SaneWbIn DEF SensorInv, SensorTyped
  <2>. QED
    BY <2>1, <2>2
<1>3. "none" \notin Settings
  BY DEF Settings
<1>4. SensorTyped'
  BY <1>1, <1>2 DEF SensorInv, SensorTyped
<1>5. AllApplied'
  BY <1>1 DEF SensorInv, AllApplied, Stands
<1>. QED
  BY <1>1, <1>3, <1>4, <1>5 DEF SensorInv, UnderWay, Reading

LEMMA SensorBegin ==
  ASSUME NEW aes, NEW wbs, NEW values, NEW mc, NEW mf, SensorInv,
         NEW w \in Settings, NEW x \in Staging(w), NEW list \in Seq(Pieces), In(list) = Parts(w, x),
         SensorOf(aes, wbs, values, mc, mf)!Begin(w, list), Staged(w)' = x
  PROVE  SensorInv'
<1>1. /\ op = "none" /\ op' = w /\ writes' = list /\ status' = 0 /\ failures' = 0
      /\ applied' = [applied EXCEPT ![w] = None]
      /\ reg' = reg /\ ae' = ae /\ wb' = wb /\ bytes' = bytes
  BY DEF SensorOf!Begin, SensorOf!Called
<1>2. applied \in [Settings -> {None} \union AeSane \union WbSane \union Values4]
  BY DEF SensorInv, SensorTyped
<1>3. /\ applied' \in [Settings -> {None} \union AeSane \union WbSane \union Values4]
      /\ applied'[w] = None /\ \A u \in Settings : u # w => applied'[u] = applied[u]
  <2>. DEFINE S == {None} \union AeSane \union WbSane \union Values4
  <2>1. None \in S
    OBVIOUS
  <2>. HIDE DEF S
  <2>2. /\ applied' \in [Settings -> S] /\ applied'[w] = None
        /\ \A u \in Settings : u # w => applied'[u] = applied[u]
    BY <1>1, <1>2, <2>1 DEF S
  <2>. QED
    BY <2>2 DEF S
<1>4. w = "spare" => value' \in Values4
  BY DEF Staged, Staging
<1>5. SensorTyped'
  BY <1>1, <1>3, <1>4 DEF SensorInv, SensorTyped
<1>6. UnderWay'
  <2>1. \A b \in In(list) : b.at \in At(w, x) /\ b.val = Due(w, x, b.at)
    BY PartsDue
  <2>2. \A a \in At(w, x) : Byte(a, Due(w, x, a)) \in In(list)
    BY PartsDue
  <2>3. (op \in Settings)' => /\ Staged(op)' = x /\ op' = w
    BY <1>1
  <2>. QED
    BY <1>1, <1>3, <2>1, <2>2, <2>3 DEF UnderWay
<1>7. AllApplied'
  BY <1>1, <1>3 DEF SensorInv, AllApplied, Stands
<1>8. op' # "read"
  BY <1>1 DEF Settings
<1>. QED
  BY <1>1, <1>5, <1>6, <1>7, <1>8 DEF SensorInv, Reading

LEMMA SensorApply ==
  ASSUME NEW aes, NEW wbs, NEW values, NEW mc, NEW mf,
         SensorOf(aes, wbs, values, mc, mf)!SensorAssumption, SensorInv,
         \/ SensorOf(aes, wbs, values, mc, mf)!ApplyAe
         \/ SensorOf(aes, wbs, values, mc, mf)!ApplyWb
         \/ \E v \in values : SensorOf(aes, wbs, values, mc, mf)!Write32(v)
  PROVE  SensorInv'
<1>1. CASE SensorOf(aes, wbs, values, mc, mf)!ApplyAe
  <2>. DEFINE list == SensorOf(aes, wbs, values, mc, mf)!AeWrites(ae)
  <2>1. SensorOf(aes, wbs, values, mc, mf)!Begin("ae", list) /\ ae' = ae
    BY <1>1 DEF SensorOf!ApplyAe, SensorOf!Begin
  <2>2. ae \in Staging("ae") /\ ae \in AeSane
    BY DEF SensorInv, SensorTyped, Staging
  <2>3. list \in Seq(Pieces) /\ In(list) = Parts("ae", ae)
    BY <2>2, AeWritesIn DEF Parts
  <2>4. Staged("ae")' = ae
    BY <2>1 DEF Staged
  <2>5. "ae" \in Settings
    BY DEF Settings
  <2>. HIDE DEF list
  <2>. QED
    BY <2>1, <2>2, <2>3, <2>4, <2>5, SensorBegin
<1>2. CASE SensorOf(aes, wbs, values, mc, mf)!ApplyWb
  <2>. DEFINE list == SensorOf(aes, wbs, values, mc, mf)!WbWrites(wb)
  <2>1. SensorOf(aes, wbs, values, mc, mf)!Begin("wb", list) /\ wb' = wb
    BY <1>2 DEF SensorOf!ApplyWb, SensorOf!Begin
  <2>2. wb \in Staging("wb") /\ wb \in WbSane
    BY DEF SensorInv, SensorTyped, Staging
  <2>3. list \in Seq(Pieces) /\ In(list) = Parts("wb", wb)
    BY <2>2, WbWritesIn DEF Parts
  <2>4. Staged("wb")' = wb
    BY <2>1 DEF Staged
  <2>5. "wb" \in Settings
    BY DEF Settings
  <2>. HIDE DEF list
  <2>. QED
    BY <2>1, <2>2, <2>3, <2>4, <2>5, SensorBegin
<1>3. CASE \E v \in values : SensorOf(aes, wbs, values, mc, mf)!Write32(v)
  <2>0. PICK v \in values : SensorOf(aes, wbs, values, mc, mf)!Write32(v)
    BY <1>3
  <2>. DEFINE S == SensorOf(aes, wbs, values, mc, mf)!Spare
              list == <<[i \in 1 .. 4 |-> SensorOf(aes, wbs, values, mc, mf)!B(S + i - 1, v[i])]>>
  <2>1. SensorOf(aes, wbs, values, mc, mf)!Begin("spare", list) /\ value' = v
    BY <2>0 DEF SensorOf!Write32
  <2>2. v \in Values4
    <3>1. 0 .. SensorOf(aes, wbs, values, mc, mf)!Byte - 1 = Span(0, 255)
      BY DEF SensorOf!Byte, Span
    <3>2. values \subseteq [1 .. 4 -> 0 .. SensorOf(aes, wbs, values, mc, mf)!Byte - 1]
      BY DEF SensorOf!SensorAssumption
    <3>. QED
      BY <3>1, <3>2 DEF Values4
  <2>3. v \in Staging("spare")
    BY <2>2 DEF Staging
  <2>4. list \in Seq(Pieces) /\ In(list) = SpareParts(v)
    BY <2>2, SpareIn
  <2>5. Parts("spare", v) = SpareParts(v)
    BY DEF Parts
  <2>6. Staged("spare")' = v
    BY <2>1 DEF Staged
  <2>7. "spare" \in Settings
    BY DEF Settings
  <2>. HIDE DEF list
  <2>. QED
    BY <2>1, <2>3, <2>4, <2>5, <2>6, <2>7, SensorBegin
<1>. QED
  BY <1>1, <1>2, <1>3

\* One byte of a call goes out, or fails with the rest of its value.
LEMMA SensorByte ==
  ASSUME NEW aes, NEW wbs, NEW values, NEW mc, NEW mf, SensorInv,
         SensorOf(aes, wbs, values, mc, mf)!WriteByte
  PROVE  SensorInv'
<1>. DEFINE list == writes
            b == Head(Head(writes))
            x == Staged(op)
            done == SensorOf(aes, wbs, values, mc, mf)!AfterByte(writes)
            left == SensorOf(aes, wbs, values, mc, mf)!AfterValue(writes)
            put == [reg EXCEPT ![b.at] = b.val]
<1>1. /\ writes # <<>> /\ ae' = ae /\ wb' = wb /\ value' = value /\ op' = op /\ bytes' = bytes
      /\ applied' = applied
      /\ \/ /\ reg' = put /\ writes' = done /\ failures' = failures
            /\ status' = IF Len(Head(writes)) = 1 THEN SensorOf(aes, wbs, values, mc, mf)!Fold(status, 0) ELSE status
         \/ /\ reg' \in {reg, put} /\ writes' = left
            /\ status' = SensorOf(aes, wbs, values, mc, mf)!Fold(status, -1) /\ failures' = failures + 1
  BY DEF SensorOf!WriteByte
<1>2. op \in Settings
  BY <1>1 DEF SensorInv
<1>3. writes \in Seq(Pieces) /\ status \in Int /\ failures \in Nat
  BY DEF SensorInv, SensorTyped
<1>4. /\ b \in Bytes /\ b \in In(writes) /\ done \in Seq(Pieces) /\ In(writes) = {b} \union In(done)
      /\ left \in Seq(Pieces) /\ In(left) \subseteq In(writes)
  BY <1>1, <1>3, NextByte
<1>5. x \in Staging(op)
  BY <1>2 DEF SensorInv, SensorTyped, Staged, Staging, Settings
<1>6. /\ applied[op] = None
      /\ \A d \in In(writes) : d.at \in At(op, x) /\ d.val = Due(op, x, d.at)
      /\ status = 0 => \A a \in At(op, x) : Byte(a, Due(op, x, a)) \in In(writes) \/ reg[a] = Due(op, x, a)
      /\ failures > 0 => status < 0
  BY <1>2 DEF SensorInv, UnderWay
<1>7. b.at \in At(op, x) /\ b.val = Due(op, x, b.at) /\ b.val \in Span(0, 255)
  BY <1>4, <1>6 DEF Bytes
<1>8. Staged(op)' = x
  BY <1>1, <1>2 DEF Staged, Settings
<1>9. \/ /\ reg' = put /\ writes' = done /\ failures' = failures /\ status' = status
      \/ /\ reg' \in {reg, put} /\ writes' = left /\ status' = -1 /\ failures' = failures + 1
  BY <1>1, <1>3 DEF SensorOf!Fold
<1>. HIDE DEF b, x, done, left
<1>10. b.at \in DOMAIN reg
  BY <1>2, <1>5, <1>7, AtAll DEF SensorInv, SensorTyped
<1>11. /\ DOMAIN put = DOMAIN reg /\ put \in [DOMAIN reg -> Span(0, 255)]
       /\ put[b.at] = b.val /\ \A a \in DOMAIN reg : a # b.at => put[a] = reg[a]
  BY <1>7, <1>10 DEF SensorInv, SensorTyped
<1>12. DOMAIN reg' = DOMAIN reg /\ reg' \in [DOMAIN reg -> Span(0, 255)]
  BY <1>9, <1>11 DEF SensorInv, SensorTyped
<1>13. SensorTyped'
  <2>1. writes' \in Seq(Pieces) /\ status' \in Int /\ failures' \in Nat
    BY <1>3, <1>4, <1>9
  <2>. QED
    BY <1>1, <1>12, <2>1 DEF SensorInv, SensorTyped
<1>14. AllApplied'
  <2>1. ASSUME NEW u \in Settings, NEW y, y = applied[u], y # None
        PROVE  y \in Staging(u) /\ Stands(u, y)'
    <3>1. y \in Staging(u) /\ Stands(u, y) /\ u # op
      BY <1>6, <2>1 DEF SensorInv, AllApplied
    <3>2. CASE reg' = reg
      BY <3>1, <3>2 DEF Stands
    <3>3. CASE reg' = put
      BY <1>2, <1>5, <1>7, <3>1, <3>3, StandsOn DEF SensorInv
    <3>. QED
      BY <1>9, <3>1, <3>2, <3>3
  <2>2. \A u \in Settings : applied'[u] = applied[u]
    BY <1>1
  <2>. QED
    BY <2>1, <2>2 DEF AllApplied, Stands
<1>15. UnderWay'
  <2>1. \A d \in In(writes') : d.at \in At(op, x) /\ d.val = Due(op, x, d.at)
    BY <1>4, <1>6, <1>9
  <2>2. ASSUME status' = 0, NEW a \in At(op, x)
        PROVE  Byte(a, Due(op, x, a)) \in In(writes') \/ reg'[a] = Due(op, x, a)
    <3>1. reg' = put /\ writes' = done /\ status = 0
      BY <1>9, <2>2
    <3>2. a \in DOMAIN reg
      BY <1>2, <1>5, AtAll DEF SensorInv, SensorTyped
    <3>3. CASE a = b.at
      BY <1>7, <1>11, <3>1, <3>3
    <3>4. CASE a # b.at
      <4>1. Byte(a, Due(op, x, a)) # b
        BY <3>4 DEF Byte
      <4>2. CASE Byte(a, Due(op, x, a)) \in In(writes)
        BY <1>4, <3>1, <4>1, <4>2
      <4>3. CASE reg[a] = Due(op, x, a)
        BY <1>11, <3>1, <3>2, <3>4, <4>3
      <4>. QED
        BY <1>6, <3>1, <4>2, <4>3
    <3>. QED
      BY <3>3, <3>4
  <2>3. failures' > 0 => status' < 0
    BY <1>3, <1>6, <1>9
  <2>. QED
    BY <1>1, <1>6, <1>8, <2>1, <2>2, <2>3 DEF UnderWay
<1>16. op # "read"
  BY <1>2 DEF Settings
<1>. QED
  BY <1>1, <1>2, <1>13, <1>14, <1>15, <1>16 DEF SensorInv, Reading

LEMMA SensorReturn ==
  ASSUME NEW aes, NEW wbs, NEW values, NEW mc, NEW mf, SensorInv,
         SensorOf(aes, wbs, values, mc, mf)!Return
  PROVE  SensorInv'
<1>. DEFINE x == Staged(op)
<1>1. /\ op \in Settings /\ writes = <<>> /\ op' = "none"
      /\ applied' = IF status = 0 THEN [applied EXCEPT ![op] = x] ELSE applied
      /\ reg' = reg /\ ae' = ae /\ wb' = wb /\ writes' = writes /\ status' = status /\ bytes' = bytes
      /\ failures' = failures
  BY DEF SensorOf!Return, Staged, Settings
<1>2. x \in Staging(op)
  BY <1>1 DEF SensorInv, SensorTyped, Staged, Staging, Settings
<1>3. x \in AeSane \union WbSane \union Values4
  BY <1>1, <1>2 DEF Staging, Settings
<1>4. applied \in [Settings -> {None} \union AeSane \union WbSane \union Values4]
  BY DEF SensorInv, SensorTyped
<1>. DEFINE S == {None} \union AeSane \union WbSane \union Values4
<1>. HIDE DEF x
<1>5. x \in S /\ applied \in [Settings -> S]
  BY <1>3, <1>4
<1>. HIDE DEF S
<1>6. /\ applied' \in [Settings -> S]
      /\ \A u \in Settings : u # op => applied'[u] = applied[u]
      /\ status = 0 => applied'[op] = x
      /\ status # 0 => applied'[op] = applied[op]
  BY <1>1, <1>5
<1>7. status = 0 => Stands(op, x)
  <2>. SUFFICES ASSUME status = 0, NEW a \in At(op, x) PROVE reg[a] = Due(op, x, a)
    BY DEF Stands
  <2>1. Byte(a, Due(op, x, a)) \in In(writes) \/ reg[a] = Due(op, x, a)
    BY <1>1 DEF SensorInv, UnderWay, x
  <2>. QED
    BY <1>1, <2>1, InEmpty
<1>8. AllApplied'
  <2>. SUFFICES ASSUME NEW u \in Settings, applied'[u] # None
                PROVE  applied'[u] \in Staging(u) /\ Stands(u, applied'[u])
    BY <1>1 DEF AllApplied, Stands
  <2>1. CASE u = op /\ status = 0
    BY <1>2, <1>6, <1>7, <2>1 DEF x
  <2>2. CASE ~(u = op /\ status = 0)
    <3>1. applied'[u] = applied[u]
      BY <1>6, <2>2
    <3>. QED
      BY <3>1 DEF SensorInv, AllApplied
  <2>. QED
    BY <2>1, <2>2
<1>9. SensorTyped'
  BY <1>1, <1>6 DEF SensorInv, SensorTyped, S
<1>10. op' \notin Settings /\ op' # "read"
  BY <1>1 DEF Settings
<1>. QED
  BY <1>1, <1>8, <1>9, <1>10 DEF SensorInv, UnderWay, Reading

LEMMA SensorRead ==
  ASSUME NEW aes, NEW wbs, NEW values, NEW mc, NEW mf, SensorInv,
         \/ SensorOf(aes, wbs, values, mc, mf)!Read32
         \/ SensorOf(aes, wbs, values, mc, mf)!ReadByte
         \/ SensorOf(aes, wbs, values, mc, mf)!ReadDone
  PROVE  SensorInv'
<1>1. /\ reg' = reg /\ ae' = ae /\ wb' = wb /\ value' = value /\ writes' = writes /\ status' = status
      /\ failures' = failures /\ applied' = applied
      /\ op \notin Settings /\ op' \in {"none", "read"}
  BY DEF SensorOf!Read32, SensorOf!ReadByte, SensorOf!ReadDone, SensorOf!Called, Settings
<1>2. "none" \notin Settings /\ "read" \notin Settings
  BY DEF Settings
<1>3. bytes' \in Seq(Span(0, 255)) /\ Reading'
  <2>1. CASE SensorOf(aes, wbs, values, mc, mf)!Read32
    <3>1. bytes' = <<>>
      BY <2>1 DEF SensorOf!Read32
    <3>2. Len(bytes') = 0
      BY <3>1
    <3>. QED
      BY <3>1, <3>2 DEF Reading
  <2>2. CASE SensorOf(aes, wbs, values, mc, mf)!ReadByte
    <3>. DEFINE n == Len(bytes)
                d == reg[SensorOf(aes, wbs, values, mc, mf)!Spare + n]
    <3>1. /\ op = "read" /\ n < 4
          /\ \/ bytes' = Append(bytes, d) /\ op' = op
             \/ bytes' = <<>> /\ op' = "none"
      BY <2>2 DEF SensorOf!ReadByte
    <3>2. bytes \in Seq(Span(0, 255)) /\ n \in Nat
      BY DEF SensorInv, SensorTyped
    <3>3. d = reg[4096 + n]
      BY DEF SensorOf!Spare
    <3>4. 4096 + n \in SpareAt
      BY <3>1, <3>2 DEF SpareAt
    <3>5. d \in Span(0, 255)
      BY <3>3, <3>4 DEF SensorInv, SensorTyped, AllAt
    <3>6. CASE bytes' = Append(bytes, d) /\ op' = op
      <4>1. /\ bytes' \in Seq(Span(0, 255)) /\ Len(bytes') = n + 1
            /\ bytes'[n + 1] = d /\ \A i \in 1 .. n : bytes'[i] = bytes[i]
        <5>. DEFINE S == Span(0, 255)
        <5>. HIDE DEF S, d, n
        <5>1. bytes \in Seq(S) /\ d \in S
          BY <3>2, <3>5 DEF S
        <5>. QED
          BY <3>6, <5>1, AppendProperties DEF S, n
      <4>2. \A i \in 1 .. n : bytes[i] = reg[4095 + i]
        BY <3>1 DEF SensorInv, Reading
      <4>. HIDE DEF d, n
      <4>3. ASSUME NEW i \in 1 .. n + 1 PROVE bytes'[i] = reg[4095 + i]
        <5>1. CASE i = n + 1
          <6>1. 4095 + i = 4096 + n
            BY <3>2, <5>1
          <6>. QED
            BY <3>3, <4>1, <5>1, <6>1
        <5>2. CASE i # n + 1
          <6>1. i \in 1 .. n
            BY <3>2, <5>2
          <6>. QED
            BY <4>1, <4>2, <6>1
        <5>. QED
          BY <5>1, <5>2
      <4>4. n + 1 <= 4
        BY <3>1, <3>2
      <4>. QED
        BY <1>1, <4>1, <4>3, <4>4 DEF Reading
    <3>7. CASE bytes' = <<>> /\ op' = "none"
      BY <3>7 DEF Reading
    <3>. QED
      BY <3>1, <3>6, <3>7
  <2>3. CASE SensorOf(aes, wbs, values, mc, mf)!ReadDone
    <3>1. bytes' = bytes /\ op' = "none"
      BY <2>3 DEF SensorOf!ReadDone
    <3>. QED
      BY <3>1 DEF SensorInv, SensorTyped, Reading
  <2>. QED
    BY <2>1, <2>2, <2>3
<1>4. SensorTyped'
  BY <1>1, <1>2, <1>3 DEF SensorInv, SensorTyped
<1>5. AllApplied'
  BY <1>1 DEF SensorInv, AllApplied, Stands
<1>6. op' \notin Settings
  BY <1>1, <1>2
<1>. QED
  BY <1>1, <1>3, <1>4, <1>5, <1>6 DEF SensorInv, UnderWay

LEMMA SensorStep ==
  ASSUME NEW aes, NEW wbs, NEW values, NEW mc, NEW mf,
         SensorOf(aes, wbs, values, mc, mf)!SensorAssumption, SensorInv,
         SensorOf(aes, wbs, values, mc, mf)!Next
  PROVE  SensorInv'
<1>1. CASE \/ \E c \in aes \union {None} : SensorOf(aes, wbs, values, mc, mf)!SetAe(c)
           \/ \E c \in wbs \union {None} : SensorOf(aes, wbs, values, mc, mf)!SetWb(c)
  BY <1>1, SensorSet
<1>2. CASE \/ SensorOf(aes, wbs, values, mc, mf)!ApplyAe
           \/ SensorOf(aes, wbs, values, mc, mf)!ApplyWb
           \/ \E v \in values : SensorOf(aes, wbs, values, mc, mf)!Write32(v)
  BY <1>2, SensorApply
<1>3. CASE SensorOf(aes, wbs, values, mc, mf)!WriteByte
  BY <1>3, SensorByte
<1>4. CASE SensorOf(aes, wbs, values, mc, mf)!Return
  BY <1>4, SensorReturn
<1>5. CASE \/ SensorOf(aes, wbs, values, mc, mf)!Read32
           \/ SensorOf(aes, wbs, values, mc, mf)!ReadByte
           \/ SensorOf(aes, wbs, values, mc, mf)!ReadDone
  BY <1>5, SensorRead
<1>. QED
  BY <1>1, <1>2, <1>3, <1>4, <1>5 DEF SensorOf!Next

LEMMA SensorSame ==
  ASSUME SensorInv, UNCHANGED sensorVars
  PROVE  SensorInv'
<1>1. /\ reg' = reg /\ ae' = ae /\ wb' = wb /\ value' = value /\ writes' = writes /\ op' = op
      /\ status' = status /\ bytes' = bytes /\ failures' = failures /\ applied' = applied
  BY DEF sensorVars
<1>2. \A w : Staged(w)' = Staged(w)
  BY <1>1 DEF Staged
<1>3. SensorTyped'
  BY <1>1 DEF SensorInv, SensorTyped
<1>4. UnderWay'
  BY <1>1, <1>2 DEF SensorInv, UnderWay
<1>5. AllApplied'
  BY <1>1 DEF SensorInv, AllApplied, Stands
<1>. QED
  BY <1>1, <1>3, <1>4, <1>5 DEF SensorInv, Reading

-----------------------------------------------------------------------------
(* What the registers then mean to the sensor                               *)

LEMMA HighLow ==
  ASSUME NEW v \in Nat, v < 65536
  PROVE  High(v) * 256 + Low(v) = v
BY DEF High, Low

LEMMA LowSmall ==
  ASSUME NEW v \in Nat, v < 256
  PROVE  Low(v) = v
BY DEF Low

LEMMA AeInPlace ==
  ASSUME NEW aes, NEW wbs, NEW values, NEW mc, NEW mf, SensorInv
  PROVE  SensorOf(aes, wbs, values, mc, mf)!AeAppliedIsInEffect
<1>. DEFINE T(a) == SensorOf(aes, wbs, values, mc, mf)!Two(a)
            E == SensorOf(aes, wbs, values, mc, mf)!AeInEffect
            c == applied.ae
<1>. SUFFICES ASSUME c # None
              PROVE  /\ E.exposure = c.exposure
                     /\ E.gain = SensorOf(aes, wbs, values, mc, mf)!GainReg(c.gain)
                     /\ E.level = c.brightness * 160 /\ E.speed = c.speed /\ E.has_roi = c.has_roi
                     /\ c.has_roi => E.roi = c.roi
  BY DEF SensorOf!AeAppliedIsInEffect
<1>1. c \in AeSane /\ \A a \in AeAt(c) : reg[a] = AeOf(c, a)
  <2>1. "ae" \in Settings /\ c = applied["ae"]
    BY DEF Settings
  <2>2. c \in Staging("ae") /\ Stands("ae", c)
    BY <2>1 DEF SensorInv, AllApplied
  <2>. QED
    BY <2>2 DEF Staging, Stands, At, Due
<1>. DEFINE gain == (c.gain * 10) \div 3
            level == c.brightness * 160
<1>2. /\ c.exposure \in Nat /\ c.exposure < 65536 /\ c.speed \in Nat /\ c.speed < 256
      /\ gain \in Nat /\ gain <= 255 /\ level \in Nat /\ level < 65536
      /\ c.gain \in Nat
      /\ c.roi.top \in Nat /\ c.roi.left \in Nat /\ c.roi.height \in Nat /\ c.roi.width \in Nat
      /\ c.roi.top < 65536 /\ c.roi.left < 65536 /\ c.roi.height < 65536 /\ c.roi.width < 65536
  BY <1>1, AeNumbers
<1>3. c.has_roi \in BOOLEAN /\ c.roi \in Regions
  BY <1>1 DEF AeSane
<1>4. SensorOf(aes, wbs, values, mc, mf)!GainReg(c.gain) = gain
  BY <1>2 DEF SensorOf!GainReg, SensorOf!Clamped, SensorOf!Byte
<1>5. \A a : T(a) = reg[a] * 256 + reg[a + 1]
  BY DEF SensorOf!Two, SensorOf!Byte
<1>6. E = [exposure |-> T(53940), gain |-> reg[53870], level |-> T(53856),
           speed |-> reg[53976], has_roi |-> reg[53800] = 1 /\ reg[53801] = 255,
           roi |-> [top |-> T(58972), left |-> T(58974), height |-> T(58976), width |-> T(58978)]]
  BY DEF SensorOf!AeInEffect
<1>. HIDE DEF T, E, c, gain, level
<1>7. /\ reg[53940] = AeOf(c, 53940) /\ reg[53941] = AeOf(c, 53941) /\ reg[53870] = AeOf(c, 53870)
      /\ reg[53856] = AeOf(c, 53856) /\ reg[53857] = AeOf(c, 53857) /\ reg[53976] = AeOf(c, 53976)
      /\ reg[53800] = AeOf(c, 53800) /\ reg[53801] = AeOf(c, 53801)
  BY <1>1 DEF AeAt, AeLimitsAt, AeRegionAt, AeWholeAt
<1>8. /\ AeOf(c, 53940) = High(c.exposure) /\ AeOf(c, 53941) = Low(c.exposure)
      /\ AeOf(c, 53870) = Low(gain) /\ AeOf(c, 53976) = Low(c.speed)
      /\ AeOf(c, 53856) = High(level) /\ AeOf(c, 53857) = Low(level)
  BY DEF AeOf, gain, level
<1>9. /\ AeOf(c, 53800) = IF c.has_roi THEN Low(1) ELSE Low(0)
      /\ AeOf(c, 53801) = IF c.has_roi THEN Low(255) ELSE Low(0)
  BY DEF AeOf
<1>10. T(53940) = c.exposure /\ T(53856) = level
  BY <1>2, <1>5, <1>7, <1>8, HighLow
<1>11. reg[53870] = gain /\ reg[53976] = c.speed
  BY <1>2, <1>7, <1>8, LowSmall
<1>12. (reg[53800] = 1 /\ reg[53801] = 255) = c.has_roi
  BY <1>3, <1>7, <1>9 DEF Low
<1>13. ASSUME c.has_roi
       PROVE  [top |-> T(58972), left |-> T(58974), height |-> T(58976), width |-> T(58978)] = c.roi
  <2>1. /\ reg[58972] = AeOf(c, 58972) /\ reg[58973] = AeOf(c, 58973) /\ reg[58974] = AeOf(c, 58974)
        /\ reg[58975] = AeOf(c, 58975) /\ reg[58976] = AeOf(c, 58976) /\ reg[58977] = AeOf(c, 58977)
        /\ reg[58978] = AeOf(c, 58978) /\ reg[58979] = AeOf(c, 58979)
    BY <1>1, <1>13 DEF AeAt, AeRegionAt
  <2>2. /\ AeOf(c, 58972) = High(c.roi.top) /\ AeOf(c, 58973) = Low(c.roi.top)
        /\ AeOf(c, 58974) = High(c.roi.left) /\ AeOf(c, 58975) = Low(c.roi.left)
        /\ AeOf(c, 58976) = High(c.roi.height) /\ AeOf(c, 58977) = Low(c.roi.height)
        /\ AeOf(c, 58978) = High(c.roi.width) /\ AeOf(c, 58979) = Low(c.roi.width)
    BY DEF AeOf
  <2>3. T(58972) = c.roi.top /\ T(58974) = c.roi.left
    BY <1>2, <1>5, <2>1, <2>2, HighLow
  <2>4. T(58976) = c.roi.height /\ T(58978) = c.roi.width
    BY <1>2, <1>5, <2>1, <2>2, HighLow
  <2>. DEFINE r == c.roi
  <2>5. r \in [top : Numbers, left : Numbers, height : Numbers, width : Numbers]
    BY <1>3 DEF Regions
  <2>. HIDE DEF r
  <2>6. r = [top |-> r.top, left |-> r.left, height |-> r.height, width |-> r.width]
    BY <2>5
  <2>. QED
    BY <2>3, <2>4, <2>6 DEF r
<1>. QED
  BY <1>4, <1>6, <1>10, <1>11, <1>12, <1>13 DEF level

LEMMA WbOfMode ==
  ASSUME NEW c, c.mode \in {"auto", "one_push", "preset"}
  PROVE  WbOf(c, 53820) = CASE c.mode = "auto" -> Low(0) [] c.mode = "one_push" -> Low(2) [] c.mode = "preset" -> Low(4)
BY DEF WbOf

LEMMA WbInPlace ==
  ASSUME NEW aes, NEW wbs, NEW values, NEW mc, NEW mf, SensorInv
  PROVE  SensorOf(aes, wbs, values, mc, mf)!WbAppliedIsInEffect
<1>. DEFINE T(a) == SensorOf(aes, wbs, values, mc, mf)!Two(a)
            P == SensorOf(aes, wbs, values, mc, mf)!Presets
            c == applied.wb
<1>. SUFFICES ASSUME c # None PROVE SensorOf(aes, wbs, values, mc, mf)!WbAppliedIsInEffect
  BY DEF SensorOf!WbAppliedIsInEffect
<1>1. c \in WbSane /\ \A a \in WbAt(c) : reg[a] = WbOf(c, a)
  <2>1. "wb" \in Settings /\ c = applied["wb"]
    BY DEF Settings
  <2>2. c \in Staging("wb") /\ Stands("wb", c)
    BY <2>1 DEF SensorInv, AllApplied
  <2>. QED
    BY <2>2 DEF Staging, Stands, At, Due
<1>2. /\ c.mode \in {"auto", "one_push", "preset"} /\ c.has_roi \in BOOLEAN
      /\ c.preset \in {3200, 4300, 5600, 6500}
  BY <1>1 DEF WbSane
<1>3. /\ WbWide(c) \in Nat /\ WbWide(c) <= 255 /\ WbWide(c) * 16 >= c.roi.width
      /\ WbTall(c) \in Nat /\ WbTall(c) <= 255 /\ WbTall(c) * 12 >= c.roi.height
  BY <1>1, WbNumbers
<1>4. \A a : T(a) = reg[a] * 256 + reg[a + 1]
  BY DEF SensorOf!Two, SensorOf!Byte
<1>5. /\ P[3200] = <<4096, 4096>> /\ P[4300] = <<2966, 6124>> /\ P[5600] = <<3199, 5483>>
      /\ P[6500] = <<3155, 5590>>
  BY DEF SensorOf!Presets
<1>. HIDE DEF T, P, c
<1>6. /\ c.mode = "auto" => reg[53820] = 0
      /\ c.mode = "one_push" => reg[53820] = 2
      /\ c.mode = "preset" => reg[53820] = 4
  <2>1. reg[53820] = WbOf(c, 53820)
    BY <1>1 DEF WbAt, WbModeAt
  <2>2. WbOf(c, 53820) = CASE c.mode = "auto" -> Low(0) [] c.mode = "one_push" -> Low(2)
                           [] c.mode = "preset" -> Low(4)
    BY <1>2, WbOfMode
  <2>3. Low(0) = 0 /\ Low(2) = 2 /\ Low(4) = 4
    BY DEF Low
  <2>. QED
    BY <1>2, <2>1, <2>2, <2>3
<1>7. ASSUME c.mode = "preset" PROVE <<T(56864), T(56866)>> = P[c.preset]
  <2>1. WbModeAt(c) = {53820, 56864, 56865, 56866, 56867}
    BY <1>7 DEF WbModeAt
  <2>2. /\ reg[56864] = WbOf(c, 56864) /\ reg[56865] = WbOf(c, 56865) /\ reg[56866] = WbOf(c, 56866)
        /\ reg[56867] = WbOf(c, 56867)
    BY <1>1, <2>1 DEF WbAt
  <2>3. /\ WbOf(c, 56864) = High(Red(c.preset)) /\ WbOf(c, 56865) = Low(Red(c.preset))
        /\ WbOf(c, 56866) = High(Blue(c.preset)) /\ WbOf(c, 56867) = Low(Blue(c.preset))
    BY DEF WbOf
  <2>4. /\ Red(3200) = 4096 /\ Red(4300) = 2966 /\ Red(5600) = 3199 /\ Red(6500) = 3155
        /\ Blue(3200) = 4096 /\ Blue(4300) = 6124 /\ Blue(5600) = 5483 /\ Blue(6500) = 5590
    BY DEF Red, Blue
  <2>5. /\ Red(c.preset) \in Nat /\ Red(c.preset) < 65536
        /\ Blue(c.preset) \in Nat /\ Blue(c.preset) < 65536
        /\ P[c.preset] = <<Red(c.preset), Blue(c.preset)>>
    BY <1>2, <1>5, <2>4
  <2>6. T(56864) = Red(c.preset) /\ T(56866) = Blue(c.preset)
    BY <1>4, <2>2, <2>3, <2>5, HighLow
  <2>. QED
    BY <2>5, <2>6
<1>8. ASSUME c.mode = "auto" PROVE (reg[58996] = 1) = c.has_roi
  <2>1. 58996 \in WbAt(c)
    BY <1>2, <1>8 DEF WbAt, WbModeAt
  <2>2. WbOf(c, 58996) = IF c.has_roi THEN Low(1) ELSE Low(0)
    BY DEF WbOf
  <2>3. Low(1) = 1 /\ Low(0) = 0
    BY DEF Low
  <2>. QED
    BY <1>1, <1>2, <2>1, <2>2, <2>3
<1>9. ASSUME c.mode = "auto", c.has_roi
      PROVE  reg[58980] * 16 >= c.roi.width /\ reg[58981] * 12 >= c.roi.height
  <2>1. 58980 \in WbAt(c) /\ 58981 \in WbAt(c)
    BY <1>9 DEF WbAt, WbModeAt
  <2>2. WbOf(c, 58980) = Low(WbWide(c)) /\ WbOf(c, 58981) = Low(WbTall(c))
    BY DEF WbOf
  <2>3. Low(WbWide(c)) = WbWide(c) /\ Low(WbTall(c)) = WbTall(c)
    BY <1>3, LowSmall
  <2>. QED
    BY <1>1, <1>3, <2>1, <2>2, <2>3
<1>. QED
  BY <1>2, <1>6, <1>7, <1>8, <1>9 DEF SensorOf!WbAppliedIsInEffect, T, P, c

LEMMA SensorHolds ==
  ASSUME NEW aes, NEW wbs, NEW values, NEW mc, NEW mf, SensorInv
  PROVE  /\ SensorOf(aes, wbs, values, mc, mf)!AeAppliedIsInEffect
         /\ SensorOf(aes, wbs, values, mc, mf)!WbAppliedIsInEffect
         /\ SensorOf(aes, wbs, values, mc, mf)!ReadIsWritten
         /\ SensorOf(aes, wbs, values, mc, mf)!FailureIsTold
<1>1. ASSUME op = "read", applied.spare # None, NEW i \in 1 .. Len(bytes)
      PROVE  bytes[i] = applied.spare[i]
  <2>. DEFINE v == applied.spare
  <2>1. "spare" \in Settings /\ v = applied["spare"] /\ v # None
    BY <1>1 DEF Settings
  <2>2. Stands("spare", v)
    BY <2>1 DEF SensorInv, AllApplied
  <2>. HIDE DEF v
  <2>3. \A a \in SpareAt : reg[a] = v[a - 4095]
    BY <2>2 DEF Stands, At, Due
  <2>4. bytes[i] = reg[4095 + i] /\ Len(bytes) <= 4 /\ Len(bytes) \in Nat
    BY <1>1 DEF SensorInv, Reading, SensorTyped
  <2>5. 4095 + i \in SpareAt /\ (4095 + i) - 4095 = i
    BY <2>4 DEF SpareAt
  <2>. QED
    BY <2>3, <2>4, <2>5 DEF v
<1>2. SensorOf(aes, wbs, values, mc, mf)!ReadIsWritten
  BY <1>1 DEF SensorOf!ReadIsWritten
<1>3. SensorOf(aes, wbs, values, mc, mf)!FailureIsTold
  BY DEF SensorInv, UnderWay, Settings, SensorOf!FailureIsTold
<1>. QED
  BY <1>2, <1>3, AeInPlace, WbInPlace

\* For all configurations whose fields have their types in C and whose white-balance regions are
\* of the sensor's picture, and all values: a setting whose apply returned 0 is in effect, all of
\* it, whichever bytes of which earlier call failed; a register is read as it was written; and
\* a call one of whose bytes failed says so.
THEOREM SettingsInEffect ==
  ASSUME NEW aes, NEW wbs, NEW values, NEW most_calls, NEW most_failures,
         SensorOf(aes, wbs, values, most_calls, most_failures)!SensorAssumption
  PROVE  SensorOf(aes, wbs, values, most_calls, most_failures)!Spec =>
           [](/\ SensorOf(aes, wbs, values, most_calls, most_failures)!AeAppliedIsInEffect
              /\ SensorOf(aes, wbs, values, most_calls, most_failures)!WbAppliedIsInEffect
              /\ SensorOf(aes, wbs, values, most_calls, most_failures)!ReadIsWritten
              /\ SensorOf(aes, wbs, values, most_calls, most_failures)!FailureIsTold)
<1>1. SensorOf(aes, wbs, values, most_calls, most_failures)!Init => SensorInv
  BY SensorInit
<1>2. SensorInv
      /\ [SensorOf(aes, wbs, values, most_calls, most_failures)!Next]_(SensorOf(aes, wbs, values, most_calls, most_failures)!vars)
      => SensorInv'
  <2>1. UNCHANGED SensorOf(aes, wbs, values, most_calls, most_failures)!vars => UNCHANGED sensorVars
    BY DEF sensorVars, SensorOf!vars
  <2>. QED
    BY <2>1, SensorStep, SensorSame
<1>3. SensorInv => /\ SensorOf(aes, wbs, values, most_calls, most_failures)!AeAppliedIsInEffect
                   /\ SensorOf(aes, wbs, values, most_calls, most_failures)!WbAppliedIsInEffect
                   /\ SensorOf(aes, wbs, values, most_calls, most_failures)!ReadIsWritten
                   /\ SensorOf(aes, wbs, values, most_calls, most_failures)!FailureIsTold
  BY SensorHolds
<1>. QED
  BY <1>1, <1>2, <1>3, PTL DEF SensorOf!Spec

-----------------------------------------------------------------------------
(* As the run composes them                                                 *)

LEMMA InjectIsOne ==
  /\ Inject!Init => InjectOf(4, 2, {3, 6}, 3, 2)!Init
  /\ Inject!Next => InjectOf(4, 2, {3, 6}, 3, 2)!Next
<1>1. Inject!Init => InjectOf(4, 2, {3, 6}, 3, 2)!Init
  BY DEF Inject!Init, InjectOf!Init
<1>2. \A S : Inject!Min(S) = InjectOf(4, 2, {3, 6}, 3, 2)!Min(S)
  BY DEF Inject!Min, InjectOf!Min
<1>3. ASSUME NEW k \in {"stream", "direct"}, NEW s \in {3, 6}
      PROVE  Inject!Call(k, s) => InjectOf(4, 2, {3, 6}, 3, 2)!Call(k, s)
  BY DEF Inject!Call, InjectOf!Call
<1>4. Inject!Stop => InjectOf(4, 2, {3, 6}, 3, 2)!Stop
  BY DEF Inject!Stop, InjectOf!Stop
<1>5. Inject!Switch => InjectOf(4, 2, {3, 6}, 3, 2)!Switch
  BY DEF Inject!Switch, Inject!Acknowledged, Inject!Failed, Inject!AfterFailedCommand,
         InjectOf!Switch, InjectOf!Acknowledged, InjectOf!Failed, InjectOf!AfterFailedCommand
<1>6. Inject!Before => InjectOf(4, 2, {3, 6}, 3, 2)!Before
  BY DEF Inject!Before, Inject!Acknowledged, Inject!Failed, Inject!AfterFailedCommand,
         InjectOf!Before, InjectOf!Acknowledged, InjectOf!Failed, InjectOf!AfterFailedCommand
<1>7. Inject!After => InjectOf(4, 2, {3, 6}, 3, 2)!After
  BY DEF Inject!After, Inject!Acknowledged, Inject!Failed,
         InjectOf!After, InjectOf!Acknowledged, InjectOf!Failed
<1>8. Inject!Fill => InjectOf(4, 2, {3, 6}, 3, 2)!Fill
  BY <1>2 DEF Inject!Fill, Inject!GiveUp, InjectOf!Fill, InjectOf!GiveUp
<1>9. Inject!Send => InjectOf(4, 2, {3, 6}, 3, 2)!Send
  BY <1>2 DEF Inject!Send, Inject!Advance, Inject!AfterFailedBlock,
              InjectOf!Send, InjectOf!Advance, InjectOf!AfterFailedBlock
<1>10. Inject!Complete => InjectOf(4, 2, {3, 6}, 3, 2)!Complete
  BY DEF Inject!Complete, InjectOf!Complete
<1>11. Inject!Next => InjectOf(4, 2, {3, 6}, 3, 2)!Next
  BY <1>3, <1>4, <1>5, <1>6, <1>7, <1>8, <1>9, <1>10
  DEF Inject!Next, Inject!Step, InjectOf!Next, InjectOf!Step
<1>. QED
  BY <1>1, <1>11

\* Of the SDK's parts on the host, the one that injects frames gives the module the beginning of
\* one call's frame, whichever part runs.
THEOREM InjectedFrames == Spec => []InjectedIsPrefix
<1>1. Init => InjectInv
  BY InjectInit, InjectIsOne DEF Init, AtRest
<1>2. InjectInv /\ [Next]_vars => InjectInv'
  <2>1. [Next]_vars => Inject!Next \/ UNCHANGED injectVars
    BY DEF Next, StreamNext, InfoNext, SensorNext, InjectNext, ImageNext, NormNext, vars
  <2>. QED
    BY <2>1, InjectIsOne, InjectStep
<1>3. InjectInv => InjectedIsPrefix
  <2>1. InjectInv => /\ InjectOf(4, 2, {3, 6}, 3, 2)!FrameIsPrefix
                     /\ InjectOf(4, 2, {3, 6}, 3, 2)!CompletedIsWhole
    BY InjectedPrefix
  <2>. QED
    BY <2>1 DEF InjectedIsPrefix, Inject!FrameIsPrefix, Inject!CompletedIsWhole,
                InjectOf!FrameIsPrefix, InjectOf!CompletedIsWhole
<1>. QED
  BY <1>1, <1>2, <1>3, PTL DEF Spec

\* The settings of the run
LEMMA SensorIsOne ==
  /\ SensorOf(AeConfigs, WbConfigs, SpareValues, 4, 1)!SensorAssumption
  /\ Sensor!Init => SensorOf(AeConfigs, WbConfigs, SpareValues, 4, 1)!Init
  /\ Sensor!Next => SensorOf(AeConfigs, WbConfigs, SpareValues, 4, 1)!Next
<1>. DEFINE A == AeConfigs
            B == WbConfigs
            V == SpareValues
<1>0. SensorOf(A, B, V, 4, 1)!SensorAssumption
  BY HostAssumption
  DEF Sensor!SensorAssumption, Sensor!Bits16, Sensor!Rois, Sensor!Byte,
      SensorOf!SensorAssumption, SensorOf!Bits16, SensorOf!Rois, SensorOf!Byte
<1>. HIDE DEF A, B, V
<1>1. Sensor!Byte = SensorOf(A, B, V, 4, 1)!Byte /\ Sensor!Spare = SensorOf(A, B, V, 4, 1)!Spare
  BY DEF Sensor!Byte, SensorOf!Byte, Sensor!Spare, SensorOf!Spare
<1>2. \A a, v : Sensor!B(a, v) = SensorOf(A, B, V, 4, 1)!B(a, v)
  BY <1>1 DEF Sensor!B, SensorOf!B
<1>3. \A a, v, n : Sensor!W(a, v, n) = SensorOf(A, B, V, 4, 1)!W(a, v, n)
  BY <1>1, <1>2 DEF Sensor!W, SensorOf!W
<1>4. \A v, x, y : Sensor!Clamped(v, x, y) = SensorOf(A, B, V, 4, 1)!Clamped(v, x, y)
  BY DEF Sensor!Clamped, SensorOf!Clamped
<1>5. \A v, x, y : Sensor!OrDefault(v, x, y) = SensorOf(A, B, V, 4, 1)!OrDefault(v, x, y)
  BY DEF Sensor!OrDefault, SensorOf!OrDefault
<1>6. \A v, x : Sensor!AlignUp(v, x) = SensorOf(A, B, V, 4, 1)!AlignUp(v, x)
  BY <1>1 DEF Sensor!AlignUp, SensorOf!AlignUp
<1>7. \A x : Sensor!GainReg(x) = SensorOf(A, B, V, 4, 1)!GainReg(x)
  BY <1>1, <1>4 DEF Sensor!GainReg, SensorOf!GainReg
<1>8. /\ Sensor!DefaultAe = SensorOf(A, B, V, 4, 1)!DefaultAe
      /\ Sensor!DefaultWb = SensorOf(A, B, V, 4, 1)!DefaultWb
      /\ Sensor!Presets = SensorOf(A, B, V, 4, 1)!Presets
      /\ Sensor!FullRoi = SensorOf(A, B, V, 4, 1)!FullRoi
  BY DEF Sensor!DefaultAe, SensorOf!DefaultAe, Sensor!DefaultWb, SensorOf!DefaultWb, Sensor!NoRoi, SensorOf!NoRoi,
         Sensor!Presets, SensorOf!Presets, Sensor!FullRoi, SensorOf!FullRoi
<1>9. \A c : Sensor!RoiUsable(c) = SensorOf(A, B, V, 4, 1)!RoiUsable(c)
  BY DEF Sensor!RoiUsable, SensorOf!RoiUsable
<1>10. \A c : Sensor!SaneAe(c) = SensorOf(A, B, V, 4, 1)!SaneAe(c)
  BY <1>4, <1>5, <1>8, <1>9 DEF Sensor!SaneAe, SensorOf!SaneAe
<1>11. \A c : Sensor!SaneWb(c) = SensorOf(A, B, V, 4, 1)!SaneWb(c)
  BY <1>8, <1>9 DEF Sensor!SaneWb, SensorOf!SaneWb
<1>12. \A c : Sensor!AeWrites(c) = SensorOf(A, B, V, 4, 1)!AeWrites(c)
  <2>1. \A c : Sensor!AeLimits(c) = SensorOf(A, B, V, 4, 1)!AeLimits(c)
    BY <1>3, <1>7 DEF Sensor!AeLimits, SensorOf!AeLimits
  <2>2. \A c : Sensor!AeRegion(c) = SensorOf(A, B, V, 4, 1)!AeRegion(c)
    BY <1>3 DEF Sensor!AeRegion, SensorOf!AeRegion
  <2>3. Sensor!AeWholeFrame = SensorOf(A, B, V, 4, 1)!AeWholeFrame
    BY <1>3 DEF Sensor!AeWholeFrame, SensorOf!AeWholeFrame
  <2>. QED
    BY <2>1, <2>2, <2>3 DEF Sensor!AeWrites, SensorOf!AeWrites
<1>13. \A c : Sensor!WbWrites(c) = SensorOf(A, B, V, 4, 1)!WbWrites(c)
  <2>1. Sensor!WbLimits = SensorOf(A, B, V, 4, 1)!WbLimits
    BY <1>3 DEF Sensor!WbLimits, SensorOf!WbLimits
  <2>2. \A r : Sensor!WbRegion(r) = SensorOf(A, B, V, 4, 1)!WbRegion(r)
    BY <1>3, <1>6 DEF Sensor!WbRegion, SensorOf!WbRegion
  <2>3. \A c : Sensor!WbMode(c) = SensorOf(A, B, V, 4, 1)!WbMode(c)
    BY <1>3, <1>8, <2>2 DEF Sensor!WbMode, SensorOf!WbMode
  <2>. QED
    BY <2>1, <2>3 DEF Sensor!WbWrites, SensorOf!WbWrites
<1>14. Sensor!Addresses = SensorOf(A, B, V, 4, 1)!Addresses
  <2>1. \A l : Sensor!BytesOf(l) = SensorOf(A, B, V, 4, 1)!BytesOf(l)
    BY DEF Sensor!BytesOf, SensorOf!BytesOf
  <2>2. Sensor!AeLists = SensorOf(A, B, V, 4, 1)!AeLists
    BY <1>8, <1>12 DEF Sensor!AeLists, SensorOf!AeLists
  <2>3. Sensor!WbLists = SensorOf(A, B, V, 4, 1)!WbLists
    BY <1>8, <1>13 DEF Sensor!WbLists, SensorOf!WbLists
  <2>4. Sensor!Written = SensorOf(A, B, V, 4, 1)!Written
    BY <2>1, <2>2, <2>3 DEF Sensor!Written, SensorOf!Written
  <2>. QED
    BY <1>1, <2>4 DEF Sensor!Addresses, SensorOf!Addresses, Sensor!Spares, SensorOf!Spares
<1>15. Sensor!Init => SensorOf(A, B, V, 4, 1)!Init
  BY <1>8, <1>14 DEF Sensor!Init, SensorOf!Init
<1>16. \A w, l : Sensor!Begin(w, l) => SensorOf(A, B, V, 4, 1)!Begin(w, l)
  BY DEF Sensor!Begin, SensorOf!Begin, Sensor!Called, SensorOf!Called
<1>17. \A c : Sensor!SetAe(c) => SensorOf(A, B, V, 4, 1)!SetAe(c)
  BY <1>8, <1>10 DEF Sensor!SetAe, SensorOf!SetAe, Sensor!Called, SensorOf!Called
<1>18. \A c : Sensor!SetWb(c) => SensorOf(A, B, V, 4, 1)!SetWb(c)
  BY <1>8, <1>11 DEF Sensor!SetWb, SensorOf!SetWb, Sensor!Called, SensorOf!Called
<1>19. Sensor!ApplyAe => SensorOf(A, B, V, 4, 1)!ApplyAe
  BY <1>12, <1>16 DEF Sensor!ApplyAe, SensorOf!ApplyAe
<1>20. Sensor!ApplyWb => SensorOf(A, B, V, 4, 1)!ApplyWb
  BY <1>13, <1>16 DEF Sensor!ApplyWb, SensorOf!ApplyWb
<1>21. \A v : Sensor!Write32(v) => SensorOf(A, B, V, 4, 1)!Write32(v)
  BY <1>1, <1>2, <1>16 DEF Sensor!Write32, SensorOf!Write32
<1>22. Sensor!WriteByte => SensorOf(A, B, V, 4, 1)!WriteByte
  BY DEF Sensor!WriteByte, SensorOf!WriteByte, Sensor!Fold, SensorOf!Fold, Sensor!AfterByte, SensorOf!AfterByte,
         Sensor!AfterValue, SensorOf!AfterValue
<1>23. Sensor!Return => SensorOf(A, B, V, 4, 1)!Return
  BY DEF Sensor!Return, SensorOf!Return
<1>24. Sensor!Read32 => SensorOf(A, B, V, 4, 1)!Read32
  BY DEF Sensor!Read32, SensorOf!Read32, Sensor!Called, SensorOf!Called
<1>25. Sensor!ReadByte => SensorOf(A, B, V, 4, 1)!ReadByte
  BY <1>1 DEF Sensor!ReadByte, SensorOf!ReadByte
<1>26. Sensor!ReadDone => SensorOf(A, B, V, 4, 1)!ReadDone
  BY DEF Sensor!ReadDone, SensorOf!ReadDone
<1>27. Sensor!Next => SensorOf(A, B, V, 4, 1)!Next
  BY <1>17, <1>18, <1>19, <1>20, <1>21, <1>22, <1>23, <1>24, <1>25, <1>26
  DEF Sensor!Next, SensorOf!Next, A, B, V
<1>. QED
  BY <1>0, <1>15, <1>27 DEF A, B, V

\* Of the SDK's parts on the host, the settings are in effect when their apply has returned 0,
\* whichever part runs.
THEOREM SettingsApplied == Spec => []AppliedIsInEffect
<1>1. Init => SensorInv
  BY SensorInit, SensorIsOne DEF Init, AtRest
<1>2. SensorInv /\ [Next]_vars => SensorInv'
  <2>1. [Next]_vars => Sensor!Next \/ UNCHANGED sensorVars
    BY DEF Next, StreamNext, InfoNext, SensorNext, InjectNext, ImageNext, NormNext, vars
  <2>. QED
    BY <2>1, SensorIsOne, SensorStep, SensorSame
<1>3. SensorInv => AppliedIsInEffect
  <2>1. SensorInv => /\ SensorOf(AeConfigs, WbConfigs, SpareValues, 4, 1)!AeAppliedIsInEffect
                     /\ SensorOf(AeConfigs, WbConfigs, SpareValues, 4, 1)!WbAppliedIsInEffect
                     /\ SensorOf(AeConfigs, WbConfigs, SpareValues, 4, 1)!ReadIsWritten
                     /\ SensorOf(AeConfigs, WbConfigs, SpareValues, 4, 1)!FailureIsTold
    BY SensorHolds
  <2>2. Sensor!AeAppliedIsInEffect = SensorOf(AeConfigs, WbConfigs, SpareValues, 4, 1)!AeAppliedIsInEffect
    BY DEF Sensor!AeAppliedIsInEffect, SensorOf!AeAppliedIsInEffect, Sensor!AeInEffect, SensorOf!AeInEffect,
           Sensor!Two, SensorOf!Two, Sensor!Byte, SensorOf!Byte, Sensor!GainReg, SensorOf!GainReg,
           Sensor!Clamped, SensorOf!Clamped
  <2>3. Sensor!WbAppliedIsInEffect = SensorOf(AeConfigs, WbConfigs, SpareValues, 4, 1)!WbAppliedIsInEffect
    BY DEF Sensor!WbAppliedIsInEffect, SensorOf!WbAppliedIsInEffect, Sensor!Two, SensorOf!Two,
           Sensor!Byte, SensorOf!Byte, Sensor!Presets, SensorOf!Presets
  <2>. QED
    BY <2>1, <2>2, <2>3 DEF AppliedIsInEffect, Sensor!ReadIsWritten, Sensor!FailureIsTold,
                            SensorOf!ReadIsWritten, SensorOf!FailureIsTold
<1>. QED
  BY <1>1, <1>2, <1>3, PTL DEF Spec
=============================================================================
