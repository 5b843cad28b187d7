----------------------------- MODULE BoardsProofs ----------------------------
(***************************************************************************)
(* Theorems about the programs of the boards: about the HTTP server, the   *)
(* two cores of the metadata service and the production test, for all      *)
(* values of their constants and as the run composes them.                 *)
(***************************************************************************)
EXTENDS MCBoards, FiniteSetTheorems, SequenceTheorems, TLAPS

-----------------------------------------------------------------------------
(***************************************************************************)
(* The HTTP server, for every number of connections, slots, parts of a     *)
(* picture, polls and frames: k has the constants of an instance.          *)
(*                                                                         *)
(* A picture is sent part by part, in callbacks between which the worker   *)
(* and other connections run.  That it is of one frame follows from who    *)
(* has the mutex, and that from what each slot says: LockInv, SlotInv and  *)
(* ClientInv relate mutex, slots and connections; StoredInv says how much  *)
(* of the stored frame is the worker's new one at each of its steps; and   *)
(* SentInv that what a browser got is of the frame stored now as long as   *)
(* its client is locked.  AckInv is needed for the callback that closes:   *)
(* nothing is acknowledged that no response has sent.                      *)
(*                                                                         *)
(* The callbacks work on a copy of the client and store it at their end,   *)
(* so the lemmas about them speak of that copy, st, and of the mutex they  *)
(* leave, m: ReadyClient says what both satisfy between two calls.         *)
(***************************************************************************)
Srv(k) == INSTANCE FrameServer WITH
  Connections <- k.connections, Slots <- k.slots, Parts <- k.parts, PollWidth <- k.width,
  MaxPolls <- k.polls, MaxFrame <- k.last

\* The inductive invariant
Storing == {"fields", "detections", "picture"}

StoredPictures(k) == [1 .. k.parts -> Nat]

StoredFrames(k) ==
  [valid : BOOLEAN, sequence : Nat, persons : BOOLEAN, picture : BOOLEAN, parts : StoredPictures(k)]

ClientStates(k) ==
  [in_use : BOOLEAN, handled : BOOLEAN, locked : BOOLEAN, body : {Srv(k)!None, "picture", "text"},
            sent : Nat, polls : Nat]

ServerTyped(k) ==
  /\ mutex \in {"free", "worker", "server"}
  /\ latest \in StoredFrames(k)
  /\ wpc \in {"read", "store", "outputs"} \cup Storing
  /\ frame \in 0 .. k.last
  /\ shown \subseteq 1 .. k.last
  /\ picture \in BOOLEAN
  /\ part \in 0 .. k.parts
  /\ pcb \in [k.connections -> {"new", "open", "ended"}]
  /\ slot \in [k.connections -> k.slots \cup {Srv(k)!None}]
  /\ client \in [k.slots -> ClientStates(k)]
  /\ unacked \in [k.connections -> Int]
  /\ got \in [k.connections -> Seq(Nat)]
  /\ status \in [valid : BOOLEAN, sequence : Nat, warning : BOOLEAN]

\* The mutex is the worker's, a client's, or nobody's.
LockInv(k) ==
  /\ mutex = "worker" <=> wpc \in Storing
  /\ mutex = "server" <=> \E s \in k.slots : client[s].locked
  /\ \A s, t \in k.slots : client[s].locked /\ client[t].locked => s = t

\* Connections that are open and slots in use correspond.
SlotInv(k) ==
  /\ \A c \in k.connections : pcb[c] = "open" <=> slot[c] \in k.slots
  /\ \A c \in k.connections : pcb[c] = "open" => client[slot[c]].in_use
  /\ \A s \in k.slots : client[s].in_use => \E c \in k.connections : pcb[c] = "open" /\ slot[c] = s
  /\ \A c, d \in k.connections : pcb[c] = "open" /\ pcb[d] = "open" /\ slot[c] = slot[d] => c = d

\* A client holds the mutex from the picture's lock to its last part.
ClientInv(k) ==
  \A s \in k.slots :
    /\ ~client[s].in_use => client[s] = Srv(k)!Blank
    /\ client[s].body = "picture" <=> client[s].locked
    /\ client[s].locked => client[s].handled
    /\ ~client[s].handled => client[s].sent = 0
    /\ client[s].locked => client[s].sent < 1 + k.parts

\* Only what was sent for a request is acknowledged.
AckInv(k) ==
  \A c \in k.connections : unacked[c] > 0 => pcb[c] = "open" /\ client[slot[c]].handled

\* What is stored is of one frame, as far as the worker has come.
StoredInv(k) ==
  /\ mutex # "worker" /\ latest.valid => (latest.persons <=> latest.sequence \in shown)
  /\ mutex # "worker" /\ latest.valid /\ latest.picture =>
       \A i \in 1 .. k.parts : latest.parts[i] = latest.sequence
  /\ wpc = "fields" => part = 0
  /\ wpc \in {"detections", "picture"} =>
       /\ latest.valid /\ latest.sequence = frame /\ latest.picture = picture
       /\ \A i \in 1 .. part : latest.parts[i] = frame
  /\ wpc = "detections" => part = 0
  /\ wpc = "picture" => (latest.persons <=> frame \in shown)
  /\ wpc = "store" => part = 0

Uniform(s, x) == \A i \in DOMAIN s : s[i] = x

\* What a browser was sent of a picture: of the frame stored now, while the mutex is held for
\* it, and nothing before a request was answered with a picture.
SentInv(k) ==
  \A c \in k.connections :
    /\ \E x \in Nat : Uniform(got[c], x)
    /\ pcb[c] = "new" => got[c] = <<>>
    /\ pcb[c] = "open" /\ ~client[slot[c]].locked => got[c] = <<>>
    /\ pcb[c] = "open" /\ client[slot[c]].locked =>
         latest.valid /\ latest.picture /\ Uniform(got[c], latest.sequence)

StatusInv(k) == status.valid => (status.warning <=> status.sequence \in shown)

FramesInv(k) ==
  ServerTyped(k) /\ LockInv(k) /\ SlotInv(k) /\ ClientInv(k) /\ AckInv(k) /\ StoredInv(k) /\
  SentInv(k) /\ StatusInv(k)

-----------------------------------------------------------------------------
\* Sequences of one value

LEMMA UniformConcat ==
  ASSUME NEW s \in Seq(Nat), NEW t \in Seq(Nat), NEW x, Uniform(s, x), Uniform(t, x)
  PROVE s \o t \in Seq(Nat) /\ Uniform(s \o t, x)
<1>1. /\ s \o t \in Seq(Nat)
      /\ Len(s \o t) = Len(s) + Len(t)
      /\ \A i \in 1 .. Len(s) + Len(t) : (s \o t)[i] = IF i <= Len(s) THEN s[i] ELSE t[i - Len(s)]
  BY ConcatProperties
<1>2. /\ DOMAIN (s \o t) = 1 .. Len(s) + Len(t)
      /\ DOMAIN s = 1 .. Len(s) /\ DOMAIN t = 1 .. Len(t)
      /\ Len(s) \in Nat /\ Len(t) \in Nat
  BY <1>1, LenProperties
<1>3. \A i \in 1 .. Len(s) + Len(t) : i <= Len(s) => s[i] = x
  BY <1>2 DEF Uniform
<1>4. \A i \in 1 .. Len(s) + Len(t) : ~(i <= Len(s)) => t[i - Len(s)] = x
  <2>. SUFFICES ASSUME NEW i \in 1 .. Len(s) + Len(t), ~(i <= Len(s)) PROVE t[i - Len(s)] = x
    OBVIOUS
  <2>1. i - Len(s) \in 1 .. Len(t)
    BY <1>2
  <2>. QED
    BY <1>2, <2>1 DEF Uniform
<1>. QED
  BY <1>1, <1>2, <1>3, <1>4 DEF Uniform

LEMMA UniformEmpty == \A g, x : g = <<>> => Uniform(g, x)
  BY DEF Uniform

LEMMA UniformPart ==
  ASSUME NEW k, NEW s \in StoredPictures(k), Srv(k)!ServerAssumption, NEW x \in Nat,
         \A i \in 1 .. k.parts : s[i] = x,
         NEW m \in Int, NEW n \in Int, m >= 1, n <= k.parts
  PROVE SubSeq(s, m, n) \in Seq(Nat) /\ Uniform(SubSeq(s, m, n), x)
<1>1. \A i \in m .. n : s[i] \in Nat /\ s[i] = x
  BY DEF StoredPictures, Srv!ServerAssumption
<1>2. /\ SubSeq(s, m, n) \in Seq(Nat)
      /\ Len(SubSeq(s, m, n)) = IF m <= n THEN n - m + 1 ELSE 0
      /\ \A i \in 1 .. n - m + 1 : SubSeq(s, m, n)[i] = s[m + i - 1]
  BY <1>1, SubSeqProperties
<1>3. DOMAIN SubSeq(s, m, n) = 1 .. Len(SubSeq(s, m, n))
  BY <1>2, LenProperties
<1>4. ASSUME NEW i \in 1 .. Len(SubSeq(s, m, n)) PROVE SubSeq(s, m, n)[i] = x
  <2>1. i \in 1 .. n - m + 1 /\ m + i - 1 \in m .. n
    BY <1>2
  <2>. QED
    BY <1>1, <1>2, <2>1
<1>. QED
  BY <1>2, <1>3, <1>4 DEF Uniform

LEMMA SameSize ==
  ASSUME NEW k, NEW S
  PROVE  Srv(k)!Cardinality(S) = Cardinality(S)
BY DEF Cardinality, Srv!Cardinality

-----------------------------------------------------------------------------
\* The client of a connection while a callback works on it: its state is st, and m is who has
\* the mutex.

ReadyClient(k, c, st, m) ==
  /\ st \in ClientStates(k) /\ st.in_use
  /\ st.body = "picture" <=> st.locked
  /\ st.locked => st.handled /\ st.sent < 1 + k.parts
  /\ ~st.handled => st.sent = 0
  /\ m \in {"free", "worker", "server"}
  /\ m = "server" <=> st.locked \/ \E t \in k.slots : t # slot[c] /\ client[t].locked
  /\ m = "worker" <=> mutex = "worker"
  /\ st.locked => \A t \in k.slots : t # slot[c] => ~client[t].locked
  /\ st.locked => latest.valid /\ latest.picture /\ Uniform(got[c], latest.sequence)
  /\ ~st.locked => got[c] = <<>>

\* What the callback keeps, but for the types
LockingInv(k) == LockInv(k) /\ SlotInv(k) /\ ClientInv(k) /\ AckInv(k) /\ StoredInv(k) /\ SentInv(k)

LEMMA BlankTyped ==
  ASSUME NEW k
  PROVE /\ Srv(k)!Blank \in ClientStates(k) /\ ~Srv(k)!Blank.in_use /\ ~Srv(k)!Blank.locked
        /\ Srv(k)!Blank.body # "picture" /\ Srv(k)!Blank.sent = 0
  BY DEF Srv!Blank, ClientStates, Srv!None

LEMMA StoredUntouched ==
  ASSUME NEW k, StoredInv(k), UNCHANGED Srv(k)!worker, mutex' = "worker" <=> mutex = "worker"
  PROVE StoredInv(k)'
  BY DEF StoredInv, Srv!worker

\* The client stays, in a state that is ready again.
LEMMA ClientStays ==
  ASSUME NEW k, ServerTyped(k), LockingInv(k), UNCHANGED Srv(k)!worker, NEW c \in k.connections,
         pcb[c] = "open",
         NEW st, NEW m, ReadyClient(k, c, st, m), NEW g \in Seq(Nat), NEW u \in Int,
         u > 0 => st.handled,
         st.locked => Uniform(g, latest.sequence),
         ~st.locked => g = <<>>,
         client' = [client EXCEPT ![slot[c]] = st], mutex' = m, got' = [got EXCEPT ![c] = g],
         unacked' = [unacked EXCEPT ![c] = u], UNCHANGED <<pcb, slot>>
  PROVE LockingInv(k)' /\ client' \in [k.slots -> ClientStates(k)]
        /\ got' \in [k.connections -> Seq(Nat)]
        /\ unacked' \in [k.connections -> Int] /\ mutex' \in {"free", "worker", "server"}
<1>1. slot[c] \in k.slots
  BY DEF LockingInv, SlotInv
<1>2. /\ client'[slot[c]] = st
      /\ \A t \in k.slots : t # slot[c] => client'[t] = client[t]
      /\ client' \in [k.slots -> ClientStates(k)]
  BY <1>1 DEF ServerTyped, ReadyClient
<1>3. /\ got'[c] = g
      /\ \A d \in k.connections : d # c => got'[d] = got[d]
      /\ got' \in [k.connections -> Seq(Nat)]
  BY DEF ServerTyped
<1>4. \A d \in k.connections : pcb[d] = "open" /\ d # c => slot[d] \in k.slots /\ slot[d] # slot[c]
  BY DEF LockingInv, SlotInv
<1>5. LockInv(k)'
  <2>1. mutex' = "worker" <=> wpc' \in Storing
    BY DEF LockingInv, LockInv, ReadyClient, Srv!worker
  <2>2. mutex' = "server" <=> \E s \in k.slots : client'[s].locked
    BY <1>1, <1>2 DEF ReadyClient
  <2>3. \A s, t \in k.slots : client'[s].locked /\ client'[t].locked => s = t
    BY <1>1, <1>2 DEF ReadyClient, LockingInv, LockInv
  <2>. QED
    BY <2>1, <2>2, <2>3 DEF LockInv
<1>6. SlotInv(k)'
  <2>1. \A d \in k.connections : pcb[d] = "open" => client'[slot[d]].in_use
    BY <1>2, <1>4 DEF LockingInv, SlotInv, ReadyClient
  <2>2. \A s \in k.slots : client'[s].in_use => \E d \in k.connections : pcb[d] = "open" /\ slot[d] = s
    BY <1>2 DEF LockingInv, SlotInv
  <2>. QED
    BY <2>1, <2>2 DEF LockingInv, SlotInv
<1>7. ClientInv(k)'
  BY <1>2 DEF LockingInv, ClientInv, ReadyClient
<1>11. AckInv(k)'
  <2>. SUFFICES ASSUME NEW d \in k.connections, unacked'[d] > 0
                PROVE pcb[d] = "open" /\ client'[slot[d]].handled
    BY DEF AckInv
  <2>1. CASE d = c
    BY <1>2, <2>1 DEF ServerTyped
  <2>2. CASE d # c
    <3>1. unacked[d] > 0
      BY <2>2 DEF ServerTyped
    <3>. QED
      BY <1>2, <1>4, <2>2, <3>1 DEF LockingInv, AckInv
  <2>. QED
    BY <2>1, <2>2
<1>8. StoredInv(k)'
  BY StoredUntouched DEF LockingInv, ReadyClient
<1>9. SentInv(k)'
  <2>. SUFFICES ASSUME NEW d \in k.connections
                PROVE /\ \E x \in Nat : Uniform(got'[d], x)
                      /\ pcb'[d] = "new" => got'[d] = <<>>
                      /\ pcb'[d] = "open" /\ ~client'[slot'[d]].locked => got'[d] = <<>>
                      /\ pcb'[d] = "open" /\ client'[slot'[d]].locked =>
                           latest'.valid /\ latest'.picture /\ Uniform(got'[d], latest'.sequence)
    BY DEF SentInv, Uniform
  <2>1. latest' = latest /\ latest.sequence \in Nat
    BY DEF Srv!worker, ServerTyped, StoredFrames
  <2>2. CASE d = c
    <3>1. \E x \in Nat : Uniform(g, x)
      BY <2>1, UniformEmpty
    <3>. QED
      BY <1>2, <1>3, <2>1, <2>2, <3>1 DEF ReadyClient
  <2>3. CASE d # c
    BY <1>2, <1>3, <1>4, <2>1, <2>3 DEF LockingInv, SentInv
  <2>. QED
    BY <2>2, <2>3
<1>10. unacked' \in [k.connections -> Int]
  BY DEF ServerTyped
<1>. QED
  BY <1>2, <1>3, <1>5, <1>6, <1>7, <1>8, <1>9, <1>10, <1>11 DEF LockingInv, ReadyClient

\* The connection ends, and whatever its client holds is given back.
LEMMA ClientCloses ==
  ASSUME NEW k, Srv(k)!ServerAssumption, ServerTyped(k), LockingInv(k), UNCHANGED Srv(k)!worker,
         NEW c \in k.connections, pcb[c] = "open",
         NEW st, NEW m, ReadyClient(k, c, st, m), Srv(k)!Close(c, st, m), NEW g \in Seq(Nat),
         st.locked => Uniform(g, latest.sequence),
         ~st.locked => g = <<>>,
         got' = [got EXCEPT ![c] = g]
  PROVE LockingInv(k)' /\ client' \in [k.slots -> ClientStates(k)]
        /\ got' \in [k.connections -> Seq(Nat)]
        /\ unacked' \in [k.connections -> Int] /\ mutex' \in {"free", "worker", "server"}
        /\ pcb' \in [k.connections -> {"new", "open", "ended"}]
        /\ slot' \in [k.connections -> k.slots \cup {Srv(k)!None}]
<1>1. slot[c] \in k.slots
  BY DEF LockingInv, SlotInv
<1>2. /\ client'[slot[c]] = Srv(k)!Blank
      /\ \A t \in k.slots : t # slot[c] => client'[t] = client[t]
      /\ client' \in [k.slots -> ClientStates(k)]
  BY <1>1, BlankTyped DEF Srv!Close, Srv!Cleared, ServerTyped
<1>3. /\ got'[c] = g
      /\ \A d \in k.connections : d # c => got'[d] = got[d]
      /\ got' \in [k.connections -> Seq(Nat)]
  BY DEF ServerTyped
<1>4. \A d \in k.connections : pcb[d] = "open" /\ d # c => slot[d] \in k.slots /\ slot[d] # slot[c]
  BY DEF LockingInv, SlotInv
<1>5. /\ pcb'[c] = "ended" /\ slot'[c] = Srv(k)!None
      /\ \A d \in k.connections : d # c => pcb'[d] = pcb[d] /\ slot'[d] = slot[d]
      /\ pcb' \in [k.connections -> {"new", "open", "ended"}]
      /\ slot' \in [k.connections -> k.slots \cup {Srv(k)!None}]
  BY DEF Srv!Close, ServerTyped
<1>6. mutex' = IF st.locked THEN "free" ELSE m
  BY DEF Srv!Close, Srv!Released
<1>7. mutex' = "worker" <=> mutex = "worker"
  BY <1>6 DEF ReadyClient
<1>8. LockInv(k)'
  <2>1. mutex' = "worker" <=> wpc' \in Storing
    BY <1>7 DEF LockingInv, LockInv, Srv!worker
  <2>2. mutex' = "server" <=> \E s \in k.slots : client'[s].locked
    BY <1>1, <1>2, <1>6, BlankTyped DEF ReadyClient
  <2>3. \A s, t \in k.slots : client'[s].locked /\ client'[t].locked => s = t
    BY <1>1, <1>2, BlankTyped DEF LockingInv, LockInv
  <2>. QED
    BY <2>1, <2>2, <2>3 DEF LockInv
<1>9. SlotInv(k)'
  <2>1. \A d \in k.connections : pcb'[d] = "open" <=> slot'[d] \in k.slots
    BY <1>5 DEF LockingInv, SlotInv, Srv!ServerAssumption, Srv!None
  <2>2. \A d \in k.connections : pcb'[d] = "open" => client'[slot'[d]].in_use
    BY <1>2, <1>4, <1>5 DEF LockingInv, SlotInv
  <2>3. \A s \in k.slots : client'[s].in_use => \E d \in k.connections : pcb'[d] = "open" /\
        slot'[d] = s
    <3>. SUFFICES ASSUME NEW s \in k.slots, client'[s].in_use
                  PROVE \E d \in k.connections : pcb'[d] = "open" /\ slot'[d] = s
      OBVIOUS
    <3>1. s # slot[c] /\ client[s].in_use
      BY <1>2, BlankTyped
    <3>2. PICK d \in k.connections : pcb[d] = "open" /\ slot[d] = s
      BY <3>1 DEF LockingInv, SlotInv
    <3>. QED
      BY <1>5, <3>1, <3>2
  <2>4. \A d, e \in k.connections : pcb'[d] = "open" /\ pcb'[e] = "open" /\ slot'[d] = slot'[e] => d = e
    BY <1>5 DEF LockingInv, SlotInv
  <2>. QED
    BY <2>1, <2>2, <2>3, <2>4 DEF SlotInv
<1>10. ClientInv(k)'
  BY <1>2, BlankTyped DEF LockingInv, ClientInv
<1>14. AckInv(k)'
  <2>. SUFFICES ASSUME NEW d \in k.connections, unacked'[d] > 0
                PROVE pcb'[d] = "open" /\ client'[slot'[d]].handled
    BY DEF AckInv
  <2>1. d # c /\ unacked[d] > 0
    BY DEF Srv!Close, ServerTyped
  <2>. QED
    BY <1>2, <1>4, <1>5, <2>1 DEF LockingInv, AckInv
<1>11. StoredInv(k)'
  BY <1>7, StoredUntouched DEF LockingInv
<1>12. SentInv(k)'
  <2>. SUFFICES ASSUME NEW d \in k.connections
                PROVE /\ \E x \in Nat : Uniform(got'[d], x)
                      /\ pcb'[d] = "new" => got'[d] = <<>>
                      /\ pcb'[d] = "open" /\ ~client'[slot'[d]].locked => got'[d] = <<>>
                      /\ pcb'[d] = "open" /\ client'[slot'[d]].locked =>
                           latest'.valid /\ latest'.picture /\ Uniform(got'[d], latest'.sequence)
    BY DEF SentInv, Uniform
  <2>1. latest' = latest /\ latest.sequence \in Nat
    BY DEF Srv!worker, ServerTyped, StoredFrames
  <2>2. CASE d = c
    <3>1. \E x \in Nat : Uniform(g, x)
      BY <2>1, UniformEmpty
    <3>. QED
      BY <1>3, <1>5, <2>2, <3>1
  <2>3. CASE d # c
    <3>1. /\ \E x \in Nat : Uniform(got[d], x)
          /\ pcb[d] = "new" => got[d] = <<>>
          /\ pcb[d] = "open" /\ ~client[slot[d]].locked => got[d] = <<>>
          /\ pcb[d] = "open" /\ client[slot[d]].locked =>
               latest.valid /\ latest.picture /\ Uniform(got[d], latest.sequence)
      BY DEF LockingInv, SentInv
    <3>2. got'[d] = got[d] /\ pcb'[d] = pcb[d] /\ slot'[d] = slot[d]
      BY <1>3, <1>5, <2>3
    <3>3. pcb[d] = "open" => client'[slot[d]] = client[slot[d]]
      BY <1>2, <1>4, <2>3
    <3>. QED
      BY <2>1, <3>1, <3>2, <3>3
  <2>. QED
    BY <2>2, <2>3
<1>13. unacked' \in [k.connections -> Int]
  BY DEF Srv!Close, ServerTyped
<1>. QED
  BY <1>2, <1>3, <1>5, <1>6, <1>8, <1>9, <1>10, <1>11, <1>12, <1>13, <1>14 DEF LockingInv, ReadyClient

-----------------------------------------------------------------------------
\* The callbacks

LEMMA PartsUniform ==
  ASSUME NEW k, Srv(k)!ServerAssumption, ServerTyped(k), StoredInv(k), NEW c, NEW st, NEW m,
         ReadyClient(k, c, st, m),
         NEW upto \in st.sent .. Srv(k)!Units(st.body)
  PROVE /\ Srv(k)!PartsSent(st, upto) \in Seq(Nat)
        /\ st.locked => Uniform(Srv(k)!PartsSent(st, upto), latest.sequence)
        /\ ~st.locked => Srv(k)!PartsSent(st, upto) = <<>>
<1>1. CASE st.locked
  <2>1. st.body = "picture" /\ latest.valid /\ latest.picture /\ mutex # "worker"
    BY <1>1 DEF ReadyClient
  <2>2. st.sent \in Nat /\ upto \in Int /\ upto <= 1 + k.parts
    BY <2>1 DEF ReadyClient, ClientStates, Srv!Units, Srv!ServerAssumption
  <2>3. latest.parts \in StoredPictures(k) /\ latest.sequence \in Nat
    BY DEF ServerTyped, StoredFrames
  <2>4. \A i \in 1 .. k.parts : latest.parts[i] = latest.sequence
    BY <2>1 DEF StoredInv
  <2>. DEFINE first == IF st.sent = 0 THEN 1 ELSE st.sent
  <2>5. first \in Int /\ first >= 1 /\ upto - 1 \in Int /\ upto - 1 <= k.parts
    BY <2>2 DEF Srv!ServerAssumption
  <2>6. Srv(k)!PartsSent(st, upto) = SubSeq(latest.parts, first, upto - 1)
    BY <2>1 DEF Srv!PartsSent
  <2>. HIDE DEF first
  <2>. QED
    BY <1>1, <2>3, <2>4, <2>5, <2>6, UniformPart
<1>2. CASE ~st.locked
  <2>1. st.body # "picture"
    BY <1>2 DEF ReadyClient
  <2>. QED
    BY <1>2, <2>1, EmptySeq DEF Srv!PartsSent
<1>. QED
  BY <1>1, <1>2

ServerTypes(k) ==
  /\ mutex \in {"free", "worker", "server"}
  /\ pcb \in [k.connections -> {"new", "open", "ended"}]
  /\ slot \in [k.connections -> k.slots \cup {Srv(k)!None}]
  /\ client \in [k.slots -> ClientStates(k)]
  /\ unacked \in [k.connections -> Int]
  /\ got \in [k.connections -> Seq(Nat)]

LEMMA ResponseKeeps ==
  ASSUME NEW k, Srv(k)!ServerAssumption, ServerTyped(k), LockingInv(k), UNCHANGED Srv(k)!worker,
         NEW c \in k.connections, pcb[c] = "open",
         NEW st, NEW m, ReadyClient(k, c, st, m), st.handled, NEW owed \in Int,
         Srv(k)!Send(c, st, m, owed)
  PROVE LockingInv(k)' /\ ServerTypes(k)'
<1>1. PICK upto \in st.sent .. Srv(k)!Units(st.body) :
        /\ got' = [got EXCEPT ![c] = @ \o Srv(k)!PartsSent(st, upto)]
        /\ IF upto = Srv(k)!Units(st.body) THEN Srv(k)!Close(c, st, m)
           ELSE /\ client' = [client EXCEPT ![slot[c]] = [st EXCEPT !.sent = upto]] /\ mutex' = m
                /\ unacked' = [unacked EXCEPT ![c] = owed + upto - st.sent]
                /\ UNCHANGED <<pcb, slot>>
  BY DEF Srv!Send
<1>. DEFINE g == got[c] \o Srv(k)!PartsSent(st, upto)
<1>2. got' = [got EXCEPT ![c] = g]
  BY <1>1
<1>3. /\ Srv(k)!PartsSent(st, upto) \in Seq(Nat)
      /\ st.locked => Uniform(Srv(k)!PartsSent(st, upto), latest.sequence)
      /\ ~st.locked => Srv(k)!PartsSent(st, upto) = <<>>
  BY PartsUniform DEF LockingInv
<1>4. got[c] \in Seq(Nat)
  BY DEF ServerTyped
<1>5. g \in Seq(Nat) /\ (st.locked => Uniform(g, latest.sequence))
  <2>1. g \in Seq(Nat)
    BY <1>3, <1>4, ConcatProperties
  <2>2. st.locked => Uniform(got[c], latest.sequence)
    BY DEF ReadyClient
  <2>. QED
    BY <1>3, <1>4, <2>1, <2>2, UniformConcat
<1>6. ~st.locked => g = <<>>
  <2>1. ~st.locked => got[c] = <<>>
    BY DEF ReadyClient
  <2>2. \A s \in Seq(Nat) : s \o <<>> = s
    BY ConcatEmptySeq
  <2>. QED
    BY <1>3, <1>4, <2>1, <2>2
<1>. HIDE DEF g
<1>7. CASE upto = Srv(k)!Units(st.body)
  <2>1. Srv(k)!Close(c, st, m)
    BY <1>1, <1>7
  <2>2. /\ LockingInv(k)' /\ client' \in [k.slots -> ClientStates(k)]
        /\ got' \in [k.connections -> Seq(Nat)]
        /\ unacked' \in [k.connections -> Int] /\ mutex' \in {"free", "worker", "server"}
        /\ pcb' \in [k.connections -> {"new", "open", "ended"}]
        /\ slot' \in [k.connections -> k.slots \cup {Srv(k)!None}]
    BY <1>2, <1>5, <1>6, <2>1, ClientCloses
  <2>. QED
    BY <2>2 DEF ServerTypes
<1>8. CASE upto # Srv(k)!Units(st.body)
  <2>. DEFINE next == [st EXCEPT !.sent = upto]
  <2>1. st.sent \in Nat /\ upto \in Nat /\ Srv(k)!Units(st.body) \in Nat /\ upto < Srv(k)!Units(st.body)
    BY <1>8 DEF ReadyClient, ClientStates, Srv!Units, Srv!ServerAssumption
  <2>2. /\ next \in ClientStates(k) /\ next.in_use = st.in_use /\ next.body = st.body /\
           next.locked = st.locked
        /\ next.handled = st.handled /\ next.sent = upto
    BY <2>1 DEF ReadyClient, ClientStates
  <2>3. st.locked => upto < 1 + k.parts
    BY <2>1 DEF ReadyClient, Srv!Units
  <2>4. client' = [client EXCEPT ![slot[c]] = next]
    BY <1>1, <1>8
  <2>. HIDE DEF next
  <2>5. ReadyClient(k, c, next, m)
    BY <2>2, <2>3 DEF ReadyClient
  <2>6. owed + upto - st.sent \in Int
    BY <2>1
  <2>7. /\ mutex' = m /\ UNCHANGED <<pcb, slot>>
        /\ unacked' = [unacked EXCEPT ![c] = owed + upto - st.sent]
    BY <1>1, <1>8
  <2>8. (next.locked => Uniform(g, latest.sequence)) /\ (~next.locked => g = <<>>)
    BY <1>5, <1>6, <2>2
  <2>. QED
    BY <1>2, <1>5, <2>2, <2>4, <2>5, <2>6, <2>7, <2>8, ClientStays DEF ServerTypes, ServerTyped
<1>. QED
  BY <1>7, <1>8

\* A client is ready as long as a callback does not touch its response.
LEMMA HeldReady ==
  ASSUME NEW k, ServerTyped(k), LockingInv(k), NEW c \in k.connections, pcb[c] = "open",
         NEW st \in ClientStates(k),
         st.in_use = client[slot[c]].in_use, st.body = client[slot[c]].body,
         st.locked = client[slot[c]].locked, st.sent = client[slot[c]].sent,
         client[slot[c]].handled => st.handled
  PROVE ReadyClient(k, c, st, mutex)
<1>1. slot[c] \in k.slots /\ client[slot[c]].in_use
  BY DEF LockingInv, SlotInv
<1>2. st.body = "picture" <=> st.locked
  BY <1>1 DEF LockingInv, ClientInv
<1>3. (st.locked => st.handled /\ st.sent < 1 + k.parts) /\ (~st.handled => st.sent = 0)
  BY <1>1 DEF LockingInv, ClientInv
<1>4. mutex = "server" <=> st.locked \/ \E t \in k.slots : t # slot[c] /\ client[t].locked
  BY <1>1 DEF LockingInv, LockInv
<1>5. st.locked => \A t \in k.slots : t # slot[c] => ~client[t].locked
  BY <1>1 DEF LockingInv, LockInv
<1>6. st.locked => latest.valid /\ latest.picture /\ Uniform(got[c], latest.sequence)
  BY DEF LockingInv, SentInv
<1>7. ~st.locked => got[c] = <<>>
  BY DEF LockingInv, SentInv
<1>8. mutex \in {"free", "worker", "server"}
  BY DEF ServerTyped
<1>. QED
  BY <1>1, <1>2, <1>3, <1>4, <1>5, <1>6, <1>7, <1>8 DEF ReadyClient

LEMMA RequestKeeps ==
  ASSUME NEW k, Srv(k)!ServerAssumption, ServerTyped(k), LockingInv(k), StatusInv(k),
         NEW c \in k.connections, Srv(k)!Request(c)
  PROVE LockingInv(k)' /\ ServerTypes(k)' /\ StatusInv(k)'
        /\ status' \in [valid : BOOLEAN, sequence : Nat, warning : BOOLEAN]
<1>. DEFINE st == [client[slot[c]] EXCEPT !.handled = TRUE]
            text == [st EXCEPT !.body = "text"]
            locking == Srv(k)!Locked(st)
<1>1. pcb[c] = "open" /\ slot[c] \in k.slots /\ client[slot[c]] \in ClientStates(k) /\
      client[slot[c]].in_use
      /\ ~client[slot[c]].handled /\ UNCHANGED Srv(k)!worker
  BY DEF Srv!Request, LockingInv, SlotInv, ServerTyped
<1>2. ~client[slot[c]].locked
  BY <1>1 DEF LockingInv, ClientInv
<1>3. /\ text \in ClientStates(k) /\ text.in_use /\ text.handled /\ ~text.locked /\ text.body = "text"
  BY <1>1, <1>2 DEF ClientStates
<1>4. /\ locking \in ClientStates(k) /\ locking.in_use /\ locking.handled /\ locking.locked = TRUE /\
         locking.body = "picture"
      /\ locking.sent = client[slot[c]].sent
  BY <1>1, <1>2 DEF ClientStates, Srv!Locked
<1>5. (Srv(k)!AnswerPicture(c, st) /\ UNCHANGED status) \/ Srv(k)!AnswerStatus(c, st)
  BY DEF Srv!Request
<1>6. Srv(k)!AnswerPicture(c, st) =>
        IF mutex = "free" /\ latest.valid /\ latest.picture THEN Srv(k)!Send(c, locking, "server", 0)
        ELSE Srv(k)!Send(c, text, mutex, 0)
  BY <1>4 DEF Srv!AnswerPicture
<1>7. Srv(k)!AnswerStatus(c, st) =>
        /\ Srv(k)!Send(c, text, mutex, 0)
        /\ status' = [valid |-> Srv(k)!Seen.valid, sequence |-> Srv(k)!Seen.sequence,
             warning |-> Srv(k)!Seen.persons]
  BY DEF Srv!AnswerStatus
<1>. HIDE DEF text, locking, st
<1>8. got[c] = <<>>
  BY <1>1, <1>2 DEF LockingInv, SentInv
<1>9. ReadyClient(k, c, text, mutex)
  BY <1>1, <1>2, <1>3, <1>8 DEF ReadyClient, LockingInv, LockInv, ServerTyped
<1>10. ASSUME mutex = "free", latest.valid, latest.picture, Srv(k)!Send(c, locking, "server", 0)
       PROVE LockingInv(k)' /\ ServerTypes(k)'
  <2>1. \A t \in k.slots : ~client[t].locked
    BY <1>10 DEF LockingInv, LockInv
  <2>2. Uniform(got[c], latest.sequence)
    BY <1>8, UniformEmpty
  <2>3. locking.sent < 1 + k.parts
    BY <1>1, <1>4 DEF LockingInv, ClientInv, Srv!ServerAssumption
  <2>4. ReadyClient(k, c, locking, "server")
    BY <1>4, <1>10, <2>1, <2>2, <2>3 DEF ReadyClient
  <2>. QED
    BY <1>1, <1>4, <1>10, <2>4, ResponseKeeps
<1>11. ASSUME Srv(k)!Send(c, text, mutex, 0) PROVE LockingInv(k)' /\ ServerTypes(k)'
  BY <1>1, <1>3, <1>9, <1>11, ResponseKeeps
<1>12. ASSUME UNCHANGED status
       PROVE StatusInv(k)' /\ status' \in [valid : BOOLEAN, sequence : Nat, warning : BOOLEAN]
  BY <1>1, <1>12 DEF StatusInv, ServerTyped, Srv!worker
<1>13. ASSUME Srv(k)!AnswerStatus(c, st)
       PROVE StatusInv(k)' /\ status' \in [valid : BOOLEAN, sequence : Nat, warning : BOOLEAN]
  <2>1. Srv(k)!Seen.valid \in BOOLEAN /\ Srv(k)!Seen.sequence \in Nat /\ Srv(k)!Seen.persons \in BOOLEAN
    BY DEF Srv!Seen, Srv!NoFrame, ServerTyped, StoredFrames
  <2>2. Srv(k)!Seen.valid => (Srv(k)!Seen.persons <=> Srv(k)!Seen.sequence \in shown)
    BY DEF Srv!Seen, Srv!NoFrame, LockingInv, StoredInv
  <2>3. shown' = shown
    BY <1>1 DEF Srv!worker
  <2>. HIDE DEF Srv!Seen
  <2>. QED
    BY <1>7, <1>13, <2>1, <2>2, <2>3 DEF StatusInv
<1>. QED
  BY <1>5, <1>6, <1>7, <1>10, <1>11, <1>12, <1>13

LEMMA AckedKeeps ==
  ASSUME NEW k, Srv(k)!ServerAssumption, ServerTyped(k), LockingInv(k), NEW c \in k.connections,
         Srv(k)!Acked(c)
  PROVE LockingInv(k)' /\ ServerTypes(k)'
<1>. DEFINE st == [client[slot[c]] EXCEPT !.polls = 0]
<1>1. pcb[c] = "open" /\ slot[c] \in k.slots /\ client[slot[c]] \in ClientStates(k) /\
      UNCHANGED Srv(k)!worker
  BY DEF Srv!Acked, LockingInv, SlotInv, ServerTyped
<1>2. PICK owed \in 0 .. unacked[c] - 1 : Srv(k)!Send(c, st, mutex, owed)
  BY DEF Srv!Acked
<1>3. unacked[c] \in Int /\ owed \in Int /\ unacked[c] > 0
  BY DEF ServerTyped
<1>4. client[slot[c]].handled
  BY <1>3 DEF LockingInv, AckInv
<1>5. /\ st \in ClientStates(k) /\ st.in_use = client[slot[c]].in_use /\ st.body = client[slot[c]].body
      /\ st.locked = client[slot[c]].locked /\ st.sent = client[slot[c]].sent
      /\ st.handled = client[slot[c]].handled
  BY <1>1 DEF ClientStates
<1>. HIDE DEF st
<1>6. ReadyClient(k, c, st, mutex)
  BY <1>1, <1>5, HeldReady
<1>. QED
  BY <1>1, <1>2, <1>3, <1>4, <1>5, <1>6, ResponseKeeps

LEMMA TimerKeeps ==
  ASSUME NEW k, Srv(k)!ServerAssumption, ServerTyped(k), LockingInv(k), NEW c \in k.connections,
         Srv(k)!Poll(c)
  PROVE LockingInv(k)' /\ ServerTypes(k)'
<1>. DEFINE st == [client[slot[c]] EXCEPT !.polls = (@ + 1) % k.width]
<1>1. pcb[c] = "open" /\ slot[c] \in k.slots /\ client[slot[c]] \in ClientStates(k) /\
      UNCHANGED Srv(k)!worker
  BY DEF Srv!Poll, LockingInv, SlotInv, ServerTyped
<1>2. \/ Srv(k)!GivesUp(st) /\ Srv(k)!Close(c, st, mutex) /\ UNCHANGED got
      \/ ~Srv(k)!GivesUp(st) /\ st.handled /\ Srv(k)!Send(c, st, mutex, unacked[c])
      \/ /\ ~Srv(k)!GivesUp(st) /\ ~st.handled /\ client' = [client EXCEPT ![slot[c]] = st]
         /\ UNCHANGED <<mutex, pcb, slot, unacked, got>>
  BY DEF Srv!Poll
<1>3. (client[slot[c]].polls + 1) % k.width \in Nat
  BY <1>1 DEF ClientStates, Srv!ServerAssumption
<1>4. /\ st \in ClientStates(k) /\ st.in_use = client[slot[c]].in_use /\ st.body = client[slot[c]].body
      /\ st.locked = client[slot[c]].locked /\ st.sent = client[slot[c]].sent
      /\ st.handled = client[slot[c]].handled
  BY <1>1, <1>3 DEF ClientStates
<1>. HIDE DEF st
<1>5. ReadyClient(k, c, st, mutex)
  BY <1>1, <1>4, HeldReady
<1>6. /\ got[c] \in Seq(Nat) /\ got = [got EXCEPT ![c] = got[c]] /\ unacked[c] \in Int
      /\ unacked = [unacked EXCEPT ![c] = unacked[c]]
      /\ st.locked => Uniform(got[c], latest.sequence)
      /\ ~st.locked => got[c] = <<>>
  BY <1>5 DEF ServerTyped, ReadyClient
<1>7. CASE Srv(k)!Close(c, st, mutex) /\ UNCHANGED got
  BY <1>1, <1>5, <1>6, <1>7, ClientCloses DEF ServerTypes
<1>8. CASE st.handled /\ Srv(k)!Send(c, st, mutex, unacked[c])
  BY <1>1, <1>5, <1>6, <1>8, ResponseKeeps
<1>9. CASE ~st.handled /\ client' = [client EXCEPT ![slot[c]] = st] /\
      UNCHANGED <<mutex, pcb, slot, unacked, got>>
  <2>1. unacked[c] > 0 => st.handled
    BY <1>4 DEF LockingInv, AckInv
  <2>2. client' = [client EXCEPT ![slot[c]] = st] /\ mutex' = mutex /\ UNCHANGED <<pcb, slot>>
        /\ got' = [got EXCEPT ![c] = got[c]] /\ unacked' = [unacked EXCEPT ![c] = unacked[c]]
    BY <1>6, <1>9
  <2>. QED
    BY <1>1, <1>5, <1>6, <2>1, <2>2, ClientStays DEF ServerTypes, ServerTyped
<1>. QED
  BY <1>2, <1>7, <1>8, <1>9

LEMMA EndsKeeps ==
  ASSUME NEW k, Srv(k)!ServerAssumption, ServerTyped(k), LockingInv(k), NEW c \in k.connections,
         Srv(k)!Ends(c)
  PROVE LockingInv(k)' /\ ServerTypes(k)'
<1>. DEFINE st == client[slot[c]]
<1>1. /\ pcb[c] = "open" /\ slot[c] \in k.slots /\ st \in ClientStates(k) /\ UNCHANGED Srv(k)!worker
      /\ Srv(k)!Close(c, st, mutex) /\ UNCHANGED got
  BY DEF Srv!Ends, LockingInv, SlotInv, ServerTyped
<1>2. ReadyClient(k, c, st, mutex)
  BY <1>1, HeldReady
<1>. HIDE DEF st
<1>3. /\ got[c] \in Seq(Nat) /\ got = [got EXCEPT ![c] = got[c]]
      /\ st.locked => Uniform(got[c], latest.sequence)
      /\ ~st.locked => got[c] = <<>>
  BY <1>2 DEF ServerTyped, ReadyClient
<1>. QED
  BY <1>1, <1>2, <1>3, ClientCloses DEF ServerTypes

LEMMA AcceptKeeps ==
  ASSUME NEW k, Srv(k)!ServerAssumption, ServerTyped(k), LockingInv(k), NEW c \in k.connections,
         Srv(k)!Accept(c)
  PROVE LockingInv(k)' /\ ServerTypes(k)'
<1>1. /\ pcb[c] = "new" /\ got[c] = <<>> /\ slot[c] \notin k.slots /\ ~(unacked[c] > 0)
      /\ UNCHANGED <<mutex, Srv(k)!worker, unacked, got, status>>
  BY DEF Srv!Accept, LockingInv, SentInv, SlotInv, AckInv
<1>2. StoredInv(k)' /\ (mutex' = "worker" <=> wpc' \in Storing)
  BY <1>1, StoredUntouched DEF LockingInv, LockInv, Srv!worker
<1>3. latest' = latest
  BY <1>1 DEF Srv!worker
<1>4. ASSUME NEW s \in k.slots, ~client[s].in_use,
             client' = [client EXCEPT ![s] = [Srv(k)!Blank EXCEPT !.in_use = TRUE]],
             slot' = [slot EXCEPT ![c] = s], pcb' = [pcb EXCEPT ![c] = "open"]
      PROVE LockingInv(k)' /\ ServerTypes(k)'
  <2>. DEFINE fresh == [Srv(k)!Blank EXCEPT !.in_use = TRUE]
  <2>1. /\ fresh \in ClientStates(k) /\ fresh.in_use /\ ~fresh.locked /\ fresh.body # "picture"
        /\ ~fresh.handled /\ fresh.sent = 0
    BY DEF Srv!Blank, ClientStates, Srv!None
  <2>2. client' = [client EXCEPT ![s] = fresh]
    BY <1>4
  <2>. HIDE DEF fresh
  <2>3. /\ client'[s] = fresh /\ client' \in [k.slots -> ClientStates(k)]
        /\ \A t \in k.slots : t # s => client'[t] = client[t]
    BY <2>1, <2>2 DEF ServerTyped
  <2>4. /\ slot'[c] = s /\ pcb'[c] = "open"
        /\ \A d \in k.connections : d # c => slot'[d] = slot[d] /\ pcb'[d] = pcb[d]
        /\ slot' \in [k.connections -> k.slots \cup {Srv(k)!None}]
        /\ pcb' \in [k.connections -> {"new", "open", "ended"}]
    BY <1>4 DEF ServerTyped
  <2>5. \A d \in k.connections : pcb[d] = "open" => slot[d] # s /\ slot[d] \in k.slots
    BY <1>4 DEF LockingInv, SlotInv
  <2>6. ~client[s].locked
    BY <1>4 DEF LockingInv, ClientInv, Srv!Blank
  <2>7. LockInv(k)'
    BY <1>1, <1>2, <2>1, <2>3, <2>6 DEF LockingInv, LockInv
  <2>8. SlotInv(k)'
    <3>1. \A d \in k.connections : pcb'[d] = "open" <=> slot'[d] \in k.slots
      BY <2>4 DEF LockingInv, SlotInv
    <3>2. \A d \in k.connections : pcb'[d] = "open" => client'[slot'[d]].in_use
      BY <2>1, <2>3, <2>4, <2>5 DEF LockingInv, SlotInv
    <3>3. ASSUME NEW t \in k.slots, client'[t].in_use
          PROVE \E d \in k.connections : pcb'[d] = "open" /\ slot'[d] = t
      <4>1. CASE t = s
        BY <2>4, <4>1
      <4>2. CASE t # s
        <5>1. PICK d \in k.connections : pcb[d] = "open" /\ slot[d] = t
          BY <2>3, <3>3, <4>2 DEF LockingInv, SlotInv
        <5>. QED
          BY <1>1, <2>4, <5>1
      <4>. QED
        BY <4>1, <4>2
    <3>4. \A d, e \in k.connections : pcb'[d] = "open" /\ pcb'[e] = "open" /\
          slot'[d] = slot'[e] => d = e
      BY <2>4, <2>5 DEF LockingInv, SlotInv
    <3>. QED
      BY <3>1, <3>2, <3>3, <3>4 DEF SlotInv
  <2>9. ClientInv(k)'
    BY <2>1, <2>3 DEF LockingInv, ClientInv
  <2>10. AckInv(k)'
    BY <1>1, <2>3, <2>4, <2>5 DEF LockingInv, AckInv
  <2>11. SentInv(k)'
    <3>. SUFFICES ASSUME NEW d \in k.connections
                  PROVE /\ \E x \in Nat : Uniform(got[d], x)
                        /\ pcb'[d] = "new" => got[d] = <<>>
                        /\ pcb'[d] = "open" /\ ~client'[slot'[d]].locked => got[d] = <<>>
                        /\ pcb'[d] = "open" /\ client'[slot'[d]].locked =>
                             latest.valid /\ latest.picture /\ Uniform(got[d], latest.sequence)
      BY <1>1, <1>3 DEF SentInv, Uniform
    <3>1. CASE d = c
      BY <1>1, <2>1, <2>3, <2>4, <3>1 DEF LockingInv, SentInv
    <3>2. CASE d # c
      BY <2>3, <2>4, <2>5, <3>2 DEF LockingInv, SentInv
    <3>. QED
      BY <3>1, <3>2
  <2>. QED
    BY <1>1, <1>2, <2>3, <2>4, <2>7, <2>8, <2>9, <2>10, <2>11 DEF LockingInv, ServerTypes, ServerTyped
<1>5. ASSUME pcb' = [pcb EXCEPT ![c] = "ended"], UNCHANGED <<client, slot>>
      PROVE LockingInv(k)' /\ ServerTypes(k)'
  <2>1. /\ pcb'[c] = "ended" /\ \A d \in k.connections : d # c => pcb'[d] = pcb[d]
        /\ pcb' \in [k.connections -> {"new", "open", "ended"}]
    BY <1>5 DEF ServerTyped
  <2>2. LockInv(k)' /\ ClientInv(k)'
    BY <1>1, <1>2, <1>5 DEF LockingInv, LockInv, ClientInv
  <2>3. SlotInv(k)'
    <3>1. \A s \in k.slots : client[s].in_use => \E d \in k.connections : pcb'[d] = "open" /\
          slot[d] = s
      <4>. SUFFICES ASSUME NEW s \in k.slots, client[s].in_use
                    PROVE \E d \in k.connections : pcb'[d] = "open" /\ slot[d] = s
        OBVIOUS
      <4>1. PICK d \in k.connections : pcb[d] = "open" /\ slot[d] = s
        BY DEF LockingInv, SlotInv
      <4>. QED
        BY <1>1, <2>1, <4>1
    <3>. QED
      BY <1>1, <1>5, <2>1, <3>1 DEF LockingInv, SlotInv
  <2>4. AckInv(k)'
    BY <1>1, <1>5, <2>1 DEF LockingInv, AckInv
  <2>5. SentInv(k)'
    <3>. SUFFICES ASSUME NEW d \in k.connections
                  PROVE /\ \E x \in Nat : Uniform(got[d], x)
                        /\ pcb'[d] = "new" => got[d] = <<>>
                        /\ pcb'[d] = "open" /\ ~client[slot[d]].locked => got[d] = <<>>
                        /\ pcb'[d] = "open" /\ client[slot[d]].locked =>
                             latest.valid /\ latest.picture /\ Uniform(got[d], latest.sequence)
      BY <1>1, <1>3, <1>5 DEF SentInv, Uniform
    <3>. QED
      BY <2>1 DEF LockingInv, SentInv
  <2>. QED
    BY <1>1, <1>2, <1>5, <2>1, <2>2, <2>3, <2>4, <2>5 DEF LockingInv, ServerTypes, ServerTyped
<1>. QED
  BY <1>4, <1>5 DEF Srv!Accept

-----------------------------------------------------------------------------
\* The worker

\* It touches what is stored only while nobody else has the mutex.
LEMMA WorkerServer ==
  ASSUME NEW k, ServerTyped(k), LockingInv(k), Srv(k)!Worker
  PROVE UNCHANGED Srv(k)!server
  BY DEF Srv!Worker, Srv!Read, Srv!TryStore, Srv!StoreFields, Srv!StoreDetections, Srv!StorePicture,
      Srv!SetOutputs

LEMMA WorkerTyped ==
  ASSUME NEW k, Srv(k)!ServerAssumption, ServerTyped(k), Srv(k)!Worker
  PROVE ServerTyped(k)'
<1>1. UNCHANGED Srv(k)!server /\ UNCHANGED shown
  BY DEF Srv!Worker, Srv!Read, Srv!TryStore, Srv!StoreFields, Srv!StoreDetections, Srv!StorePicture,
      Srv!SetOutputs
<1>. SUFFICES /\ mutex' \in {"free", "worker", "server"} /\ latest' \in StoredFrames(k)
              /\ wpc' \in {"read", "store", "outputs"} \cup Storing
              /\ frame' \in 0 .. k.last /\ picture' \in BOOLEAN /\ part' \in 0 .. k.parts
  BY <1>1 DEF ServerTyped, Srv!server
<1>2. frame \in Nat /\ k.parts \in Nat
  BY DEF ServerTyped, Srv!ServerAssumption
<1>3. CASE Srv(k)!Read
  BY <1>2, <1>3 DEF Srv!Read, ServerTyped, Srv!ServerAssumption
<1>4. CASE Srv(k)!TryStore \/ Srv(k)!SetOutputs
  BY <1>4 DEF Srv!TryStore, Srv!SetOutputs, ServerTyped, Storing
<1>5. CASE Srv(k)!StoreFields
  BY <1>2, <1>5 DEF Srv!StoreFields, ServerTyped, Storing, StoredFrames
<1>6. CASE Srv(k)!StoreDetections
  <2>1. (frame \in shown) \in BOOLEAN
    OBVIOUS
  <2>2. latest' \in StoredFrames(k)
    BY <1>6, <2>1 DEF Srv!StoreDetections, ServerTyped, StoredFrames
  <2>. QED
    BY <1>6, <2>2 DEF Srv!StoreDetections, ServerTyped, Storing
<1>7. CASE Srv(k)!StorePicture
  <2>1. CASE Srv(k)!MorePicture
    <3>1. part + 1 \in 1 .. k.parts
      BY <2>1 DEF Srv!MorePicture, ServerTyped, Srv!ServerAssumption
    <3>2. latest' = [latest EXCEPT !.parts = [latest.parts EXCEPT ![part + 1] = frame]]
      BY <1>7, <2>1 DEF Srv!StorePicture
    <3>3. [latest.parts EXCEPT ![part + 1] = frame] \in StoredPictures(k)
      BY <1>2, <3>1 DEF ServerTyped, StoredFrames, StoredPictures
    <3>4. latest' \in StoredFrames(k)
      BY <3>2, <3>3 DEF ServerTyped, StoredFrames
    <3>. QED
      BY <1>7, <2>1, <3>1, <3>4 DEF Srv!StorePicture, ServerTyped
  <2>2. CASE ~Srv(k)!MorePicture
    BY <1>7, <2>2 DEF Srv!StorePicture, ServerTyped
  <2>. QED
    BY <2>1, <2>2
<1>. QED
  BY <1>3, <1>4, <1>5, <1>6, <1>7 DEF Srv!Worker

LEMMA WorkerStored ==
  ASSUME NEW k, Srv(k)!ServerAssumption, ServerTyped(k), LockingInv(k), Srv(k)!Worker
  PROVE StoredInv(k)'
<1>1. CASE Srv(k)!Read
  BY <1>1 DEF Srv!Read, LockingInv, StoredInv
<1>2. CASE Srv(k)!TryStore
  BY <1>2 DEF Srv!TryStore, LockingInv, StoredInv
<1>3. CASE Srv(k)!StoreFields
  <2>1. mutex' = "worker" /\ part = 0
    BY <1>3 DEF Srv!StoreFields, LockingInv, LockInv, StoredInv, Storing
  <2>. QED
    BY <1>3, <2>1 DEF Srv!StoreFields, StoredInv, ServerTyped, StoredFrames
<1>4. CASE Srv(k)!StoreDetections
  <2>1. mutex' = "worker" /\ wpc = "detections" /\ wpc' = "picture"
    BY <1>4 DEF Srv!StoreDetections, LockingInv, LockInv, Storing
  <2>2. latest' = [latest EXCEPT !.persons = frame \in shown] /\
        UNCHANGED <<frame, shown, picture, part>>
    BY <1>4 DEF Srv!StoreDetections
  <2>3. latest \in StoredFrames(k)
    BY DEF ServerTyped
  <2>4. /\ latest'.valid = latest.valid /\ latest'.sequence = latest.sequence
        /\ latest'.picture = latest.picture /\ latest'.parts = latest.parts
        /\ latest'.persons = (frame \in shown)
    BY <2>2, <2>3 DEF StoredFrames
  <2>. QED
    BY <2>1, <2>2, <2>4 DEF LockingInv, StoredInv
<1>5. CASE Srv(k)!StorePicture
  <2>1. /\ wpc = "picture" /\ mutex = "worker" /\ UNCHANGED <<frame, shown, picture>>
        /\ latest.valid /\ latest.sequence = frame /\ latest.picture = picture
        /\ \A i \in 1 .. part : latest.parts[i] = frame
        /\ latest.persons <=> frame \in shown
    BY <1>5 DEF Srv!StorePicture, LockingInv, StoredInv, LockInv, Storing
  <2>2. CASE Srv(k)!MorePicture
    <3>1. part + 1 \in 1 .. k.parts /\ part \in Nat
      BY <2>2 DEF Srv!MorePicture, ServerTyped, Srv!ServerAssumption
    <3>2. /\ latest' = [latest EXCEPT !.parts = [latest.parts EXCEPT ![part + 1] = frame]]
          /\ part' = part + 1 /\ mutex' = "worker" /\ wpc' = "picture"
      BY <1>5, <2>1, <2>2 DEF Srv!StorePicture
    <3>3. latest \in StoredFrames(k) /\ latest.parts \in StoredPictures(k)
      BY DEF ServerTyped, StoredFrames
    <3>4. /\ latest'.valid = latest.valid /\ latest'.sequence = latest.sequence
          /\ latest'.picture = latest.picture /\ latest'.persons = latest.persons
          /\ latest'.parts = [latest.parts EXCEPT ![part + 1] = frame]
      BY <3>2, <3>3 DEF StoredFrames
    <3>5. \A i \in 1 .. part' : latest'.parts[i] = frame
      <4>. SUFFICES ASSUME NEW i \in 1 .. part + 1 PROVE latest'.parts[i] = frame
        BY <3>2
      <4>1. i \in 1 .. k.parts
        BY <3>1 DEF Srv!ServerAssumption
      <4>2. latest'.parts[i] = IF i = part + 1 THEN frame ELSE latest.parts[i]
        BY <3>3, <3>4, <4>1 DEF StoredPictures
      <4>3. i # part + 1 => i \in 1 .. part
        BY <3>1
      <4>. QED
        BY <2>1, <4>2, <4>3
    <3>. QED
      BY <2>1, <3>2, <3>4, <3>5 DEF StoredInv
  <2>3. CASE ~Srv(k)!MorePicture
    <3>1. picture => part = k.parts
      BY <2>3 DEF Srv!MorePicture, ServerTyped, Srv!ServerAssumption
    <3>2. mutex' = "free" /\ wpc' = "outputs" /\ UNCHANGED <<latest, part>>
      BY <1>5, <2>3 DEF Srv!StorePicture
    <3>. QED
      BY <2>1, <3>1, <3>2 DEF StoredInv
  <2>. QED
    BY <2>2, <2>3
<1>6. CASE Srv(k)!SetOutputs
  BY <1>6 DEF Srv!SetOutputs, LockingInv, StoredInv
<1>. QED
  BY <1>1, <1>2, <1>3, <1>4, <1>5, <1>6 DEF Srv!Worker

LEMMA WorkerKeeps ==
  ASSUME NEW k, Srv(k)!ServerAssumption, ServerTyped(k), LockingInv(k), StatusInv(k), Srv(k)!Worker
  PROVE LockingInv(k)' /\ StatusInv(k)'
<1>1. UNCHANGED <<pcb, slot, client, unacked, got, status>> /\ UNCHANGED shown
  BY DEF Srv!Worker, Srv!Read, Srv!TryStore, Srv!StoreFields, Srv!StoreDetections, Srv!StorePicture,
      Srv!SetOutputs, Srv!server
<1>2. LockInv(k)'
  <2>1. mutex' = "worker" <=> wpc' \in Storing
    BY DEF Srv!Worker, Srv!Read, Srv!TryStore, Srv!StoreFields, Srv!StoreDetections, Srv!StorePicture,
        Srv!SetOutputs, LockingInv, LockInv,
      Storing
  <2>2. mutex' = "server" <=> mutex = "server"
    BY DEF Srv!Worker, Srv!Read, Srv!TryStore, Srv!StoreFields, Srv!StoreDetections, Srv!StorePicture,
        Srv!SetOutputs, LockingInv, LockInv,
      Storing
  <2>. QED
    BY <1>1, <2>1, <2>2 DEF LockingInv, LockInv
<1>3. SlotInv(k)' /\ ClientInv(k)' /\ AckInv(k)'
  BY <1>1 DEF LockingInv, SlotInv, ClientInv, AckInv
<1>4. SentInv(k)'
  <2>1. CASE mutex = "server"
    <3>1. latest' = latest
      BY <2>1 DEF Srv!Worker, Srv!Read, Srv!TryStore, Srv!StoreFields, Srv!StoreDetections,
          Srv!StorePicture, Srv!SetOutputs, LockingInv,
        LockInv, Storing
    <3>. QED
      BY <1>1, <3>1 DEF LockingInv, SentInv, Uniform
  <2>2. CASE mutex # "server"
    <3>1. \A c \in k.connections : pcb[c] = "open" => ~client[slot[c]].locked
      BY <2>2 DEF LockingInv, LockInv, SlotInv
    <3>. QED
      BY <1>1, <3>1 DEF LockingInv, SentInv, Uniform
  <2>. QED
    BY <2>1, <2>2
<1>5. StatusInv(k)'
  BY <1>1 DEF StatusInv
<1>. QED
  BY <1>2, <1>3, <1>4, <1>5, WorkerStored DEF LockingInv

-----------------------------------------------------------------------------
\* The invariant and what it shows

LEMMA FramesInit == ASSUME NEW k, Srv(k)!ServerAssumption PROVE Srv(k)!Init => FramesInv(k)
<1>. SUFFICES ASSUME Srv(k)!Init PROVE FramesInv(k)
  OBVIOUS
<1>1. Srv(k)!NoFrame \in StoredFrames(k) /\
      Srv(k)!NoStatus \in [valid : BOOLEAN, sequence : Nat, warning : BOOLEAN]
  BY DEF Srv!NoFrame, StoredFrames, StoredPictures, Srv!NoStatus
<1>2. ServerTyped(k)
  <2>1. <<>> \in Seq(Nat)
    OBVIOUS
  <2>2. frame \in 0 .. k.last /\ part \in 0 .. k.parts
    BY DEF Srv!Init, Srv!ServerAssumption
  <2>3. client \in [k.slots -> ClientStates(k)]
    BY BlankTyped DEF Srv!Init
  <2>4. /\ mutex \in {"free", "worker", "server"} /\ latest \in StoredFrames(k)
        /\ wpc \in {"read", "store", "outputs"} \cup Storing
        /\ shown \subseteq 1 .. k.last /\ picture \in BOOLEAN
        /\ status \in [valid : BOOLEAN, sequence : Nat, warning : BOOLEAN]
    BY <1>1 DEF Srv!Init
  <2>5. /\ pcb \in [k.connections -> {"new", "open", "ended"}]
        /\ slot \in [k.connections -> k.slots \cup {Srv(k)!None}]
        /\ unacked \in [k.connections -> Int] /\ got \in [k.connections -> Seq(Nat)]
    BY <2>1 DEF Srv!Init
  <2>. QED
    BY <1>1, <2>1, <2>2, <2>3, <2>4, <2>5 DEF ServerTyped
<1>3. LockInv(k) /\ ClientInv(k)
  BY BlankTyped DEF Srv!Init, LockInv, ClientInv, Storing
<1>4. SlotInv(k) /\ AckInv(k)
  BY BlankTyped DEF Srv!Init, SlotInv, AckInv, Srv!ServerAssumption, Srv!None
<1>5. StoredInv(k)
  BY DEF Srv!Init, StoredInv, Srv!NoFrame
<1>6. SentInv(k)
  <2>1. \A c \in k.connections : got[c] = <<>> /\ pcb[c] = "new"
    BY DEF Srv!Init
  <2>2. Uniform(<<>>, 0)
    BY UniformEmpty
  <2>. QED
    BY <2>1, <2>2 DEF SentInv
<1>7. StatusInv(k)
  BY DEF Srv!Init, StatusInv, Srv!NoStatus
<1>. QED
  BY <1>2, <1>3, <1>4, <1>5, <1>6, <1>7 DEF FramesInv

LEMMA FramesStep ==
  ASSUME NEW k, Srv(k)!ServerAssumption, FramesInv(k), [Srv(k)!Next]_(Srv(k)!vars) PROVE FramesInv(k)'
<1>. USE DEF FramesInv
<1>1. LockingInv(k)
  BY DEF LockingInv
<1>2. ASSUME Srv(k)!Worker PROVE FramesInv(k)'
  BY <1>1, <1>2, WorkerTyped, WorkerKeeps DEF LockingInv
<1>3. ASSUME UNCHANGED Srv(k)!worker, LockingInv(k)', ServerTypes(k)',
             StatusInv(k)', status' \in [valid : BOOLEAN, sequence : Nat, warning : BOOLEAN]
      PROVE FramesInv(k)'
  BY <1>3 DEF LockingInv, ServerTyped, ServerTypes, Srv!worker
<1>4. ASSUME UNCHANGED <<Srv(k)!worker, status>>
      PROVE StatusInv(k)' /\ status' \in [valid : BOOLEAN, sequence : Nat, warning : BOOLEAN]
  BY <1>4 DEF StatusInv, ServerTyped, Srv!worker
<1>5. ASSUME NEW c \in k.connections, Srv(k)!Accept(c) PROVE FramesInv(k)'
  BY <1>1, <1>3, <1>4, <1>5, AcceptKeeps DEF Srv!Accept
<1>6. ASSUME NEW c \in k.connections, Srv(k)!Request(c) PROVE FramesInv(k)'
  BY <1>1, <1>3, <1>6, RequestKeeps DEF Srv!Request
<1>7. ASSUME NEW c \in k.connections, Srv(k)!Acked(c) PROVE FramesInv(k)'
  BY <1>1, <1>3, <1>4, <1>7, AckedKeeps DEF Srv!Acked
<1>8. ASSUME NEW c \in k.connections, Srv(k)!Poll(c) PROVE FramesInv(k)'
  BY <1>1, <1>3, <1>4, <1>8, TimerKeeps DEF Srv!Poll
<1>9. ASSUME NEW c \in k.connections, Srv(k)!Ends(c) PROVE FramesInv(k)'
  BY <1>1, <1>3, <1>4, <1>9, EndsKeeps DEF Srv!Ends
<1>10. CASE UNCHANGED Srv(k)!vars
  BY <1>10 DEF Srv!vars, Srv!worker, Srv!server, ServerTyped, LockInv, SlotInv, ClientInv, AckInv,
      StoredInv, SentInv, Uniform,
    StatusInv
<1>. QED
  BY <1>2, <1>5, <1>6, <1>7, <1>8, <1>9, <1>10 DEF Srv!Next

LEMMA InvLock == ASSUME NEW k, FramesInv(k) PROVE Srv(k)!LockAccounted
<1>. DEFINE locked == {s \in k.slots : client[s].locked}
<1>1. \A s, t \in locked : s = t
  BY DEF FramesInv, LockInv
<1>2. locked = {} \/ \E s : locked = {s}
  BY <1>1
<1>. HIDE DEF locked
<1>3. Srv(k)!Cardinality(locked) <= 1
  <2>0. Srv(k)!Cardinality(locked) = Cardinality(locked)
    BY SameSize
  <2>1. CASE locked = {}
    BY <2>0, <2>1, FS_EmptySet
  <2>2. CASE \E s : locked = {s}
    <3>1. PICK s : locked = {s}
      BY <2>2
    <3>2. Cardinality({s}) = 1
      BY FS_Singleton
    <3>. QED
      BY <2>0, <3>1, <3>2
  <2>. QED
    BY <1>2, <2>1, <2>2
<1>. QED
  BY <1>3 DEF FramesInv, LockInv, Srv!LockAccounted, Storing, locked

LEMMA InvSlots == ASSUME NEW k, FramesInv(k) PROVE Srv(k)!SlotsOwned
<1>1. {s \in k.slots : client[s].in_use} = {slot[c] : c \in {d \in k.connections : pcb[d] = "open"}}
  BY DEF FramesInv, SlotInv
<1>2. ASSUME NEW c \in k.connections, NEW d \in k.connections, c # d, slot[c] # Srv(k)!None
      PROVE slot[c] # slot[d]
  <2>1. slot[c] \in k.slots /\ pcb[c] = "open"
    BY <1>2 DEF FramesInv, SlotInv, ServerTyped
  <2>. QED
    BY <1>2, <2>1 DEF FramesInv, SlotInv
<1>. QED
  BY <1>1, <1>2 DEF Srv!SlotsOwned

LEMMA InvFrame == ASSUME NEW k, FramesInv(k) PROVE Srv(k)!FrameWhole
<1>1. ASSUME NEW c \in k.connections, NEW i \in DOMAIN got[c], NEW j \in DOMAIN got[c]
      PROVE  got[c][i] = got[c][j]
  BY DEF FramesInv, SentInv, Uniform
<1>. QED
  BY <1>1 DEF Srv!FrameWhole

LEMMA InvWhole == ASSUME NEW k, FramesInv(k) PROVE Srv(k)!FramesWhole
<1>1. Srv(k)!StatusOfOneFrame
  BY DEF FramesInv, StatusInv, Srv!StatusOfOneFrame
<1>. QED
  BY <1>1, InvLock, InvSlots, InvFrame DEF Srv!FramesWhole

-----------------------------------------------------------------------------
\* For all values of the constants: the mutex of the stored frame is held by one at a time, by the
\* server exactly as long as one of its clients does; open connections have slots of their own and
\* no other slot is in use; and a picture that is sent, over however many callbacks, and a status
\* are of one frame.
THEOREM StoredIsWhole == ASSUME NEW k, Srv(k)!ServerAssumption PROVE Srv(k)!Spec => []Srv(k)!FramesWhole
<1>1. Srv(k)!Init => FramesInv(k)
  BY FramesInit
<1>2. FramesInv(k) /\ [Srv(k)!Next]_(Srv(k)!vars) => FramesInv(k)'
  BY FramesStep
<1>3. FramesInv(k) => Srv(k)!FramesWhole
  BY InvWhole
<1>. QED
  BY <1>1, <1>2, <1>3, PTL DEF Srv!Spec

-----------------------------------------------------------------------------
\* The two servers of the run
TwoSlots == [connections |-> Browsers, slots |-> {"s1", "s2"}, parts |-> 2, width |-> 4, polls |-> 1, last |-> 2]

SingleSlot == [connections |-> Browsers, slots |-> {"s1"}, parts |-> 2, width |-> 4, polls |-> 1, last |-> 1]

LEMMA ServerIsOne ==
  /\ Srv(TwoSlots)!ServerAssumption
  /\ Server!Init => Srv(TwoSlots)!Init
  /\ Server!Next => Srv(TwoSlots)!Next
  /\ UNCHANGED serverVars => UNCHANGED Srv(TwoSlots)!vars
  /\ Srv(TwoSlots)!FramesWhole => Server!FramesWhole
<1>. DEFINE k == TwoSlots
<1>1. /\ k.connections = Browsers /\ k.slots = {"s1", "s2"} /\ k.parts = 2 /\ k.width = 4
      /\ k.polls = 1 /\ k.last = 2
  BY DEF TwoSlots
<1>. HIDE DEF k
<1>2. /\ Srv(k)!None = Server!None /\ Srv(k)!Blank = Server!Blank /\ Srv(k)!NoFrame = Server!NoFrame
      /\ Srv(k)!NoStatus = Server!NoStatus
  BY <1>1 DEF Srv!None, Server!None, Srv!Blank, Server!Blank, Srv!NoFrame, Server!NoFrame, Srv!NoStatus, Server!NoStatus
<1>3. Srv(k)!ServerAssumption
  <2>1. Srv(k)!IsFiniteSet(k.slots) = Server!IsFiniteSet(k.slots)
    BY DEF Srv!IsFiniteSet, Server!IsFiniteSet
  <2>. QED
    BY <1>1, <2>1, BoardsAssumption DEF Srv!ServerAssumption, Server!ServerAssumption
<1>4. Server!Init => Srv(k)!Init
  BY <1>1, <1>2 DEF Srv!Init, Server!Init
<1>5. UNCHANGED serverVars =>
        /\ UNCHANGED Srv(k)!vars /\ UNCHANGED Srv(k)!worker /\ UNCHANGED Srv(k)!server
  BY DEF serverVars, Srv!vars, Srv!worker, Srv!server
<1>7. Server!Worker => Srv(k)!Worker
  BY <1>1
  DEF Srv!Worker, Srv!Read, Srv!TryStore, Srv!StoreFields, Srv!StoreDetections, Srv!StorePicture,
      Srv!SetOutputs, Srv!MorePicture, Srv!server,
      Server!Worker, Server!Read, Server!TryStore, Server!StoreFields, Server!StoreDetections, Server!StorePicture,
      Server!SetOutputs, Server!MorePicture, Server!server
<1>8. \A c, st, m : Server!Close(c, st, m) => Srv(k)!Close(c, st, m)
  BY <1>2 DEF Srv!Close, Srv!Cleared, Srv!Released, Server!Close, Server!Cleared, Server!Released
<1>9. \A c, st, m, owed : Server!Send(c, st, m, owed) => Srv(k)!Send(c, st, m, owed)
  <2>1. \A body : Server!Units(body) = Srv(k)!Units(body)
    BY <1>1 DEF Srv!Units, Server!Units
  <2>2. \A st, upto : Server!PartsSent(st, upto) = Srv(k)!PartsSent(st, upto)
    BY DEF Srv!PartsSent, Server!PartsSent
  <2>. SUFFICES ASSUME NEW c, NEW st, NEW m, NEW owed, Server!Send(c, st, m, owed)
                PROVE  Srv(k)!Send(c, st, m, owed)
    OBVIOUS
  <2>3. PICK upto \in st.sent .. Server!Units(st.body) :
          /\ got' = [got EXCEPT ![c] = @ \o Server!PartsSent(st, upto)]
          /\ IF upto = Server!Units(st.body) THEN Server!Close(c, st, m)
             ELSE /\ client' = [client EXCEPT ![slot[c]] = [st EXCEPT !.sent = upto]] /\ mutex' = m
                  /\ unacked' = [unacked EXCEPT ![c] = owed + upto - st.sent]
                  /\ UNCHANGED <<pcb, slot>>
    BY DEF Server!Send
  <2>4. upto \in st.sent .. Srv(k)!Units(st.body)
    BY <2>1
  <2>5. got' = [got EXCEPT ![c] = @ \o Srv(k)!PartsSent(st, upto)]
    BY <2>2, <2>3
  <2>6. IF upto = Srv(k)!Units(st.body) THEN Srv(k)!Close(c, st, m)
        ELSE /\ client' = [client EXCEPT ![slot[c]] = [st EXCEPT !.sent = upto]] /\ mutex' = m
             /\ unacked' = [unacked EXCEPT ![c] = owed + upto - st.sent]
             /\ UNCHANGED <<pcb, slot>>
    BY <1>8, <2>1, <2>3
  <2>. QED
    BY <2>4, <2>5, <2>6 DEF Srv!Send
<1>10. \A c : Server!Accept(c) => Srv(k)!Accept(c)
  BY <1>1, <1>2 DEF Srv!Accept, Server!Accept, Srv!worker, Server!worker
<1>11. \A c : Server!Request(c) => Srv(k)!Request(c)
  <2>1. \A c, st : Server!AnswerPicture(c, st) => Srv(k)!AnswerPicture(c, st)
    BY <1>9 DEF Srv!AnswerPicture, Server!AnswerPicture, Srv!Locked, Server!Locked
  <2>2. Server!Seen = Srv(k)!Seen
    BY <1>2 DEF Srv!Seen, Server!Seen
  <2>3. \A c, st : Server!AnswerStatus(c, st) => Srv(k)!AnswerStatus(c, st)
    BY <1>9, <2>2 DEF Srv!AnswerStatus, Server!AnswerStatus
  <2>. SUFFICES ASSUME NEW c, Server!Request(c) PROVE Srv(k)!Request(c)
    OBVIOUS
  <2>. DEFINE st == [client[slot[c]] EXCEPT !.handled = TRUE]
  <2>4. pcb[c] = "open" /\ ~client[slot[c]].handled
    BY DEF Server!Request
  <2>5. (Server!AnswerPicture(c, st) /\ UNCHANGED status) \/ Server!AnswerStatus(c, st)
    BY DEF Server!Request
  <2>6. UNCHANGED Srv(k)!worker
    BY DEF Server!Request, Srv!worker, Server!worker
  <2>. HIDE DEF st
  <2>7. (Srv(k)!AnswerPicture(c, st) /\ UNCHANGED status) \/ Srv(k)!AnswerStatus(c, st)
    BY <2>1, <2>3, <2>5
  <2>. QED
    BY <2>4, <2>6, <2>7 DEF Srv!Request, st
<1>12. \A c : Server!Acked(c) => Srv(k)!Acked(c)
  BY <1>9 DEF Srv!Acked, Server!Acked, Srv!worker, Server!worker
<1>13. \A c : Server!Poll(c) => Srv(k)!Poll(c)
  BY <1>1, <1>8, <1>9 DEF Srv!Poll, Server!Poll, Srv!GivesUp, Server!GivesUp, Srv!worker, Server!worker
<1>14. \A c : Server!Ends(c) => Srv(k)!Ends(c)
  BY <1>8 DEF Srv!Ends, Server!Ends, Srv!worker, Server!worker
<1>15. Server!Next => Srv(k)!Next
  BY <1>1, <1>7, <1>10, <1>11, <1>12, <1>13, <1>14 DEF Srv!Next, Server!Next
<1>16. Srv(k)!FramesWhole => Server!FramesWhole
  <2>1. \A S : Srv(k)!Cardinality(S) = Server!Cardinality(S)
    BY DEF Srv!Cardinality, Server!Cardinality
  <2>. QED
    BY <1>1, <1>2, <2>1
    DEF Srv!FramesWhole, Srv!LockAccounted, Srv!SlotsOwned, Srv!FrameWhole, Srv!StatusOfOneFrame,
        Server!FramesWhole, Server!LockAccounted, Server!SlotsOwned, Server!FrameWhole, Server!StatusOfOneFrame
<1>. QED
  BY <1>3, <1>4, <1>5, <1>15, <1>16 DEF k

LEMMA OneSlotIsOne ==
  /\ Srv(SingleSlot)!ServerAssumption
  /\ OneSlot!Init => Srv(SingleSlot)!Init
  /\ OneSlot!Next => Srv(SingleSlot)!Next
  /\ UNCHANGED serverVars => UNCHANGED Srv(SingleSlot)!vars
  /\ Srv(SingleSlot)!FramesWhole => OneSlot!FramesWhole
<1>. DEFINE k == SingleSlot
<1>1. /\ k.connections = Browsers /\ k.slots = {"s1"} /\ k.parts = 2 /\ k.width = 4
      /\ k.polls = 1 /\ k.last = 1
  BY DEF SingleSlot
<1>. HIDE DEF k
<1>2. /\ Srv(k)!None = OneSlot!None /\ Srv(k)!Blank = OneSlot!Blank /\ Srv(k)!NoFrame = OneSlot!NoFrame
      /\ Srv(k)!NoStatus = OneSlot!NoStatus
  BY <1>1 DEF Srv!None, OneSlot!None, Srv!Blank, OneSlot!Blank, Srv!NoFrame, OneSlot!NoFrame, Srv!NoStatus, OneSlot!NoStatus
<1>3. Srv(k)!ServerAssumption
  <2>1. Srv(k)!IsFiniteSet(k.slots) = OneSlot!IsFiniteSet(k.slots)
    BY DEF Srv!IsFiniteSet, OneSlot!IsFiniteSet
  <2>. QED
    BY <1>1, <2>1, BoardsAssumption DEF Srv!ServerAssumption, OneSlot!ServerAssumption
<1>4. OneSlot!Init => Srv(k)!Init
  BY <1>1, <1>2 DEF Srv!Init, OneSlot!Init
<1>5. UNCHANGED serverVars =>
        /\ UNCHANGED Srv(k)!vars /\ UNCHANGED Srv(k)!worker /\ UNCHANGED Srv(k)!server
  BY DEF serverVars, Srv!vars, Srv!worker, Srv!server
<1>7. OneSlot!Worker => Srv(k)!Worker
  BY <1>1
  DEF Srv!Worker, Srv!Read, Srv!TryStore, Srv!StoreFields, Srv!StoreDetections, Srv!StorePicture,
      Srv!SetOutputs, Srv!MorePicture, Srv!server,
      OneSlot!Worker, OneSlot!Read, OneSlot!TryStore, OneSlot!StoreFields, OneSlot!StoreDetections, OneSlot!StorePicture,
      OneSlot!SetOutputs, OneSlot!MorePicture, OneSlot!server
<1>8. \A c, st, m : OneSlot!Close(c, st, m) => Srv(k)!Close(c, st, m)
  BY <1>2 DEF Srv!Close, Srv!Cleared, Srv!Released, OneSlot!Close, OneSlot!Cleared, OneSlot!Released
<1>9. \A c, st, m, owed : OneSlot!Send(c, st, m, owed) => Srv(k)!Send(c, st, m, owed)
  <2>1. \A body : OneSlot!Units(body) = Srv(k)!Units(body)
    BY <1>1 DEF Srv!Units, OneSlot!Units
  <2>2. \A st, upto : OneSlot!PartsSent(st, upto) = Srv(k)!PartsSent(st, upto)
    BY DEF Srv!PartsSent, OneSlot!PartsSent
  <2>. SUFFICES ASSUME NEW c, NEW st, NEW m, NEW owed, OneSlot!Send(c, st, m, owed)
                PROVE  Srv(k)!Send(c, st, m, owed)
    OBVIOUS
  <2>3. PICK upto \in st.sent .. OneSlot!Units(st.body) :
          /\ got' = [got EXCEPT ![c] = @ \o OneSlot!PartsSent(st, upto)]
          /\ IF upto = OneSlot!Units(st.body) THEN OneSlot!Close(c, st, m)
             ELSE /\ client' = [client EXCEPT ![slot[c]] = [st EXCEPT !.sent = upto]] /\ mutex' = m
                  /\ unacked' = [unacked EXCEPT ![c] = owed + upto - st.sent]
                  /\ UNCHANGED <<pcb, slot>>
    BY DEF OneSlot!Send
  <2>4. upto \in st.sent .. Srv(k)!Units(st.body)
    BY <2>1
  <2>5. got' = [got EXCEPT ![c] = @ \o Srv(k)!PartsSent(st, upto)]
    BY <2>2, <2>3
  <2>6. IF upto = Srv(k)!Units(st.body) THEN Srv(k)!Close(c, st, m)
        ELSE /\ client' = [client EXCEPT ![slot[c]] = [st EXCEPT !.sent = upto]] /\ mutex' = m
             /\ unacked' = [unacked EXCEPT ![c] = owed + upto - st.sent]
             /\ UNCHANGED <<pcb, slot>>
    BY <1>8, <2>1, <2>3
  <2>. QED
    BY <2>4, <2>5, <2>6 DEF Srv!Send
<1>10. \A c : OneSlot!Accept(c) => Srv(k)!Accept(c)
  BY <1>1, <1>2 DEF Srv!Accept, OneSlot!Accept, Srv!worker, OneSlot!worker
<1>11. \A c : OneSlot!Request(c) => Srv(k)!Request(c)
  <2>1. \A c, st : OneSlot!AnswerPicture(c, st) => Srv(k)!AnswerPicture(c, st)
    BY <1>9 DEF Srv!AnswerPicture, OneSlot!AnswerPicture, Srv!Locked, OneSlot!Locked
  <2>2. OneSlot!Seen = Srv(k)!Seen
    BY <1>2 DEF Srv!Seen, OneSlot!Seen
  <2>3. \A c, st : OneSlot!AnswerStatus(c, st) => Srv(k)!AnswerStatus(c, st)
    BY <1>9, <2>2 DEF Srv!AnswerStatus, OneSlot!AnswerStatus
  <2>. SUFFICES ASSUME NEW c, OneSlot!Request(c) PROVE Srv(k)!Request(c)
    OBVIOUS
  <2>. DEFINE st == [client[slot[c]] EXCEPT !.handled = TRUE]
  <2>4. pcb[c] = "open" /\ ~client[slot[c]].handled
    BY DEF OneSlot!Request
  <2>5. (OneSlot!AnswerPicture(c, st) /\ UNCHANGED status) \/ OneSlot!AnswerStatus(c, st)
    BY DEF OneSlot!Request
  <2>6. UNCHANGED Srv(k)!worker
    BY DEF OneSlot!Request, Srv!worker, OneSlot!worker
  <2>. HIDE DEF st
  <2>7. (Srv(k)!AnswerPicture(c, st) /\ UNCHANGED status) \/ Srv(k)!AnswerStatus(c, st)
    BY <2>1, <2>3, <2>5
  <2>. QED
    BY <2>4, <2>6, <2>7 DEF Srv!Request, st
<1>12. \A c : OneSlot!Acked(c) => Srv(k)!Acked(c)
  BY <1>9 DEF Srv!Acked, OneSlot!Acked, Srv!worker, OneSlot!worker
<1>13. \A c : OneSlot!Poll(c) => Srv(k)!Poll(c)
  BY <1>1, <1>8, <1>9 DEF Srv!Poll, OneSlot!Poll, Srv!GivesUp, OneSlot!GivesUp, Srv!worker, OneSlot!worker
<1>14. \A c : OneSlot!Ends(c) => Srv(k)!Ends(c)
  BY <1>8 DEF Srv!Ends, OneSlot!Ends, Srv!worker, OneSlot!worker
<1>15. OneSlot!Next => Srv(k)!Next
  BY <1>1, <1>7, <1>10, <1>11, <1>12, <1>13, <1>14 DEF Srv!Next, OneSlot!Next
<1>16. Srv(k)!FramesWhole => OneSlot!FramesWhole
  <2>1. \A S : Srv(k)!Cardinality(S) = OneSlot!Cardinality(S)
    BY DEF Srv!Cardinality, OneSlot!Cardinality
  <2>. QED
    BY <1>1, <1>2, <2>1
    DEF Srv!FramesWhole, Srv!LockAccounted, Srv!SlotsOwned, Srv!FrameWhole, Srv!StatusOfOneFrame,
        OneSlot!FramesWhole, OneSlot!LockAccounted, OneSlot!SlotsOwned, OneSlot!FrameWhole, OneSlot!StatusOfOneFrame
<1>. QED
  BY <1>3, <1>4, <1>5, <1>15, <1>16 DEF k

ServerInv ==
  /\ running = "server" => FramesInv(TwoSlots)
  /\ running = "one slot" => FramesInv(SingleSlot)

LEMMA ServerInit == Init => ServerInv
BY ServerIsOne, OneSlotIsOne, FramesInit DEF Init, ServerInv

LEMMA ServerStep ==
  ASSUME ServerInv, [Next]_vars
  PROVE  ServerInv'
<1>1. UNCHANGED running
  BY DEF Next, vars
<1>2. ASSUME running = "server" PROVE FramesInv(TwoSlots)'
  <2>1. [Server!Next]_serverVars
    BY <1>2 DEF Next, ServerNext, SerialNext, UartNext, CoreNext, TestNext, BusNext, vars
  <2>2. [Srv(TwoSlots)!Next]_(Srv(TwoSlots)!vars)
    BY <2>1, ServerIsOne
  <2>. QED
    BY <1>2, <2>2, FramesStep, ServerIsOne DEF ServerInv
<1>3. ASSUME running = "one slot" PROVE FramesInv(SingleSlot)'
  <2>1. [OneSlot!Next]_serverVars
    BY <1>3 DEF Next, ServerNext, SerialNext, UartNext, CoreNext, TestNext, BusNext, vars
  <2>2. [Srv(SingleSlot)!Next]_(Srv(SingleSlot)!vars)
    BY <2>1, OneSlotIsOne
  <2>. QED
    BY <1>3, <2>2, FramesStep, OneSlotIsOne DEF ServerInv
<1>. QED
  BY <1>1, <1>2, <1>3 DEF ServerInv

\* Of the HTTP server as the run composes it, with a slot for each connection and with one for
\* both: the stored frame is locked by one at a time and given back however a response ends,
\* slots belong to open connections, and a picture or a status that is sent is of one frame.
THEOREM FramesAreWhole == Spec => []FramesWhole
<1>1. ServerInv => FramesWhole
  BY InvWhole, ServerIsOne, OneSlotIsOne DEF ServerInv, FramesWhole
<1>. QED
  BY <1>1, ServerInit, ServerStep, PTL DEF Spec

-----------------------------------------------------------------------------
(* The two cores of the metadata service                                    *)

CoreOf(modes, most_waits, most_attempts, ahead, most_requests, most_failures) ==
  INSTANCE CameraCore WITH
    Modes <- modes, MaxWait <- most_waits, MaxAttempts <- most_attempts, Ahead <- ahead,
    MaxRequests <- most_requests, MaxFailures <- most_failures,
    camera <- core_camera, out <- answer, buf <- frame_buf

JpegModes == {"always", "never", "on_ng"}
Startups  == {"BOOTING", "PROBING", "PROBED", "OPENED", "STREAM_ON", "READY", "ERROR"}
Captures  == {"NONE", "STARTING", "ERROR", "PASS", "NG", "CORE_STOPPED"}

ResultsWith(statuses) ==
  [status : statuses, job : Nat, sequence : Nat, jpeg : BOOLEAN, frame : Nat]

Jobs ==
  [id : Nat, state : {"IDLE", "PENDING", "BUSY", "DONE"}, sequence : Nat, mode : JpegModes,
   result : ResultsWith(Captures)]

AllResults == ResultsWith(Captures \union Startups \union {"PENDING"})

CoreTyped ==
  /\ requests \in Seq([kind : {"status", "data"}, mode : JpegModes])
  /\ answers \in Seq([result : AllResults, summed : Nat, sent : Nat])
  /\ answer \in [result : AllResults, summed : Nat]
  /\ job \in Jobs /\ work \in Jobs /\ next_id \in Nat /\ mine \in Nat /\ frame_buf \in Nat
  /\ core_camera \in [probe_ok : BOOLEAN, opened : BOOLEAN, streaming : BOOLEAN, ready : BOOLEAN,
                      startup : Startups]
  /\ Len(answers) <= Len(requests)

Idle == job.state = "IDLE"
Asked == requests[Len(answers) + 1]

\* Who has the job: core 0 until it is taken up, and from its result on; core 1 in between.
TurnInv ==
  /\ pc0 # "idle" => Len(answers) < Len(requests)
  /\ pc0 \in {"look", "wait", "pending"} => Asked.kind = "data"
  /\ pc0 \in {"wait", "pending"} => ~Idle /\ mine = job.id
  /\ ~Idle => job.id = next_id /\ next_id # 0
  /\ pc1 \in {"read", "finish"} => job.state = "BUSY" /\ job.id = work.id
  /\ core1 = "FAILED" => pc1 \in {"fail_jobs", "stopped"}
  /\ core_camera.startup = "READY" => core_camera.ready

\* From the capture on the buffer rests until its picture has been sent.
PictureInv ==
  /\ pc1 = "finish" /\ work.result.jpeg => work.result.frame = frame_buf
  /\ job.state = "DONE" /\ job.result.jpeg => job.result.frame = frame_buf
  /\ pc0 = "send" /\ answer.result.jpeg =>
       (Idle /\ answer.summed = frame_buf /\ answer.result.frame = frame_buf)
  /\ \A i \in DOMAIN answers :
       answers[i].result.jpeg =>
         answers[i].sent = answers[i].summed /\ answers[i].sent = answers[i].result.frame

OfCapture(r) == r.status \in {"PASS", "NG"}

\* The job that is there has not been answered.
GivenInv ==
  /\ \A i \in DOMAIN answers :
       OfCapture(answers[i].result) =>
         (answers[i].result.job <= next_id) /\ (~Idle => answers[i].result.job # next_id)
  /\ pc0 = "send" /\ OfCapture(answer.result) =>
       /\ Idle /\ answer.result.job <= next_id
       /\ \A i \in DOMAIN answers :
            OfCapture(answers[i].result) => answers[i].result.job # answer.result.job
  /\ \A i, j \in DOMAIN answers :
       i # j /\ OfCapture(answers[i].result) /\ OfCapture(answers[j].result) =>
         answers[i].result.job # answers[j].result.job

\* Since answer i only statuses have been asked for, up to answer j.
OnlyStatuses(i, j) == \A k \in i + 1 .. j : requests[k].kind = "status"

\* A job that the host was told of stays until it is given to the host.
PollInv ==
  /\ \A i \in DOMAIN answers :
       answers[i].result.status = "PENDING" /\ OnlyStatuses(i, Len(answers)) =>
         IF pc0 = "send" /\ Asked.kind = "data"
         THEN answer.result.status # "CORE_STOPPED" => answer.result.job = answers[i].result.job
         ELSE ~Idle /\ answers[i].result.job = job.id
  /\ pc0 = "send" /\ answer.result.status = "PENDING" => ~Idle /\ answer.result.job = job.id
  /\ \A i, j \in DOMAIN answers :
       /\ i < j /\ requests[j].kind = "data" /\ OnlyStatuses(i, j - 1)
       /\ answers[i].result.status = "PENDING" /\ answers[j].result.status # "CORE_STOPPED"
       => answers[j].result.job = answers[i].result.job

CameUp == core_camera.ready \/ core1 = "FAILED"

\* There is no job before data is asked for; and from the status that says so the camera is
\* ready until core 1 has ended.
AskInv ==
  /\ OnlyStatuses(0, Len(answers)) /\ (pc0 = "idle" \/ Asked.kind = "status") =>
       job.result.status # "STARTING" /\ work.result.status # "STARTING" /\ Idle
       /\ pc1 \notin {"read", "finish"}
  /\ pc0 = "send" /\ answer.result.status = "READY" => CameUp
  /\ \A i \in DOMAIN answers :
       OnlyStatuses(0, i) /\ answers[i].result.status = "READY" =>
         /\ CameUp /\ job.result.status # "STARTING" /\ work.result.status # "STARTING"
         /\ (pc0 = "send" => answer.result.status # "STARTING")
         /\ \A j \in DOMAIN answers : i < j => answers[j].result.status # "STARTING"

CoreInv == CoreTyped /\ TurnInv /\ PictureInv /\ GivenInv /\ PollInv /\ AskInv

LEMMA CoreInit ==
  ASSUME NEW modes, NEW mw, NEW ma, NEW ah, NEW mr, NEW mf,
         CoreOf(modes, mw, ma, ah, mr, mf)!Init
  PROVE  CoreInv
<1>1. CoreTyped
  BY DEF CoreOf!Init, CoreOf!NoJob, CoreOf!NoAnswer, CoreOf!NoResult, CoreOf!Booting, CoreTyped,
    Jobs, AllResults, ResultsWith, JpegModes, Startups, Captures
<1>. QED
  BY <1>1 DEF CoreOf!Init, CoreOf!NoJob, CoreOf!NoAnswer, CoreOf!NoResult, CoreOf!Booting, CoreInv,
    TurnInv, PictureInv, GivenInv, PollInv, AskInv, Idle, OfCapture, OnlyStatuses

LEMMA ElementType == ASSUME NEW T, NEW s \in Seq(T), NEW i \in 1 .. Len(s) PROVE s[i] \in T
OBVIOUS

\* What is appended comes last, and nothing else changes.
LEMMA Appended ==
  ASSUME NEW T, NEW s \in Seq(T), NEW e \in T
  PROVE  /\ Append(s, e) \in Seq(T) /\ Len(Append(s, e)) = Len(s) + 1 /\ Len(s) \in Nat
         /\ DOMAIN s = 1 .. Len(s) /\ DOMAIN Append(s, e) = 1 .. Len(s) + 1
         /\ \A i \in 1 .. Len(s) : Append(s, e)[i] = s[i]
         /\ Append(s, e)[Len(s) + 1] = e
OBVIOUS

\* What is answered without a capture has the text, and no picture.
Told(r, text) == r.result.status = text /\ ~r.result.jpeg /\ r \in [result : AllResults, summed : Nat]

LEMMA ToldAnswer ==
  ASSUME NEW m \in SUBSET JpegModes, NEW w, NEW a, NEW h, NEW r, NEW f, CoreTyped,
         NEW text \in Captures \union Startups \union {"PENDING"},
         CoreOf(m, w, a, h, r, f)!Sending(CoreOf(m, w, a, h, r, f)!Error(text))
  PROVE  pc0' = "send" /\ Told(answer', text)
BY DEF CoreTyped, Told, CoreOf!Sending, CoreOf!Error, CoreOf!NoResult, AllResults, ResultsWith

LEMMA AskStep ==
  ASSUME NEW m \in SUBSET JpegModes, NEW w, NEW a, NEW h, NEW r, NEW f, CoreTyped,
         CoreOf(m, w, a, h, r, f)!AskStatus \/ CoreOf(m, w, a, h, r, f)!AskData
  PROVE  /\ \E q \in [kind : {"status", "data"}, mode : JpegModes] : requests' = Append(requests, q)
         /\ UNCHANGED <<answers, pc0, mine, answer, job, next_id, core_camera, core1, pc1, work,
                        frame_buf>>
BY DEF CoreOf!AskStatus, CoreOf!AskData, CoreOf!Ask, CoreOf!core0_vars, CoreOf!core1_vars, JpegModes

LEMMA AnswerStatusStep ==
  ASSUME NEW m \in SUBSET JpegModes, NEW w, NEW a, NEW h, NEW r, NEW f, CoreTyped,
         CoreOf(m, w, a, h, r, f)!AnswerStatus
  PROVE  /\ pc0 = "idle" /\ Len(answers) < Len(requests) /\ Asked.kind = "status"
         /\ pc0' = "send"
         /\ \E text \in Startups :
              /\ text = "READY" => core_camera.ready \/ core_camera.startup = "READY"
              /\ Told(answer', text)
         /\ UNCHANGED <<requests, answers, mine, job, next_id, core_camera, core1, pc1, work, frame_buf>>
<1>. DEFINE text == IF CoreOf(m, w, a, h, r, f)!SaysReady THEN "READY" ELSE core_camera.startup
<1>1. text \in Startups /\ (text = "READY" => core_camera.ready \/ core_camera.startup = "READY")
  BY DEF CoreTyped, Startups, CoreOf!SaysReady
<1>2. CoreOf(m, w, a, h, r, f)!Sending(CoreOf(m, w, a, h, r, f)!Error(text))
  BY DEF CoreOf!AnswerStatus
<1>3. pc0' = "send" /\ Told(answer', text)
  BY <1>1, <1>2, ToldAnswer
<1>. QED
  BY <1>1, <1>3 DEF CoreOf!AnswerStatus, CoreOf!Current, CoreOf!Request, CoreOf!core1_vars, Asked, CoreTyped

LEMMA BeginDataStep ==
  ASSUME NEW m \in SUBSET JpegModes, NEW w, NEW a, NEW h, NEW r, NEW f, CoreTyped,
         CoreOf(m, w, a, h, r, f)!BeginData
  PROVE  /\ pc0 = "idle" /\ Len(answers) < Len(requests) /\ Asked.kind = "data"
         /\ \/ core1 = "FAILED" /\ pc0' = "send" /\ Told(answer', "CORE_STOPPED")
            \/ pc0' = "look" /\ UNCHANGED answer
         /\ UNCHANGED <<requests, answers, mine, job, next_id, core_camera, core1, pc1, work, frame_buf>>
<1>1. ASSUME CoreOf(m, w, a, h, r, f)!Sending(CoreOf(m, w, a, h, r, f)!Error("CORE_STOPPED"))
      PROVE  pc0' = "send" /\ Told(answer', "CORE_STOPPED")
  BY <1>1, ToldAnswer DEF Captures
<1>. QED
  BY <1>1 DEF CoreOf!BeginData, CoreOf!Current, CoreOf!Request, CoreOf!core1_vars, Asked, CoreTyped

\* The result of the job goes into the answer, and the job is free.
TakenUp ==
  /\ job.state = "DONE" /\ pc0' = "send"
  /\ answer' \in [result : AllResults, summed : Nat]
  /\ answer'.result.status = job.result.status /\ answer'.result.job = job.id
  /\ answer'.result.jpeg = job.result.jpeg /\ answer'.result.frame = job.result.frame
  /\ job.result.jpeg => answer'.summed = frame_buf
  /\ job' \in Jobs /\ job'.state = "IDLE" /\ job'.result.status = "NONE"

LEMMA TakeStep ==
  ASSUME NEW m \in SUBSET JpegModes, NEW w, NEW a, NEW h, NEW r, NEW f, CoreTyped,
         NEW id, CoreOf(m, w, a, h, r, f)!Take(id)
  PROVE  TakenUp /\ job.id = id
<1>1. job.id = id /\ job.state = "DONE" /\ job \in Jobs /\ job.result \in ResultsWith(Captures)
  BY DEF CoreOf!Take, CoreTyped, Jobs
<1>2. job' \in Jobs /\ job'.state = "IDLE" /\ job'.result.status = "NONE"
  BY DEF CoreOf!Take, CoreOf!AfterTake, CoreOf!NoJob, CoreOf!NoResult, Jobs, ResultsWith, Captures, JpegModes
<1>. DEFINE told == [job.result EXCEPT !.job = id, !.sequence = CoreOf(m, w, a, h, r, f)!Current]
<1>3. CoreOf(m, w, a, h, r, f)!Current \in Nat
  BY DEF CoreTyped, CoreOf!Current
<1>4. /\ told \in AllResults /\ told.status = job.result.status /\ told.job = id
      /\ told.jpeg = job.result.jpeg /\ told.frame = job.result.frame
  BY <1>1, <1>3 DEF AllResults, ResultsWith, Jobs
<1>5. pc0' = "send" /\ answer' = [result |-> told, summed |-> IF told.jpeg THEN frame_buf ELSE 0]
  BY DEF CoreOf!Take, CoreOf!Sending
<1>6. frame_buf \in Nat
  BY DEF CoreTyped
<1>. HIDE DEF told
<1>. QED
  BY <1>1, <1>2, <1>4, <1>5, <1>6 DEF TakenUp

LEMMA LookStep ==
  ASSUME NEW m \in SUBSET JpegModes, NEW w, NEW a, NEW h, NEW r, NEW f, CoreTyped,
         CoreOf(m, w, a, h, r, f)!LookAtJob, Len(answers) < Len(requests)
  PROVE  /\ pc0 = "look"
         /\ \/ TakenUp /\ UNCHANGED <<mine, next_id>>
            \/ /\ Idle /\ next_id' = next_id + 1 /\ mine' = next_id'
               /\ job' \in Jobs /\ job'.id = next_id' /\ job'.state = "PENDING"
               /\ job'.result.status = "NONE"
               /\ pc0' = "wait" /\ UNCHANGED answer
            \/ /\ ~Idle /\ mine' = job.id /\ pc0' = "wait" /\ UNCHANGED <<job, next_id, answer>>
         /\ UNCHANGED <<requests, answers, core_camera, core1, pc1, work, frame_buf>>
<1>1. CASE job.state = "DONE" /\ CoreOf(m, w, a, h, r, f)!Take(job.id) /\ UNCHANGED <<mine, next_id>>
  BY <1>1, TakeStep DEF CoreOf!LookAtJob, CoreOf!core1_vars
<1>2. CASE /\ job.state # "DONE" /\ CoreOf(m, w, a, h, r, f)!MaySubmit
           /\ CoreOf(m, w, a, h, r, f)!Submit /\ pc0' = "wait" /\ UNCHANGED answer
  <2>a. Len(answers) + 1 \in 1 .. Len(requests)
    BY DEF CoreTyped
  <2>b. Asked \in [kind : {"status", "data"}, mode : JpegModes]
    BY <2>a, ElementType DEF CoreTyped, Asked
  <2>c. CoreOf(m, w, a, h, r, f)!Request = Asked /\ CoreOf(m, w, a, h, r, f)!Current \in Nat
    BY DEF CoreTyped, Asked, CoreOf!Request, CoreOf!Current
  <2>1. Asked.mode \in JpegModes
    BY <2>b
  <2>2. Idle /\ next_id' = next_id + 1 /\ mine' = next_id' /\ next_id' \in Nat
    BY <1>2 DEF CoreTyped, Idle, CoreOf!MaySubmit, CoreOf!Submit
  <2>3. job' \in Jobs /\ job'.id = next_id' /\ job'.state = "PENDING" /\ job'.result.status = "NONE"
    BY <1>2, <2>1, <2>2, <2>c DEF Jobs, ResultsWith, Captures, JpegModes, CoreOf!Submit, CoreOf!NoJob,
      CoreOf!NoResult
  <2>. QED
    BY <1>2, <2>2, <2>3 DEF CoreOf!LookAtJob, CoreOf!core1_vars
<1>3. CASE /\ job.state # "DONE" /\ ~CoreOf(m, w, a, h, r, f)!MaySubmit
           /\ mine' = job.id /\ pc0' = "wait" /\ UNCHANGED <<job, next_id, answer>>
  BY <1>3 DEF CoreOf!LookAtJob, CoreOf!MaySubmit, CoreOf!core1_vars, Idle
<1>. QED
  BY <1>1, <1>2, <1>3 DEF CoreOf!LookAtJob

LEMMA WaitStep ==
  ASSUME NEW m \in SUBSET JpegModes, NEW w, NEW a, NEW h, NEW r, NEW f, CoreTyped,
         CoreOf(m, w, a, h, r, f)!Wait
  PROVE  /\ pc0 = "wait"
         /\ \/ TakenUp /\ job.id = mine
            \/ core1 = "FAILED" /\ pc0' = "send" /\ Told(answer', "CORE_STOPPED") /\ UNCHANGED job
            \/ pc0' = "wait" /\ UNCHANGED <<job, answer>>
            \/ pc0' = "pending" /\ UNCHANGED <<job, answer>>
         /\ UNCHANGED <<requests, answers, mine, next_id, core_camera, core1, pc1, work, frame_buf>>
<1>1. CASE CoreOf(m, w, a, h, r, f)!Take(mine)
  BY <1>1, TakeStep DEF CoreOf!Wait, CoreOf!core1_vars
<1>2. ASSUME CoreOf(m, w, a, h, r, f)!Sending(CoreOf(m, w, a, h, r, f)!Error("CORE_STOPPED"))
      PROVE  pc0' = "send" /\ Told(answer', "CORE_STOPPED")
  BY <1>2, ToldAnswer DEF Captures
<1>. QED
  BY <1>1, <1>2 DEF CoreOf!Wait, CoreOf!core1_vars

LEMMA PendingStep ==
  ASSUME NEW m \in SUBSET JpegModes, NEW w, NEW a, NEW h, NEW r, NEW f, CoreTyped,
         CoreOf(m, w, a, h, r, f)!Pending
  PROVE  /\ pc0 = "pending" /\ pc0' = "send"
         /\ Told(answer', "PENDING") /\ answer'.result.job = job.id
         /\ UNCHANGED <<requests, answers, mine, job, next_id, core_camera, core1, pc1, work, frame_buf>>
BY DEF CoreTyped, Told, CoreOf!Pending, CoreOf!Sending, CoreOf!Error, CoreOf!NoResult, CoreOf!core1_vars,
  AllResults, ResultsWith, Jobs

LEMMA SendStep ==
  ASSUME NEW m \in SUBSET JpegModes, NEW w, NEW a, NEW h, NEW r, NEW f, CoreTyped,
         CoreOf(m, w, a, h, r, f)!Send
  PROVE  /\ pc0 = "send" /\ pc0' = "idle" /\ mine' = 0
         /\ answer' \in [result : AllResults, summed : Nat]
         /\ \E gone \in Nat :
              /\ answer.result.jpeg => gone = frame_buf
              /\ answers' = Append(answers, [result |-> answer.result, summed |-> answer.summed, sent |-> gone])
         /\ UNCHANGED <<requests, job, next_id, core_camera, core1, pc1, work, frame_buf>>
<1>1. answer' \in [result : AllResults, summed : Nat]
  BY DEF CoreOf!Send, CoreOf!NoAnswer, CoreOf!NoResult, AllResults, ResultsWith, Captures
<1>2. (IF answer.result.jpeg THEN frame_buf ELSE 0) \in Nat
  BY DEF CoreTyped
<1>. QED
  BY <1>1, <1>2 DEF CoreOf!Send, CoreOf!core1_vars

LEMMA StartupStep ==
  ASSUME NEW m \in SUBSET JpegModes, NEW w, NEW a, NEW h, NEW r, NEW f, CoreTyped,
         \/ CoreOf(m, w, a, h, r, f)!Start \/ CoreOf(m, w, a, h, r, f)!Advance
         \/ CoreOf(m, w, a, h, r, f)!Announce
  PROVE  /\ pc1 \in {"start", "advance", "announce"} /\ pc1' \in {"advance", "take", "announce"}
         /\ core1' # "FAILED" \/ UNCHANGED core1
         /\ core_camera' \in [probe_ok : BOOLEAN, opened : BOOLEAN, streaming : BOOLEAN,
                               ready : BOOLEAN, startup : Startups]
         /\ core_camera.ready => UNCHANGED core_camera
         /\ core_camera'.startup = "READY" => core_camera'.ready \/ UNCHANGED core_camera
         /\ UNCHANGED <<requests, answers, pc0, mine, answer, job, next_id, work, frame_buf>>
BY DEF CoreTyped, CoreOf!Start, CoreOf!Advance, CoreOf!Announce, CoreOf!StartupGoesOn, CoreOf!ProbeCamera,
  CoreOf!OpenCamera, CoreOf!StartStream, CoreOf!Tried, CoreOf!MarkReady, CoreOf!core0_vars, Startups

LEMMA TakeJobStep ==
  ASSUME NEW m \in SUBSET JpegModes, NEW w, NEW a, NEW h, NEW r, NEW f, CoreTyped,
         CoreOf(m, w, a, h, r, f)!TakeJob
  PROVE  /\ pc1 = "take"
         /\ \/ /\ job.state = "PENDING" /\ pc1' = "read" /\ work' = job
               /\ job' \in Jobs /\ job'.state = "BUSY" /\ job'.id = job.id /\ job'.result = job.result
            \/ pc1' = "advance" /\ UNCHANGED <<job, work>>
         /\ UNCHANGED <<requests, answers, pc0, mine, answer, next_id, core_camera, core1, frame_buf>>
BY DEF CoreTyped, CoreOf!TakeJob, CoreOf!core0_vars, Jobs

LEMMA Around == ASSUME NEW x \in Nat, NEW n \in Nat \ {0} PROVE x % n \in Nat
OBVIOUS

LEMMA Above == ASSUME NEW x \in Nat PROVE x + 1 \in Nat \ {0}
OBVIOUS

LEMMA ReadStep ==
  ASSUME NEW m \in SUBSET JpegModes, NEW w, NEW a \in Nat, NEW h, NEW r \in Nat, NEW f, CoreTyped,
         CoreOf(m, w, a, h, r, f)!Read
  PROVE  /\ pc1 = "read"
         /\ \/ pc1' = "read" /\ UNCHANGED work
            \/ /\ pc1' = "finish" /\ work' \in Jobs /\ work'.id = work.id
               /\ work'.result.status = "STARTING" => ~core_camera.ready
               /\ work'.result.jpeg => work'.result.frame = frame_buf'
         /\ frame_buf' \in Nat
         /\ UNCHANGED <<requests, answers, pc0, mine, answer, job, next_id, core_camera, core1>>
<1>1. frame_buf' \in Nat
  <2>a. r * a \in Nat
    OBVIOUS
  <2>1. r * a + 1 \in Nat \ {0} /\ frame_buf + 1 \in Nat
    BY <2>a, Above DEF CoreTyped
  <2>2. (frame_buf + 1) % (r * a + 1) \in Nat
    BY <2>1, Around
  <2>. QED
    BY <2>2 DEF CoreTyped, CoreOf!Read
<1>2. ASSUME NEW outcome \in {"STARTING", "ERROR", "PASS", "NG"}, NEW jpeg \in BOOLEAN, NEW n \in Nat,
             work' = [work EXCEPT !.result =
                        [CoreOf(m, w, a, h, r, f)!Result(outcome) EXCEPT !.jpeg = jpeg, !.frame = n]]
      PROVE  /\ work' \in Jobs /\ work'.id = work.id /\ work'.result.status = outcome
             /\ work'.result.jpeg = jpeg /\ work'.result.frame = n
  BY <1>2 DEF CoreTyped, Jobs, ResultsWith, Captures, CoreOf!Result, CoreOf!Error, CoreOf!NoResult
<1>3. ASSUME NEW outcome \in {"STARTING", "ERROR"},
             work' = [work EXCEPT !.result = CoreOf(m, w, a, h, r, f)!Result(outcome)]
      PROVE  /\ work' \in Jobs /\ work'.id = work.id /\ work'.result.status = outcome
             /\ ~work'.result.jpeg
  BY <1>3 DEF CoreTyped, Jobs, ResultsWith, Captures, CoreOf!Result, CoreOf!Error, CoreOf!NoResult
<1>4. \A outcome \in {"PASS", "NG"} : CoreOf(m, w, a, h, r, f)!Wanted(outcome) \in BOOLEAN
  BY DEF CoreOf!Wanted
<1>5. CASE \E outcome \in {"PASS", "NG"} :
             CoreOf(m, w, a, h, r, f)!Captured([CoreOf(m, w, a, h, r, f)!Result(outcome) EXCEPT
               !.jpeg = CoreOf(m, w, a, h, r, f)!Wanted(outcome), !.frame = frame_buf'])
  <2>1. PICK outcome \in {"PASS", "NG"} :
          CoreOf(m, w, a, h, r, f)!Captured([CoreOf(m, w, a, h, r, f)!Result(outcome) EXCEPT
            !.jpeg = CoreOf(m, w, a, h, r, f)!Wanted(outcome), !.frame = frame_buf'])
    BY <1>5
  <2>2. /\ work' \in Jobs /\ work'.id = work.id /\ work'.result.status = outcome
        /\ work'.result.frame = frame_buf' /\ pc1' = "finish"
    BY <1>1, <1>2, <1>4, <2>1 DEF CoreOf!Captured
  <2>. QED
    BY <1>1, <2>2 DEF CoreOf!Read, CoreOf!core0_vars
<1>6. CASE CoreOf(m, w, a, h, r, f)!Captured(CoreOf(m, w, a, h, r, f)!Result("ERROR"))
  <2>1. pc1' = "finish" /\ work' \in Jobs /\ work'.id = work.id /\ work'.result.status = "ERROR"
        /\ ~work'.result.jpeg
    BY <1>3, <1>6 DEF CoreOf!Captured
  <2>. QED
    BY <1>1, <2>1 DEF CoreOf!Read, CoreOf!core0_vars
<1>7. CASE /\ ~core_camera.ready
           /\ CoreOf(m, w, a, h, r, f)!Captured(CoreOf(m, w, a, h, r, f)!Result("STARTING"))
  <2>1. pc1' = "finish" /\ work' \in Jobs /\ work'.id = work.id /\ ~work'.result.jpeg
    BY <1>3, <1>7 DEF CoreOf!Captured
  <2>. QED
    BY <1>1, <1>7, <2>1 DEF CoreOf!Read, CoreOf!core0_vars
<1>8. CASE UNCHANGED <<pc1, work>>
  BY <1>1, <1>8 DEF CoreOf!Read, CoreOf!core0_vars
<1>. QED
  BY <1>5, <1>6, <1>7, <1>8 DEF CoreOf!Read

LEMMA FinishStep ==
  ASSUME NEW m \in SUBSET JpegModes, NEW w, NEW a, NEW h, NEW r, NEW f, CoreTyped,
         CoreOf(m, w, a, h, r, f)!Finish, job.state = "BUSY", job.id = work.id
  PROVE  /\ pc1 = "finish" /\ pc1' = "advance"
         /\ job' \in Jobs /\ job'.id = job.id /\ job'.state = "DONE" /\ job'.result = work.result
         /\ UNCHANGED <<requests, answers, pc0, mine, answer, next_id, core_camera, core1, work, frame_buf>>
BY DEF CoreTyped, CoreOf!Finish, CoreOf!Resume, CoreOf!core0_vars, Jobs

LEMMA FailStep ==
  ASSUME NEW m \in SUBSET JpegModes, NEW w, NEW a, NEW h, NEW r, NEW f, CoreTyped,
         CoreOf(m, w, a, h, r, f)!Fail
  PROVE  /\ pc1 \in {"read", "finish"} /\ pc1' = "fail_jobs" /\ core1' = "FAILED"
         /\ core_camera' \in [probe_ok : BOOLEAN, opened : BOOLEAN, streaming : BOOLEAN,
                               ready : BOOLEAN, startup : Startups]
         /\ core_camera'.startup = "ERROR"
         /\ UNCHANGED <<requests, answers, pc0, mine, answer, job, next_id, work, frame_buf>>
BY DEF CoreTyped, CoreOf!Fail, CoreOf!core0_vars, Startups

LEMMA FailJobsStep ==
  ASSUME NEW m \in SUBSET JpegModes, NEW w, NEW a, NEW h, NEW r, NEW f, CoreTyped,
         CoreOf(m, w, a, h, r, f)!FailJobs
  PROVE  /\ pc1 = "fail_jobs" /\ pc1' = "stopped"
         /\ \/ /\ job.state \in {"PENDING", "BUSY"} /\ job' \in Jobs /\ job'.id = job.id
               /\ job'.state = "DONE" /\ job'.result.status = "CORE_STOPPED" /\ ~job'.result.jpeg
            \/ UNCHANGED job
         /\ UNCHANGED <<requests, answers, pc0, mine, answer, next_id, core_camera, core1, work, frame_buf>>
BY DEF CoreTyped, CoreOf!FailJobs, CoreOf!Error, CoreOf!NoResult, CoreOf!core0_vars, Jobs, ResultsWith, Captures

LEMMA AskKeeps ==
  ASSUME NEW m \in SUBSET JpegModes, NEW w, NEW a \in Nat, NEW h, NEW r \in Nat, NEW f, CoreInv,
         CoreOf(m, w, a, h, r, f)!AskStatus \/ CoreOf(m, w, a, h, r, f)!AskData
  PROVE  CoreInv'
<1>a. CoreTyped /\ TurnInv /\ PictureInv /\ GivenInv /\ PollInv /\ AskInv
  BY DEF CoreInv
<1>b. /\ \E q \in [kind : {"status", "data"}, mode : JpegModes] : requests' = Append(requests, q)
      /\ UNCHANGED <<answers, pc0, mine, answer, job, next_id, core_camera, core1, pc1, work,
                     frame_buf>>
  BY <1>a, AskStep
<1>d. /\ job.id \in Nat /\ next_id \in Nat /\ job.result.status \in Captures
      /\ Len(answers) \in Nat /\ DOMAIN answers = 1 .. Len(answers)
  BY <1>a DEF CoreTyped, Jobs, ResultsWith
<1>e. /\ Len(requests') = Len(requests) + 1 /\ Len(requests) \in Nat /\ Len(answers) <= Len(requests)
      /\ \A k \in 1 .. Len(requests) : requests'[k] = requests[k]
  BY <1>a, <1>b, Appended DEF CoreTyped
<1>f. pc0 # "idle" => Asked' = Asked
  BY <1>a, <1>b, <1>d, <1>e DEF TurnInv, Asked
<1>g. \A i, j \in Nat : j <= Len(answers) => (OnlyStatuses(i, j)' <=> OnlyStatuses(i, j))
  BY <1>d, <1>e DEF OnlyStatuses
<1>h. \A i, j \in DOMAIN answers : i < j /\ OnlyStatuses(i, j - 1)' => OnlyStatuses(i, j - 1)
  BY <1>d, <1>g
<1>1. CoreTyped'
  BY <1>a, <1>b DEF CoreTyped
<1>2. TurnInv'
  BY <1>a, <1>b DEF TurnInv, Idle, Asked
<1>3. PictureInv'
  BY <1>a, <1>b DEF PictureInv, TurnInv, Idle
<1>4. GivenInv'
  BY <1>a, <1>b DEF GivenInv, TurnInv, Idle, OfCapture
<1>5. PollInv'
  <2>1. \A j \in DOMAIN answers : requests'[j] = requests[j]
    BY <1>d, <1>e
  <2>2. ASSUME NEW i \in DOMAIN answers, answers[i].result.status = "PENDING", OnlyStatuses(i, Len(answers))'
        PROVE  (IF pc0 = "send" /\ Asked.kind = "data"
                THEN answer.result.status # "CORE_STOPPED" => answer.result.job = answers[i].result.job
                ELSE ~Idle /\ answers[i].result.job = job.id)'
    <3>1. OnlyStatuses(i, Len(answers))
      BY <1>b, <1>d, <1>g, <2>2
    <3>2. IF pc0 = "send" /\ Asked.kind = "data"
          THEN answer.result.status # "CORE_STOPPED" => answer.result.job = answers[i].result.job
          ELSE ~Idle /\ answers[i].result.job = job.id
      BY <1>a, <2>2, <3>1 DEF PollInv
    <3>. QED
      BY <1>b, <1>f, <3>2 DEF Idle
  <2>3. (pc0 = "send" /\ answer.result.status = "PENDING" => ~Idle /\ answer.result.job = job.id)'
    BY <1>a, <1>b DEF PollInv, Idle
  <2>4. ASSUME NEW i \in DOMAIN answers, NEW j \in DOMAIN answers, i < j, requests'[j].kind = "data",
               OnlyStatuses(i, j - 1)', answers[i].result.status = "PENDING",
               answers[j].result.status # "CORE_STOPPED"
        PROVE  answers[j].result.job = answers[i].result.job
    BY <1>a, <1>h, <2>1, <2>4 DEF PollInv
  <2>. QED
    BY <1>b, <2>2, <2>3, <2>4 DEF PollInv
<1>6. AskInv'
  BY <1>a, <1>b, <1>d, <1>f, <1>g DEF AskInv, TurnInv, Idle, CameUp
<1>. QED
  BY <1>1, <1>2, <1>3, <1>4, <1>5, <1>6 DEF CoreInv

LEMMA AnswerStatusKeeps ==
  ASSUME NEW m \in SUBSET JpegModes, NEW w, NEW a \in Nat, NEW h, NEW r \in Nat, NEW f, CoreInv,
         CoreOf(m, w, a, h, r, f)!AnswerStatus
  PROVE  CoreInv'
<1>a. CoreTyped /\ TurnInv /\ PictureInv /\ GivenInv /\ PollInv /\ AskInv
  BY DEF CoreInv
<1>b. /\ pc0 = "idle" /\ Len(answers) < Len(requests) /\ Asked.kind = "status"
      /\ pc0' = "send"
      /\ \E text \in Startups :
           /\ text = "READY" => core_camera.ready \/ core_camera.startup = "READY"
           /\ Told(answer', text)
      /\ UNCHANGED <<requests, answers, mine, job, next_id, core_camera, core1, pc1, work, frame_buf>>
  BY <1>a, AnswerStatusStep
<1>d. /\ job.id \in Nat /\ next_id \in Nat /\ job.result.status \in Captures
      /\ Len(answers) \in Nat /\ DOMAIN answers = 1 .. Len(answers)
  BY <1>a DEF CoreTyped, Jobs, ResultsWith
<1>e. Asked' = Asked /\ \A i, j : OnlyStatuses(i, j)' <=> OnlyStatuses(i, j)
  BY <1>b DEF Asked, OnlyStatuses
<1>1. CoreTyped'
  BY <1>a, <1>b DEF CoreTyped, Told
<1>2. TurnInv'
  BY <1>a, <1>b DEF TurnInv, Idle, Asked, Told
<1>3. PictureInv'
  BY <1>a, <1>b DEF PictureInv, TurnInv, Idle, Told
<1>4. GivenInv'
  BY <1>a, <1>b, <1>d DEF GivenInv, TurnInv, Idle, OfCapture, Told, Startups
<1>5. PollInv'
  BY <1>a, <1>b, <1>d, <1>e DEF PollInv, TurnInv, Idle, Told, Startups
<1>6. AskInv'
  BY <1>a, <1>b, <1>d, <1>e DEF AskInv, TurnInv, Idle, CameUp, Told, Startups
<1>. QED
  BY <1>1, <1>2, <1>3, <1>4, <1>5, <1>6 DEF CoreInv

LEMMA BeginDataKeeps ==
  ASSUME NEW m \in SUBSET JpegModes, NEW w, NEW a \in Nat, NEW h, NEW r \in Nat, NEW f, CoreInv,
         CoreOf(m, w, a, h, r, f)!BeginData
  PROVE  CoreInv'
<1>a. CoreTyped /\ TurnInv /\ PictureInv /\ GivenInv /\ PollInv /\ AskInv
  BY DEF CoreInv
<1>b. /\ pc0 = "idle" /\ Len(answers) < Len(requests) /\ Asked.kind = "data"
      /\ \/ core1 = "FAILED" /\ pc0' = "send" /\ Told(answer', "CORE_STOPPED")
         \/ pc0' = "look" /\ UNCHANGED answer
      /\ UNCHANGED <<requests, answers, mine, job, next_id, core_camera, core1, pc1, work, frame_buf>>
  BY <1>a, BeginDataStep
<1>1. CoreTyped'
  BY <1>a, <1>b DEF CoreTyped, Told
<1>2. TurnInv'
  BY <1>a, <1>b DEF TurnInv, Idle, Asked, Told
<1>3. PictureInv'
  BY <1>a, <1>b DEF PictureInv, TurnInv, Idle, Told
<1>4. GivenInv'
  BY <1>a, <1>b DEF GivenInv, TurnInv, Idle, OfCapture, Told
<1>5. PollInv'
  BY <1>a, <1>b DEF PollInv, TurnInv, Idle, Asked, OnlyStatuses, Told
<1>6. AskInv'
  BY <1>a, <1>b DEF AskInv, TurnInv, Idle, Asked, OnlyStatuses, CameUp, Told
<1>. QED
  BY <1>1, <1>2, <1>3, <1>4, <1>5, <1>6 DEF CoreInv

LEMMA LookKeeps ==
  ASSUME NEW m \in SUBSET JpegModes, NEW w, NEW a \in Nat, NEW h, NEW r \in Nat, NEW f, CoreInv,
         CoreOf(m, w, a, h, r, f)!LookAtJob
  PROVE  CoreInv'
<1>a. CoreTyped /\ TurnInv /\ PictureInv /\ GivenInv /\ PollInv /\ AskInv
  BY DEF CoreInv
<1>c. Len(answers) < Len(requests)
  BY <1>a DEF TurnInv, CoreOf!LookAtJob
<1>b. /\ pc0 = "look"
      /\ \/ TakenUp /\ UNCHANGED <<mine, next_id>>
         \/ /\ Idle /\ next_id' = next_id + 1 /\ mine' = next_id'
            /\ job' \in Jobs /\ job'.id = next_id' /\ job'.state = "PENDING"
            /\ job'.result.status = "NONE"
            /\ pc0' = "wait" /\ UNCHANGED answer
         \/ /\ ~Idle /\ mine' = job.id /\ pc0' = "wait" /\ UNCHANGED <<job, next_id, answer>>
      /\ UNCHANGED <<requests, answers, core_camera, core1, pc1, work, frame_buf>>
  BY <1>a, <1>c, LookStep
<1>d. /\ job.id \in Nat /\ next_id \in Nat /\ job.result.status \in Captures
      /\ Len(answers) \in Nat /\ DOMAIN answers = 1 .. Len(answers)
  BY <1>a DEF CoreTyped, Jobs, ResultsWith
<1>e. Asked' = Asked /\ \A i, j : OnlyStatuses(i, j)' <=> OnlyStatuses(i, j)
  BY <1>b DEF Asked, OnlyStatuses
<1>1. CoreTyped'
  BY <1>a, <1>b, <1>d DEF CoreTyped, TakenUp
<1>2. TurnInv'
  BY <1>a, <1>b, <1>c, <1>d, <1>e DEF TurnInv, Idle, TakenUp
<1>3. PictureInv'
  BY <1>a, <1>b, <1>c DEF PictureInv, TurnInv, Idle, TakenUp
<1>4. GivenInv'
  <2>1. CASE TakenUp /\ UNCHANGED <<mine, next_id>>
    <3>1. job.id = next_id /\ ~Idle /\ Idle' /\ answer'.result.job = next_id
      BY <1>a, <2>1 DEF TurnInv, Idle, TakenUp
    <3>. QED
      BY <1>a, <1>b, <1>d, <2>1, <3>1 DEF GivenInv, OfCapture
  <2>2. CASE Idle /\ next_id' = next_id + 1 /\ pc0' = "wait" /\ UNCHANGED answer
    <3>a. \A i \in DOMAIN answers : answers[i] \in [result : AllResults, summed : Nat, sent : Nat]
      BY <1>a, <1>d, ElementType DEF CoreTyped
    <3>1. \A i \in DOMAIN answers : OfCapture(answers[i].result) =>
            answers[i].result.job <= next_id /\ answers[i].result.job \in Nat
      BY <1>a, <3>a DEF GivenInv, AllResults, ResultsWith
    <3>2. \A i \in DOMAIN answers : OfCapture(answers[i].result) =>
            answers[i].result.job <= next_id' /\ answers[i].result.job # next_id'
      BY <1>d, <2>2, <3>1
    <3>. QED
      BY <1>a, <1>b, <2>2, <3>2 DEF GivenInv, OfCapture
  <2>3. CASE ~Idle /\ pc0' = "wait" /\ UNCHANGED <<job, next_id, answer>>
    BY <1>a, <1>b, <2>3 DEF GivenInv, OfCapture, Idle
  <2>. QED
    BY <1>b, <2>1, <2>2, <2>3
<1>5. PollInv'
  BY <1>a, <1>b, <1>d, <1>e DEF PollInv, TurnInv, Idle, TakenUp, Captures
<1>6. AskInv'
  BY <1>a, <1>b, <1>d, <1>e DEF AskInv, TurnInv, Idle, CameUp, TakenUp, Captures
<1>. QED
  BY <1>1, <1>2, <1>3, <1>4, <1>5, <1>6 DEF CoreInv

LEMMA WaitKeeps ==
  ASSUME NEW m \in SUBSET JpegModes, NEW w, NEW a \in Nat, NEW h, NEW r \in Nat, NEW f, CoreInv,
         CoreOf(m, w, a, h, r, f)!Wait
  PROVE  CoreInv'
<1>a. CoreTyped /\ TurnInv /\ PictureInv /\ GivenInv /\ PollInv /\ AskInv
  BY DEF CoreInv
<1>b. /\ pc0 = "wait"
      /\ \/ TakenUp /\ job.id = mine
         \/ core1 = "FAILED" /\ pc0' = "send" /\ Told(answer', "CORE_STOPPED") /\ UNCHANGED job
         \/ pc0' = "wait" /\ UNCHANGED <<job, answer>>
         \/ pc0' = "pending" /\ UNCHANGED <<job, answer>>
      /\ UNCHANGED <<requests, answers, mine, next_id, core_camera, core1, pc1, work, frame_buf>>
  BY <1>a, WaitStep
<1>d. /\ job.id \in Nat /\ next_id \in Nat /\ job.result.status \in Captures
      /\ Len(answers) \in Nat /\ DOMAIN answers = 1 .. Len(answers)
  BY <1>a DEF CoreTyped, Jobs, ResultsWith
<1>e. Asked' = Asked /\ \A i, j : OnlyStatuses(i, j)' <=> OnlyStatuses(i, j)
  BY <1>b DEF Asked, OnlyStatuses
<1>1. CoreTyped'
  BY <1>a, <1>b DEF CoreTyped, Told, TakenUp
<1>2. TurnInv'
  BY <1>a, <1>b DEF TurnInv, Idle, Asked, Told, TakenUp
<1>3. PictureInv'
  BY <1>a, <1>b DEF PictureInv, TurnInv, Idle, Told, TakenUp
<1>4. GivenInv'
  BY <1>a, <1>b, <1>d DEF GivenInv, TurnInv, Idle, OfCapture, TakenUp, Told, Captures
<1>5. PollInv'
  BY <1>a, <1>b, <1>d, <1>e DEF PollInv, TurnInv, Idle, TakenUp, Told, Captures
<1>6. AskInv'
  BY <1>a, <1>b, <1>d, <1>e DEF AskInv, TurnInv, Idle, CameUp, TakenUp, Told, Captures
<1>. QED
  BY <1>1, <1>2, <1>3, <1>4, <1>5, <1>6 DEF CoreInv

LEMMA PendingKeeps ==
  ASSUME NEW m \in SUBSET JpegModes, NEW w, NEW a \in Nat, NEW h, NEW r \in Nat, NEW f, CoreInv,
         CoreOf(m, w, a, h, r, f)!Pending
  PROVE  CoreInv'
<1>a. CoreTyped /\ TurnInv /\ PictureInv /\ GivenInv /\ PollInv /\ AskInv
  BY DEF CoreInv
<1>b. /\ pc0 = "pending" /\ pc0' = "send"
      /\ Told(answer', "PENDING") /\ answer'.result.job = job.id
      /\ UNCHANGED <<requests, answers, mine, job, next_id, core_camera, core1, pc1, work, frame_buf>>
  BY <1>a, PendingStep
<1>1. CoreTyped'
  BY <1>a, <1>b DEF CoreTyped, Told
<1>2. TurnInv'
  BY <1>a, <1>b DEF TurnInv, Idle, Asked, Told
<1>3. PictureInv'
  BY <1>a, <1>b DEF PictureInv, TurnInv, Idle, Told
<1>4. GivenInv'
  BY <1>a, <1>b DEF GivenInv, TurnInv, Idle, OfCapture, Told
<1>5. PollInv'
  BY <1>a, <1>b DEF PollInv, TurnInv, Idle, Asked, OnlyStatuses, Told
<1>6. AskInv'
  BY <1>a, <1>b DEF AskInv, TurnInv, Idle, Asked, OnlyStatuses, CameUp, Told
<1>. QED
  BY <1>1, <1>2, <1>3, <1>4, <1>5, <1>6 DEF CoreInv

LEMMA SendKeeps ==
  ASSUME NEW m \in SUBSET JpegModes, NEW w, NEW a \in Nat, NEW h, NEW r \in Nat, NEW f, CoreInv,
         CoreOf(m, w, a, h, r, f)!Send
  PROVE  CoreInv'
<1>a. CoreTyped /\ TurnInv /\ PictureInv /\ GivenInv /\ PollInv /\ AskInv
  BY DEF CoreInv
<1>b. /\ pc0 = "send" /\ pc0' = "idle" /\ mine' = 0
      /\ answer' \in [result : AllResults, summed : Nat]
      /\ \E gone \in Nat :
           /\ answer.result.jpeg => gone = frame_buf
           /\ answers' = Append(answers, [result |-> answer.result, summed |-> answer.summed, sent |-> gone])
      /\ UNCHANGED <<requests, job, next_id, core_camera, core1, pc1, work, frame_buf>>
  BY <1>a, SendStep
<1>d. /\ job.id \in Nat /\ next_id \in Nat /\ job.result.status \in Captures
      /\ Len(answers) \in Nat /\ DOMAIN answers = 1 .. Len(answers)
  BY <1>a DEF CoreTyped, Jobs, ResultsWith
<1>1. CoreTyped'
  <2>1. PICK gone \in Nat : answers' =
          Append(answers, [result |-> answer.result, summed |-> answer.summed, sent |-> gone])
    BY <1>b
  <2>2. /\ answers \in Seq([result : AllResults, summed : Nat, sent : Nat])
        /\ [result |-> answer.result, summed |-> answer.summed, sent |-> gone]
             \in [result : AllResults, summed : Nat, sent : Nat]
    BY <1>a DEF CoreTyped
  <2>3. /\ answers' \in Seq([result : AllResults, summed : Nat, sent : Nat])
        /\ Len(answers') = Len(answers) + 1
    BY <2>1, <2>2, Appended
  <2>4. Len(answers') <= Len(requests) /\ mine' \in Nat
    BY <1>a, <1>b, <1>d, <2>3 DEF CoreTyped, TurnInv
  <2>. QED
    BY <1>a, <1>b, <2>3, <2>4 DEF CoreTyped
<1>2. TurnInv'
  BY <1>a, <1>b DEF TurnInv, Idle, Asked
<1>3. PictureInv'
  BY <1>a, <1>b DEF PictureInv, TurnInv, Idle
<1>4. GivenInv'
  BY <1>a, <1>b DEF GivenInv, TurnInv, Idle, OfCapture
<1>5. PollInv'
  <2>1. PICK gone \in Nat : answers' =
          Append(answers, [result |-> answer.result, summed |-> answer.summed, sent |-> gone])
    BY <1>b
  <2>. DEFINE n == Len(answers) + 1
  <2>2. /\ Len(answers') = n /\ DOMAIN answers' = 1 .. n /\ n \in Nat
        /\ \A i \in DOMAIN answers : answers'[i] = answers[i]
        /\ answers'[n].result = answer.result
    BY <1>a, <1>d, <2>1, Appended DEF CoreTyped
  <2>3. Asked = requests[n] /\ pc0 = "send" /\ pc0' = "idle" /\ Idle' = Idle /\ UNCHANGED <<requests, job>>
    BY <1>b DEF Asked, Idle
  <2>. HIDE DEF n
  <2>4. \A i \in DOMAIN answers : \A j \in Nat : OnlyStatuses(i, j)' <=> OnlyStatuses(i, j)
    BY <2>3 DEF OnlyStatuses
  <2>5. \A i \in DOMAIN answers :
          OnlyStatuses(i, n) <=> OnlyStatuses(i, Len(answers)) /\ Asked.kind = "status"
    BY <1>d, <2>3 DEF OnlyStatuses, n
  <2>6. Asked.kind \in {"status", "data"}
    <3>1. n \in 1 .. Len(requests)
      BY <1>a, <1>b, <1>d DEF CoreTyped, TurnInv, n
    <3>2. Asked \in [kind : {"status", "data"}, mode : JpegModes]
      BY <1>a, <2>3, <3>1, ElementType DEF CoreTyped
    <3>. QED
      BY <3>2
  <2>7. ASSUME NEW i \in DOMAIN answers', answers'[i].result.status = "PENDING", OnlyStatuses(i, n)
        PROVE  ~Idle /\ answers'[i].result.job = job.id
    <3>1. CASE i = n
      BY <1>a, <2>2, <2>3, <2>7, <3>1 DEF PollInv
    <3>2. CASE i \in DOMAIN answers
      BY <1>a, <2>2, <2>3, <2>5, <2>7, <3>2 DEF PollInv
    <3>. QED
      BY <1>d, <2>2, <3>1, <3>2 DEF n
  <2>8. ASSUME NEW i \in DOMAIN answers', NEW j \in DOMAIN answers', i < j, requests[j].kind = "data",
               OnlyStatuses(i, j - 1), answers'[i].result.status = "PENDING",
               answers'[j].result.status # "CORE_STOPPED"
        PROVE  answers'[j].result.job = answers'[i].result.job
    <3>1. i \in DOMAIN answers
      BY <1>d, <2>2, <2>8 DEF n
    <3>2. CASE j \in DOMAIN answers
      BY <1>a, <2>2, <2>8, <3>1, <3>2 DEF PollInv
    <3>3. CASE j = n
      <4>1. OnlyStatuses(i, Len(answers)) /\ Asked.kind = "data"
        BY <1>d, <2>3, <2>8, <3>3 DEF n
      <4>. QED
        BY <1>a, <2>2, <2>3, <2>8, <3>1, <3>3, <4>1 DEF PollInv
    <3>. QED
      BY <1>d, <2>2, <3>2, <3>3 DEF n
  <2>9. \A i \in DOMAIN answers', j \in Nat : OnlyStatuses(i, j)' <=> OnlyStatuses(i, j)
    BY <2>3 DEF OnlyStatuses
  <2>. QED
    <3>1. \A j \in DOMAIN answers' : j - 1 \in Nat
      BY <2>2
    <3>. QED
      BY <2>2, <2>3, <2>7, <2>8, <2>9, <3>1 DEF PollInv
<1>6. AskInv'
  BY <1>a, <1>b DEF AskInv, TurnInv, Idle, Asked, OnlyStatuses, CameUp
<1>. QED
  BY <1>1, <1>2, <1>3, <1>4, <1>5, <1>6 DEF CoreInv

LEMMA StartupKeeps ==
  ASSUME NEW m \in SUBSET JpegModes, NEW w, NEW a \in Nat, NEW h, NEW r \in Nat, NEW f, CoreInv,
         \/ CoreOf(m, w, a, h, r, f)!Start \/ CoreOf(m, w, a, h, r, f)!Advance
         \/ CoreOf(m, w, a, h, r, f)!Announce
  PROVE  CoreInv'
<1>a. CoreTyped /\ TurnInv /\ PictureInv /\ GivenInv /\ PollInv /\ AskInv
  BY DEF CoreInv
<1>b. /\ pc1 \in {"start", "advance", "announce"} /\ pc1' \in {"advance", "take", "announce"}
      /\ core1' # "FAILED" \/ UNCHANGED core1
      /\ core_camera' \in [probe_ok : BOOLEAN, opened : BOOLEAN, streaming : BOOLEAN,
                            ready : BOOLEAN, startup : Startups]
      /\ core_camera.ready => UNCHANGED core_camera
      /\ core_camera'.startup = "READY" => core_camera'.ready \/ UNCHANGED core_camera
      /\ UNCHANGED <<requests, answers, pc0, mine, answer, job, next_id, work, frame_buf>>
  BY <1>a, StartupStep
<1>1. CoreTyped'
  BY <1>a, <1>b DEF CoreTyped
<1>2. TurnInv'
  BY <1>a, <1>b DEF TurnInv, Idle, Asked
<1>3. PictureInv'
  BY <1>a, <1>b DEF PictureInv, TurnInv, Idle
<1>4. GivenInv'
  BY <1>a, <1>b DEF GivenInv, TurnInv, Idle, OfCapture
<1>5. PollInv'
  BY <1>a, <1>b DEF PollInv, TurnInv, Idle, Asked, OnlyStatuses
<1>6. AskInv'
  BY <1>a, <1>b DEF AskInv, TurnInv, Idle, Asked, OnlyStatuses, CameUp
<1>. QED
  BY <1>1, <1>2, <1>3, <1>4, <1>5, <1>6 DEF CoreInv

LEMMA TakeJobKeeps ==
  ASSUME NEW m \in SUBSET JpegModes, NEW w, NEW a \in Nat, NEW h, NEW r \in Nat, NEW f, CoreInv,
         CoreOf(m, w, a, h, r, f)!TakeJob
  PROVE  CoreInv'
<1>a. CoreTyped /\ TurnInv /\ PictureInv /\ GivenInv /\ PollInv /\ AskInv
  BY DEF CoreInv
<1>b. /\ pc1 = "take"
      /\ \/ /\ job.state = "PENDING" /\ pc1' = "read" /\ work' = job
            /\ job' \in Jobs /\ job'.state = "BUSY" /\ job'.id = job.id /\ job'.result = job.result
         \/ pc1' = "advance" /\ UNCHANGED <<job, work>>
      /\ UNCHANGED <<requests, answers, pc0, mine, answer, next_id, core_camera, core1, frame_buf>>
  BY <1>a, TakeJobStep
<1>1. CoreTyped'
  BY <1>a, <1>b DEF CoreTyped
<1>2. TurnInv'
  BY <1>a, <1>b DEF TurnInv, Idle, Asked
<1>3. PictureInv'
  BY <1>a, <1>b DEF PictureInv, TurnInv, Idle
<1>4. GivenInv'
  BY <1>a, <1>b DEF GivenInv, TurnInv, Idle, OfCapture
<1>5. PollInv'
  BY <1>a, <1>b DEF PollInv, TurnInv, Idle, Asked, OnlyStatuses
<1>6. AskInv'
  BY <1>a, <1>b DEF AskInv, TurnInv, Idle, Asked, OnlyStatuses, CameUp
<1>. QED
  BY <1>1, <1>2, <1>3, <1>4, <1>5, <1>6 DEF CoreInv

LEMMA ReadKeeps ==
  ASSUME NEW m \in SUBSET JpegModes, NEW w, NEW a \in Nat, NEW h, NEW r \in Nat, NEW f, CoreInv,
         CoreOf(m, w, a, h, r, f)!Read
  PROVE  CoreInv'
<1>a. CoreTyped /\ TurnInv /\ PictureInv /\ GivenInv /\ PollInv /\ AskInv
  BY DEF CoreInv
<1>b. /\ pc1 = "read"
      /\ \/ pc1' = "read" /\ UNCHANGED work
         \/ /\ pc1' = "finish" /\ work' \in Jobs /\ work'.id = work.id
            /\ work'.result.status = "STARTING" => ~core_camera.ready
            /\ work'.result.jpeg => work'.result.frame = frame_buf'
      /\ frame_buf' \in Nat
      /\ UNCHANGED <<requests, answers, pc0, mine, answer, job, next_id, core_camera, core1>>
  BY <1>a, ReadStep
<1>1. CoreTyped'
  BY <1>a, <1>b DEF CoreTyped
<1>2. TurnInv'
  BY <1>a, <1>b DEF TurnInv, Idle, Asked
<1>3. PictureInv'
  BY <1>a, <1>b DEF PictureInv, TurnInv, Idle
<1>4. GivenInv'
  BY <1>a, <1>b DEF GivenInv, TurnInv, Idle, OfCapture
<1>5. PollInv'
  BY <1>a, <1>b DEF PollInv, TurnInv, Idle, Asked, OnlyStatuses
<1>6. AskInv'
  BY <1>a, <1>b DEF AskInv, TurnInv, Idle, Asked, OnlyStatuses, CameUp
<1>. QED
  BY <1>1, <1>2, <1>3, <1>4, <1>5, <1>6 DEF CoreInv

LEMMA FinishKeeps ==
  ASSUME NEW m \in SUBSET JpegModes, NEW w, NEW a \in Nat, NEW h, NEW r \in Nat, NEW f, CoreInv,
         CoreOf(m, w, a, h, r, f)!Finish
  PROVE  CoreInv'
<1>a. CoreTyped /\ TurnInv /\ PictureInv /\ GivenInv /\ PollInv /\ AskInv
  BY DEF CoreInv
<1>c. job.state = "BUSY" /\ job.id = work.id
  BY <1>a DEF TurnInv, CoreOf!Finish
<1>b. /\ pc1 = "finish" /\ pc1' = "advance"
      /\ job' \in Jobs /\ job'.id = job.id /\ job'.state = "DONE" /\ job'.result = work.result
      /\ UNCHANGED <<requests, answers, pc0, mine, answer, next_id, core_camera, core1, work, frame_buf>>
  BY <1>a, <1>c, FinishStep
<1>1. CoreTyped'
  BY <1>a, <1>b, <1>c DEF CoreTyped
<1>2. TurnInv'
  BY <1>a, <1>b, <1>c DEF TurnInv, Idle, Asked
<1>3. PictureInv'
  BY <1>a, <1>b, <1>c DEF PictureInv, TurnInv, Idle
<1>4. GivenInv'
  BY <1>a, <1>b, <1>c DEF GivenInv, TurnInv, Idle, OfCapture
<1>5. PollInv'
  BY <1>a, <1>b, <1>c DEF PollInv, TurnInv, Idle, Asked, OnlyStatuses
<1>6. AskInv'
  BY <1>a, <1>b, <1>c DEF AskInv, TurnInv, Idle, Asked, OnlyStatuses, CameUp
<1>. QED
  BY <1>1, <1>2, <1>3, <1>4, <1>5, <1>6 DEF CoreInv

LEMMA FailKeeps ==
  ASSUME NEW m \in SUBSET JpegModes, NEW w, NEW a \in Nat, NEW h, NEW r \in Nat, NEW f, CoreInv,
         CoreOf(m, w, a, h, r, f)!Fail
  PROVE  CoreInv'
<1>a. CoreTyped /\ TurnInv /\ PictureInv /\ GivenInv /\ PollInv /\ AskInv
  BY DEF CoreInv
<1>b. /\ pc1 \in {"read", "finish"} /\ pc1' = "fail_jobs" /\ core1' = "FAILED"
      /\ core_camera' \in [probe_ok : BOOLEAN, opened : BOOLEAN, streaming : BOOLEAN,
                            ready : BOOLEAN, startup : Startups]
      /\ core_camera'.startup = "ERROR"
      /\ UNCHANGED <<requests, answers, pc0, mine, answer, job, next_id, work, frame_buf>>
  BY <1>a, FailStep
<1>1. CoreTyped'
  BY <1>a, <1>b DEF CoreTyped
<1>2. TurnInv'
  BY <1>a, <1>b DEF TurnInv, Idle, Asked
<1>3. PictureInv'
  BY <1>a, <1>b DEF PictureInv, TurnInv, Idle
<1>4. GivenInv'
  BY <1>a, <1>b DEF GivenInv, TurnInv, Idle, OfCapture
<1>5. PollInv'
  BY <1>a, <1>b DEF PollInv, TurnInv, Idle, Asked, OnlyStatuses
<1>6. AskInv'
  BY <1>a, <1>b DEF AskInv, TurnInv, Idle, Asked, OnlyStatuses, CameUp
<1>. QED
  BY <1>1, <1>2, <1>3, <1>4, <1>5, <1>6 DEF CoreInv

LEMMA FailJobsKeeps ==
  ASSUME NEW m \in SUBSET JpegModes, NEW w, NEW a \in Nat, NEW h, NEW r \in Nat, NEW f, CoreInv,
         CoreOf(m, w, a, h, r, f)!FailJobs
  PROVE  CoreInv'
<1>a. CoreTyped /\ TurnInv /\ PictureInv /\ GivenInv /\ PollInv /\ AskInv
  BY DEF CoreInv
<1>b. /\ pc1 = "fail_jobs" /\ pc1' = "stopped"
      /\ \/ /\ job.state \in {"PENDING", "BUSY"} /\ job' \in Jobs /\ job'.id = job.id
            /\ job'.state = "DONE" /\ job'.result.status = "CORE_STOPPED" /\ ~job'.result.jpeg
         \/ UNCHANGED job
      /\ UNCHANGED <<requests, answers, pc0, mine, answer, next_id, core_camera, core1, work, frame_buf>>
  BY <1>a, FailJobsStep
<1>1. CoreTyped'
  BY <1>a, <1>b DEF CoreTyped
<1>2. TurnInv'
  BY <1>a, <1>b DEF TurnInv, Idle, Asked
<1>3. PictureInv'
  BY <1>a, <1>b DEF PictureInv, TurnInv, Idle
<1>4. GivenInv'
  BY <1>a, <1>b DEF GivenInv, TurnInv, Idle, OfCapture
<1>5. PollInv'
  BY <1>a, <1>b DEF PollInv, TurnInv, Idle, Asked, OnlyStatuses
<1>6. AskInv'
  BY <1>a, <1>b DEF AskInv, TurnInv, Idle, Asked, OnlyStatuses, CameUp
<1>. QED
  BY <1>1, <1>2, <1>3, <1>4, <1>5, <1>6 DEF CoreInv

LEMMA CoreKeeps ==
  ASSUME NEW m \in SUBSET JpegModes, NEW w, NEW a \in Nat, NEW h, NEW r \in Nat, NEW f, CoreInv,
         [CoreOf(m, w, a, h, r, f)!Next]_coreVars
  PROVE  CoreInv'
<1>1. CASE UNCHANGED coreVars
  BY <1>1 DEF coreVars, CoreInv, CoreTyped, TurnInv, PictureInv, GivenInv, PollInv, AskInv, Idle,
    Asked, OnlyStatuses, OfCapture, CameUp
<1>2. CASE CoreOf(m, w, a, h, r, f)!AskStatus \/ CoreOf(m, w, a, h, r, f)!AskData
  BY <1>2, AskKeeps
<1>3. CASE CoreOf(m, w, a, h, r, f)!Core0
  BY <1>3, AnswerStatusKeeps, BeginDataKeeps, LookKeeps, WaitKeeps, PendingKeeps, SendKeeps
  DEF CoreOf!Core0
<1>4. CASE CoreOf(m, w, a, h, r, f)!Core1
  BY <1>4, StartupKeeps, TakeJobKeeps, ReadKeeps, FinishKeeps, FailKeeps, FailJobsKeeps
  DEF CoreOf!Core1
<1>. QED
  BY <1>1, <1>2, <1>3, <1>4 DEF CoreOf!Next

CorePromise(m, w, a, h, r, f) ==
  /\ CoreOf(m, w, a, h, r, f)!PictureIsResults /\ CoreOf(m, w, a, h, r, f)!GivenOnce
  /\ CoreOf(m, w, a, h, r, f)!PollsSameJob /\ CoreOf(m, w, a, h, r, f)!HostMayAsk

LEMMA CorePictures ==
  ASSUME NEW m, NEW w, NEW a, NEW h, NEW r, NEW f, CoreInv
  PROVE  CorePromise(m, w, a, h, r, f)
<1>1. CoreOf(m, w, a, h, r, f)!PictureIsResults
  BY DEF CoreInv, PictureInv, CoreOf!PictureIsResults
<1>2. CoreOf(m, w, a, h, r, f)!GivenOnce
  BY DEF CoreInv, GivenInv, OfCapture, CoreOf!GivenOnce, CoreOf!Framed
<1>3. CoreOf(m, w, a, h, r, f)!PollsSameJob
  BY DEF CoreInv, PollInv, OnlyStatuses, CoreOf!PollsSameJob
<1>4. CoreOf(m, w, a, h, r, f)!HostMayAsk
  BY DEF CoreInv, AskInv, OnlyStatuses, CoreOf!HostMayAsk
<1>. QED
  BY <1>1, <1>2, <1>3, <1>4 DEF CorePromise

\* Of the service with any number of requests, attempts, waits and failures: a picture that is
\* sent out of the shared buffer is the one that was summed and that the result is of; no capture
\* is given twice; a host that polls is told of the job it was told of; and one that waits for
\* READY is not told STARTING.
THEOREM PicturesAreOfCaptures ==
  ASSUME NEW m \in SUBSET JpegModes, NEW w, NEW a \in Nat, NEW h, NEW r \in Nat, NEW f
  PROVE  CoreOf(m, w, a, h, r, f)!Spec => []CorePromise(m, w, a, h, r, f)
<1>1. CoreOf(m, w, a, h, r, f)!Init => CoreInv
  BY CoreInit
<1>2. CoreInv /\ [CoreOf(m, w, a, h, r, f)!Next]_coreVars => CoreInv'
  BY CoreKeeps
<1>3. UNCHANGED CoreOf(m, w, a, h, r, f)!vars => UNCHANGED coreVars
  BY DEF CoreOf!vars, CoreOf!core0_vars, CoreOf!core1_vars, coreVars
<1>4. CoreInv => CorePromise(m, w, a, h, r, f)
  BY CorePictures
<1>. QED
  BY <1>1, <1>2, <1>3, <1>4, PTL DEF CoreOf!Spec

LEMMA CoreSame ==
  /\ Core!Init <=> CoreOf({"on_ng"}, 0, 2, 2, 3, 0)!Init
  /\ Core!Next <=> CoreOf({"on_ng"}, 0, 2, 2, 3, 0)!Next
<1>1. Core!Init <=> CoreOf({"on_ng"}, 0, 2, 2, 3, 0)!Init
  BY DEF
    Core!Init, Core!NoJob, Core!NoAnswer, Core!Booting, Core!NoResult, CoreOf!Init, CoreOf!NoJob,
    CoreOf!NoAnswer, CoreOf!Booting, CoreOf!NoResult
<1>2. Core!Next <=> CoreOf({"on_ng"}, 0, 2, 2, 3, 0)!Next
  BY DEF
    Core!Next, Core!AskStatus, Core!AskData, Core!Core0, Core!Core1, Core!Ask, Core!AnswerStatus,
    Core!BeginData, Core!LookAtJob, Core!Wait, Core!Pending, Core!Send, Core!Start, Core!Advance,
    Core!Announce, Core!TakeJob, Core!Read, Core!Finish, Core!Fail, Core!FailJobs,
    Core!core0_vars, Core!core1_vars, Core!Current, Core!Request, Core!Error, Core!Sending,
    Core!SaysReady, Core!Take, Core!MaySubmit, Core!Submit, Core!CannotTake, Core!NoAnswer,
    Core!ProbeCamera, Core!OpenCamera, Core!StartStream, Core!MarkReady, Core!StartupGoesOn,
    Core!Result, Core!Wanted, Core!MayRead, Core!Captured, Core!Resume, Core!NoResult,
    Core!AfterTake, Core!NoJob, Core!Tried, CoreOf!Next, CoreOf!AskStatus, CoreOf!AskData,
    CoreOf!Core0, CoreOf!Core1, CoreOf!Ask, CoreOf!AnswerStatus, CoreOf!BeginData,
    CoreOf!LookAtJob, CoreOf!Wait, CoreOf!Pending, CoreOf!Send, CoreOf!Start, CoreOf!Advance,
    CoreOf!Announce, CoreOf!TakeJob, CoreOf!Read, CoreOf!Finish, CoreOf!Fail, CoreOf!FailJobs,
    CoreOf!core0_vars, CoreOf!core1_vars, CoreOf!Current, CoreOf!Request, CoreOf!Error,
    CoreOf!Sending, CoreOf!SaysReady, CoreOf!Take, CoreOf!MaySubmit, CoreOf!Submit,
    CoreOf!CannotTake, CoreOf!NoAnswer, CoreOf!ProbeCamera, CoreOf!OpenCamera,
    CoreOf!StartStream, CoreOf!MarkReady, CoreOf!StartupGoesOn, CoreOf!Result, CoreOf!Wanted,
    CoreOf!MayRead, CoreOf!Captured, CoreOf!Resume, CoreOf!NoResult, CoreOf!AfterTake,
    CoreOf!NoJob, CoreOf!Tried
<1>. QED
  BY <1>1, <1>2

LEMMA StartingCoreSame ==
  /\ StartingCore!Init <=> CoreOf({"on_ng"}, 1, 1, 1, 2, 2)!Init
  /\ StartingCore!Next <=> CoreOf({"on_ng"}, 1, 1, 1, 2, 2)!Next
<1>1. StartingCore!Init <=> CoreOf({"on_ng"}, 1, 1, 1, 2, 2)!Init
  BY DEF
    StartingCore!Init, StartingCore!NoJob, StartingCore!NoAnswer, StartingCore!Booting,
    StartingCore!NoResult, CoreOf!Init, CoreOf!NoJob, CoreOf!NoAnswer, CoreOf!Booting,
    CoreOf!NoResult
<1>2. StartingCore!Next <=> CoreOf({"on_ng"}, 1, 1, 1, 2, 2)!Next
  BY DEF
    StartingCore!Next, StartingCore!AskStatus, StartingCore!AskData, StartingCore!Core0,
    StartingCore!Core1, StartingCore!Ask, StartingCore!AnswerStatus, StartingCore!BeginData,
    StartingCore!LookAtJob, StartingCore!Wait, StartingCore!Pending, StartingCore!Send,
    StartingCore!Start, StartingCore!Advance, StartingCore!Announce, StartingCore!TakeJob,
    StartingCore!Read, StartingCore!Finish, StartingCore!Fail, StartingCore!FailJobs,
    StartingCore!core0_vars, StartingCore!core1_vars, StartingCore!Current, StartingCore!Request,
    StartingCore!Error, StartingCore!Sending, StartingCore!SaysReady, StartingCore!Take,
    StartingCore!MaySubmit, StartingCore!Submit, StartingCore!CannotTake, StartingCore!NoAnswer,
    StartingCore!ProbeCamera, StartingCore!OpenCamera, StartingCore!StartStream,
    StartingCore!MarkReady, StartingCore!StartupGoesOn, StartingCore!Result, StartingCore!Wanted,
    StartingCore!MayRead, StartingCore!Captured, StartingCore!Resume, StartingCore!NoResult,
    StartingCore!AfterTake, StartingCore!NoJob, StartingCore!Tried, CoreOf!Next,
    CoreOf!AskStatus, CoreOf!AskData, CoreOf!Core0, CoreOf!Core1, CoreOf!Ask,
    CoreOf!AnswerStatus, CoreOf!BeginData, CoreOf!LookAtJob, CoreOf!Wait, CoreOf!Pending,
    CoreOf!Send, CoreOf!Start, CoreOf!Advance, CoreOf!Announce, CoreOf!TakeJob, CoreOf!Read,
    CoreOf!Finish, CoreOf!Fail, CoreOf!FailJobs, CoreOf!core0_vars, CoreOf!core1_vars,
    CoreOf!Current, CoreOf!Request, CoreOf!Error, CoreOf!Sending, CoreOf!SaysReady, CoreOf!Take,
    CoreOf!MaySubmit, CoreOf!Submit, CoreOf!CannotTake, CoreOf!NoAnswer, CoreOf!ProbeCamera,
    CoreOf!OpenCamera, CoreOf!StartStream, CoreOf!MarkReady, CoreOf!StartupGoesOn, CoreOf!Result,
    CoreOf!Wanted, CoreOf!MayRead, CoreOf!Captured, CoreOf!Resume, CoreOf!NoResult,
    CoreOf!AfterTake, CoreOf!NoJob, CoreOf!Tried
<1>. QED
  BY <1>1, <1>2

RunsCore == running \in {"core", "starting"} => CoreInv

LEMMA CoreInstances == {"on_ng"} \in SUBSET JpegModes /\ {0, 1, 2, 3} \subseteq Nat
BY DEF JpegModes

LEMMA RunsCoreInit == Init => RunsCore
<1>1. Core!Init => CoreInv
  BY CoreSame, CoreInit
<1>. QED
  BY <1>1 DEF Init, RunsCore

LEMMA RunsCoreStep ==
  ASSUME RunsCore, [Next]_vars
  PROVE  RunsCore'
<1>1. UNCHANGED running
  BY DEF Next, vars
<1>2. ASSUME running = "core" PROVE CoreInv'
  <2>1. [Core!Next]_coreVars
    BY <1>2 DEF Next, ServerNext, SerialNext, UartNext, CoreNext, TestNext, BusNext, vars, coreVars
  <2>2. [CoreOf({"on_ng"}, 0, 2, 2, 3, 0)!Next]_coreVars
    BY <2>1, CoreSame
  <2>. QED
    BY <1>2, <2>2, CoreKeeps, CoreInstances DEF RunsCore
<1>3. ASSUME running = "starting" PROVE CoreInv'
  <2>1. [StartingCore!Next]_coreVars
    BY <1>3 DEF Next, ServerNext, SerialNext, UartNext, CoreNext, TestNext, BusNext, vars, coreVars
  <2>2. [CoreOf({"on_ng"}, 1, 1, 1, 2, 2)!Next]_coreVars
    BY <2>1, StartingCoreSame
  <2>. QED
    BY <1>3, <2>2, CoreKeeps, CoreInstances DEF RunsCore
<1>. QED
  BY <1>1, <1>2, <1>3 DEF RunsCore

\* The same of the service as the run composes it, with a camera that is up and with one whose
\* startup fails.
THEOREM PicturesAreSentWhole == Spec => []PictureOfCapture
<1>1. RunsCore => PictureOfCapture
  BY CorePictures DEF CorePromise, RunsCore, PictureOfCapture, Core!PictureIsResults, Core!GivenOnce,
    Core!PollsSameJob, Core!HostMayAsk, Core!Framed, StartingCore!PictureIsResults,
    StartingCore!GivenOnce, StartingCore!PollsSameJob, StartingCore!HostMayAsk,
    StartingCore!Framed, CoreInv, PictureInv, GivenInv, PollInv, AskInv, OfCapture, OnlyStatuses
<1>. QED
  BY <1>1, RunsCoreInit, RunsCoreStep, PTL DEF Spec

-----------------------------------------------------------------------------
(* The production test                                                      *)

TestOf(by_both, k, most_tests, most_hosts, most_pings, most_presses, most_changes) ==
  INSTANCE ProductionTest WITH
    BootTrigger <- by_both, StablePolls <- k, MaxTests <- most_tests, MaxHosts <- most_hosts,
    MaxPings <- most_pings, MaxPresses <- most_presses, MaxChanges <- most_changes

Lines    == [line : {"READY", "PONG", "PASS", "FAIL"}, n : Nat]
Orders   == {"PING", "LED_OFF", "RUN"}
InTest   == pc \in {"open", "stream", "frame", "reboot"}
IsResult(l) == l \in {"PASS", "FAIL"}
IsMarker(l) == l \in {"READY", "PONG"}

TestTyped(k) ==
  /\ finger \in [pressed : BOOLEAN, bounce : 0 .. k - 1]
  /\ button \in [raw : BOOLEAN, stable : 0 .. k, last : BOOLEAN, debounced : BOOLEAN]
  /\ module \in [present : BOOLEAN, sample : BOOLEAN, stable : Nat]
  /\ led \in {"Idle", "Pass", "Fail"} /\ test \in [n : Nat, result : {"none", "PASS", "FAIL"}]
  /\ to_board \in Seq(Orders) /\ to_host \in Seq(Lines)
  /\ host \in [at : {"closed", "wait", "test"}, since : Nat] /\ verdict \in [n : Nat, since : Int]
  /\ presses \in Nat /\ by_button \in Nat

\* Which steps of the board belong to which mode, and when a test has been asked for.
ModeInv(by_both) ==
  /\ by_both => pc # "reboot"
  /\ ~by_both => pc \notin {"probe", "start"} /\ led = "Idle"
  /\ pc \notin {"probe", "start"} => start = "none"
  /\ button.last = button.debounced

LedInv(by_both) ==
  /\ led # "Idle" => ~InTest /\ (led = "Pass" <=> test.result = "PASS") /\ module.present
  /\ by_both /\ InTest => module.present

\* Presses that have been used, with the one that a test is about to be started for.
Spent == IF start = "button" THEN by_button + 1 ELSE by_button

\* When all presses are used up and the button is seen as it is, it is not seen otherwise for as
\* long as it takes to be believed before it has stopped bouncing.
FingerInv(k) ==
  /\ Spent <= presses
  /\ finger.pressed /\ ~button.debounced => Spent < presses
  /\ finger.pressed = button.debounced /\ Spent = presses /\ button.raw # finger.pressed =>
       button.stable + finger.bounce < k

\* A result of a test that is no later than the program can only come while the program waits,
\* and before anything that ends the wait.
FreshInv ==
  /\ verdict.n > verdict.since
  /\ host.at # "closed" => host.since <= test.n
  /\ host.at # "closed" /\ InTest /\ test.n = host.since =>
       host.at = "wait" /\ \A i \in DOMAIN to_host : ~IsMarker(to_host[i].line)
  /\ host.at # "closed" =>
       \A i \in DOMAIN to_host :
         IsResult(to_host[i].line) /\ to_host[i].n <= host.since =>
           host.at = "wait" /\ \A j \in 1 .. i - 1 : ~IsMarker(to_host[j].line)

HasResult == \E i \in DOMAIN to_host : IsResult(to_host[i].line)
HasRun == \E i \in DOMAIN to_board : to_board[i] = "RUN"

\* A reboot loses a RUN only when there is a result for who has sent it.
AnswerInv(most_tests) ==
  /\ host.at = "test" /\ test.n < most_tests => HasRun \/ InTest \/ HasResult
  /\ pc = "reboot" /\ host.at = "test" => HasResult
  /\ pc = "reboot" /\ host.at = "wait" =>
       \A j \in DOMAIN to_host :
         IsMarker(to_host[j].line) => \E i \in DOMAIN to_host : j < i /\ IsResult(to_host[i].line)

TestInv(by_both, k, most_tests) ==
  /\ TestTyped(k) /\ ModeInv(by_both) /\ LedInv(by_both) /\ FingerInv(k) /\ FreshInv
  /\ ~by_both => AnswerInv(most_tests)

LEMMA Rest ==
  ASSUME NEW T, NEW s \in Seq(T), s # <<>>
  PROVE  /\ Tail(s) \in Seq(T) /\ Len(s) \in Nat \ {0} /\ Len(Tail(s)) = Len(s) - 1
         /\ DOMAIN s = 1 .. Len(s) /\ DOMAIN Tail(s) = 1 .. Len(s) - 1
         /\ \A i \in 1 .. Len(s) - 1 : Tail(s)[i] = s[i + 1]
         /\ Head(s) = s[1] /\ Head(s) \in T
OBVIOUS

\* The program hears at most one line more, which ends its wait.
HearsMarker ==
  \/ UNCHANGED to_host
  \/ \E l \in Lines : IsMarker(l.line) /\ to_host' = Append(to_host, l)

TakesOrder ==
  \/ UNCHANGED to_board
  \/ to_board # <<>> /\ to_board' = Tail(to_board)

LEMMA TestInit ==
  ASSUME NEW b \in BOOLEAN, NEW k \in Nat \ {0}, NEW t, NEW mh, NEW mp, NEW mr, NEW mc,
         TestOf(b, k, t, mh, mp, mr, mc)!Init
  PROVE  TestInv(b, k, t)
<1>1. TestTyped(k)
  BY DEF TestOf!Init, TestOf!NoTest, TestTyped
<1>. QED
  BY <1>1 DEF TestOf!Init, TestOf!NoTest, TestInv, ModeInv, LedInv, FingerInv, FreshInv, AnswerInv, Spent,
    InTest, IsResult, IsMarker

LEMMA PressStep ==
  ASSUME NEW b \in BOOLEAN, NEW k \in Nat \ {0}, NEW t, NEW mh, NEW mp, NEW mr, NEW mc, TestTyped(k),
         TestOf(b, k, t, mh, mp, mr, mc)!MoveFinger
  PROVE  /\ finger' = [pressed |-> ~finger.pressed, bounce |-> k - 1]
         /\ presses' = IF finger.pressed THEN presses ELSE presses + 1
         /\ UNCHANGED <<pc, start, button, module, led, test, by_button, to_board, to_host, host, verdict>>
BY DEF TestOf!MoveFinger, TestOf!board, TestOf!program

LEMMA CameraStep ==
  ASSUME NEW b \in BOOLEAN, NEW k \in Nat \ {0}, NEW t, NEW mh, NEW mp, NEW mr, NEW mc, TestTyped(k),
         TestOf(b, k, t, mh, mp, mr, mc)!ChangeCamera \/ TestOf(b, k, t, mh, mp, mr, mc)!Boot
  PROVE  UNCHANGED <<finger, presses, pc, start, button, module, led, test, by_button, to_board, to_host,
                     host, verdict>>
BY DEF TestOf!ChangeCamera, TestOf!Boot, TestOf!board, TestOf!program

LEMMA PollStep ==
  ASSUME NEW b \in BOOLEAN, NEW k \in Nat \ {0}, NEW t, NEW mh, NEW mp, NEW mr, NEW mc, TestTyped(k),
         TestOf(b, k, t, mh, mp, mr, mc)!Poll
  PROVE  /\ b /\ pc = "poll" /\ pc' = "probe" /\ led' \in {led, "Idle"} /\ TakesOrder /\ HearsMarker
         /\ \E raw \in BOOLEAN :
              /\ finger.bounce = 0 => raw = finger.pressed
              /\ button'.raw = raw /\ button'.last = button'.debounced
              /\ button'.stable = IF button.raw # raw THEN 1
                                  ELSE IF button.stable < k THEN button.stable + 1 ELSE button.stable
              /\ button'.debounced = IF button'.stable >= k THEN raw ELSE button.debounced
              /\ button' \in [raw : BOOLEAN, stable : 0 .. k, last : BOOLEAN, debounced : BOOLEAN]
         /\ start' \in {"none", "button", "host"}
         /\ start' = "button" <=> button'.debounced /\ ~button.last
         /\ finger'.pressed = finger.pressed
         /\ finger'.bounce = IF finger.bounce > 0 THEN finger.bounce - 1 ELSE 0
         /\ finger' \in [pressed : BOOLEAN, bounce : 0 .. k - 1]
         /\ UNCHANGED <<host, verdict, presses, module, test, by_button>>
<1>1. /\ b /\ pc = "poll" /\ pc' = "probe" /\ UNCHANGED <<host, verdict, presses, module, test, by_button>>
  BY DEF TestOf!Poll, TestOf!program
<1>2. finger' = [finger EXCEPT !.bounce = IF finger.bounce > 0 THEN finger.bounce - 1 ELSE 0]
  BY DEF TestOf!Poll
<1>. DEFINE left == IF finger.bounce > 0 THEN finger.bounce - 1 ELSE 0
<1>a. finger.pressed \in BOOLEAN /\ finger.bounce \in 0 .. k - 1
  BY DEF TestTyped
<1>b. left \in 0 .. k - 1
  BY <1>a
<1>c. finger' = [finger EXCEPT !.bounce = left] /\ finger \in [pressed : BOOLEAN, bounce : 0 .. k - 1]
  BY <1>2 DEF TestTyped
<1>. HIDE DEF left
<1>d. finger'.pressed = finger.pressed /\ finger'.bounce = left /\ finger' \in [pressed : BOOLEAN, bounce : 0 .. k - 1]
  BY <1>b, <1>c
<1>3. /\ finger'.pressed = finger.pressed
      /\ finger'.bounce = IF finger.bounce > 0 THEN finger.bounce - 1 ELSE 0
      /\ finger' \in [pressed : BOOLEAN, bounce : 0 .. k - 1]
  BY <1>d DEF left
<1>4. TakesOrder /\ led' \in {led, "Idle"}
  BY DEF TestOf!Poll, TestOf!Command, TakesOrder
<1>5. HearsMarker
  <2>1. [line |-> "PONG", n |-> test.n] \in Lines /\ IsMarker([line |-> "PONG", n |-> test.n].line)
    BY DEF TestTyped, Lines, IsMarker
  <2>. QED
    BY <2>1 DEF TestOf!Poll, TestOf!Command, TestOf!Say, TestOf!Quiet, HearsMarker
<1>6. PICK raw \in IF finger.bounce > 0 THEN BOOLEAN ELSE {finger.pressed} :
        /\ button' = [TestOf(b, k, t, mh, mp, mr, mc)!Button(raw) EXCEPT
                        !.last = TestOf(b, k, t, mh, mp, mr, mc)!Button(raw).debounced]
        /\ start' = IF TestOf(b, k, t, mh, mp, mr, mc)!Edge(TestOf(b, k, t, mh, mp, mr, mc)!Button(raw))
                     THEN "button"
                     ELSE IF to_board # <<>> /\ Head(to_board) = "RUN" THEN "host" ELSE "none"
  BY DEF TestOf!Poll
<1>7. raw \in BOOLEAN /\ (finger.bounce = 0 => raw = finger.pressed)
  BY <1>6 DEF TestTyped
<1>. DEFINE stable == IF button.raw # raw THEN 1 ELSE IF button.stable < k THEN button.stable + 1 ELSE button.stable
            seen == IF stable >= k THEN raw ELSE button.debounced
<1>8. button.raw \in BOOLEAN /\ button.debounced \in BOOLEAN /\ button.stable \in 0 .. k
  BY DEF TestTyped
<1>9. stable \in 0 .. k /\ seen \in BOOLEAN
  BY <1>7, <1>8
<1>10. TestOf(b, k, t, mh, mp, mr, mc)!Button(raw) =
         [raw |-> raw, stable |-> stable, last |-> button.last, debounced |-> seen]
  BY DEF TestOf!Button, TestOf!Count
<1>. HIDE DEF stable, seen
<1>11. button' = [raw |-> raw, stable |-> stable, last |-> seen, debounced |-> seen]
  BY <1>6, <1>10
<1>12. start' \in {"none", "button", "host"} /\ (start' = "button" <=> seen /\ ~button.last)
  BY <1>6, <1>10 DEF TestOf!Edge
<1>13. /\ button'.raw = raw /\ button'.last = button'.debounced /\ button'.stable = stable
       /\ button'.debounced = seen
       /\ button' \in [raw : BOOLEAN, stable : 0 .. k, last : BOOLEAN, debounced : BOOLEAN]
  BY <1>7, <1>9, <1>11
<1>14. /\ button'.stable = IF button.raw # raw THEN 1
                           ELSE IF button.stable < k THEN button.stable + 1 ELSE button.stable
       /\ button'.debounced = IF button'.stable >= k THEN raw ELSE button.debounced
  BY <1>13 DEF stable, seen
<1>. QED
  BY <1>1, <1>3, <1>4, <1>5, <1>7, <1>12, <1>13, <1>14

LEMMA ProbeStep ==
  ASSUME NEW b \in BOOLEAN, NEW k \in Nat \ {0}, NEW t, NEW mh, NEW mp, NEW mr, NEW mc, TestTyped(k),
         TestOf(b, k, t, mh, mp, mr, mc)!Probe \/ TestOf(b, k, t, mh, mp, mr, mc)!NoProbe
  PROVE  /\ pc = "probe" /\ pc' = (IF start = "none" THEN "poll" ELSE "start")
         /\ HearsMarker
         /\ module' \in [present : BOOLEAN, sample : BOOLEAN, stable : Nat]
         /\ led' = "Idle" \/ (led' = led /\ (module.present => module'.present))
         /\ UNCHANGED <<host, verdict, finger, presses, to_board, start, button, test, by_button>>
<1>1. CASE TestOf(b, k, t, mh, mp, mr, mc)!NoProbe
  BY <1>1 DEF TestTyped, TestOf!NoProbe, TestOf!AfterProbe, TestOf!program, TestOf!outside, HearsMarker
<1>2. CASE TestOf(b, k, t, mh, mp, mr, mc)!Probe
  <2>. DEFINE ready == TestOf(b, k, t, mh, mp, mr, mc)!Ready
              stable == TestOf(b, k, t, mh, mp, mr, mc)!Count(module.sample, ready, module.stable)
              news == stable >= k /\ module.present # ready
  <2>1. ready \in BOOLEAN /\ stable \in Nat /\ news \in BOOLEAN
    <3>1. ready \in BOOLEAN /\ module.stable \in Nat
      BY DEF TestTyped, TestOf!Ready
    <3>. QED
      BY <3>1 DEF TestOf!Count
  <2>2. /\ module' = [present |-> IF news THEN ready ELSE module.present, sample |-> ready, stable |-> stable]
        /\ IF news /\ ~ready THEN led' = "Idle" /\ TestOf(b, k, t, mh, mp, mr, mc)!Say("READY")
           ELSE UNCHANGED <<led, to_host>>
    BY <1>2 DEF TestOf!Probe
  <2>. HIDE DEF ready, stable, news
  <2>3. module.present \in BOOLEAN
    BY DEF TestTyped
  <2>a. module' \in [present : BOOLEAN, sample : BOOLEAN, stable : Nat]
    BY <2>1, <2>2, <2>3
  <2>b. module'.present = IF news THEN ready ELSE module.present
    BY <2>2
  <2>c. led' = "Idle" \/ (led' = led /\ (news => ready))
    BY <2>1, <2>2
  <2>4. /\ module' \in [present : BOOLEAN, sample : BOOLEAN, stable : Nat]
        /\ led' = "Idle" \/ (led' = led /\ (module.present => module'.present))
    BY <2>a, <2>b, <2>c
  <2>5. [line |-> "READY", n |-> test.n] \in Lines /\ IsMarker([line |-> "READY", n |-> test.n].line)
    BY DEF TestTyped, Lines, IsMarker
  <2>6. HearsMarker
    BY <2>2, <2>5 DEF TestOf!Say, HearsMarker
  <2>. QED
    BY <1>2, <2>4, <2>6 DEF TestOf!Probe, TestOf!AfterProbe, TestOf!program, TestOf!outside
<1>. QED
  BY <1>1, <1>2

LEMMA StartStep ==
  ASSUME NEW b \in BOOLEAN, NEW k \in Nat \ {0}, NEW t, NEW mh, NEW mp, NEW mr, NEW mc, TestTyped(k),
         TestOf(b, k, t, mh, mp, mr, mc)!Start
  PROVE  /\ pc = "start" /\ start' = "none" /\ led' = "Idle" /\ HearsMarker
         /\ \/ /\ pc' = "open" /\ module'.present
               /\ module' \in [present : BOOLEAN, sample : BOOLEAN, stable : Nat]
               /\ test' = [n |-> test.n + 1, result |-> "none"]
               /\ by_button' = IF start = "button" THEN by_button + 1 ELSE by_button
            \/ pc' = "poll" /\ UNCHANGED <<module, test, by_button>>
         /\ UNCHANGED <<host, verdict, finger, presses, to_board, button>>
<1>1. [line |-> "READY", n |-> test.n] \in Lines /\ IsMarker([line |-> "READY", n |-> test.n].line)
  BY DEF TestTyped, Lines, IsMarker
<1>2. HearsMarker
  BY <1>1 DEF TestOf!Start, TestOf!Quiet, TestOf!Say, HearsMarker
<1>3. TestOf(b, k, t, mh, mp, mr, mc)!Seen.present /\ TestOf(b, k, t, mh, mp, mr, mc)!Seen \in [present : BOOLEAN, sample : BOOLEAN, stable : Nat]
  BY DEF TestOf!Seen
<1>. QED
  BY <1>2, <1>3 DEF TestOf!Start, TestOf!LedOff, TestOf!NoTest, TestOf!program, TestOf!outside

LEMMA ReadCommandStep ==
  ASSUME NEW b \in BOOLEAN, NEW k \in Nat \ {0}, NEW t, NEW mh, NEW mp, NEW mr, NEW mc, TestTyped(k),
         TestOf(b, k, t, mh, mp, mr, mc)!ReadCommand
  PROVE  /\ ~b /\ pc = "poll" /\ to_board # <<>> /\ to_board' = Tail(to_board) /\ HearsMarker
         /\ \/ Head(to_board) = "RUN" /\ pc' = "open" /\ test' = [n |-> test.n + 1, result |-> "none"]
            \/ /\ Head(to_board) # "RUN" /\ UNCHANGED <<test, pc>>
         /\ UNCHANGED <<host, verdict, finger, presses, start, button, module, led, by_button>>
<1>1. [line |-> "PONG", n |-> test.n] \in Lines /\ IsMarker([line |-> "PONG", n |-> test.n].line)
  BY DEF TestTyped, Lines, IsMarker
<1>2. HearsMarker
  BY <1>1 DEF TestOf!ReadCommand, TestOf!Quiet, TestOf!Say, HearsMarker
<1>. QED
  BY <1>2 DEF TestOf!ReadCommand, TestOf!NoTest, TestOf!program, TestOf!outside

LEMMA RunStep ==
  ASSUME NEW b \in BOOLEAN, NEW k \in Nat \ {0}, NEW t, NEW mh, NEW mp, NEW mr, NEW mc, TestTyped(k),
         TestOf(b, k, t, mh, mp, mr, mc)!OpenOk \/ TestOf(b, k, t, mh, mp, mr, mc)!StreamOn
  PROVE  /\ InTest /\ pc' \in {"stream", "frame"}
         /\ UNCHANGED <<host, verdict, finger, presses, to_board, to_host, start, button, module, led, test,
                        by_button>>
BY DEF TestOf!OpenOk, TestOf!StreamOn, TestOf!program, TestOf!outside, InTest

LEMMA EndStep ==
  ASSUME NEW b \in BOOLEAN, NEW k \in Nat \ {0}, NEW t, NEW mh, NEW mp, NEW mr, NEW mc, TestTyped(k),
         TestOf(b, k, t, mh, mp, mr, mc)!OpenFails \/ TestOf(b, k, t, mh, mp, mr, mc)!ReadFrame
  PROVE  /\ pc \in {"open", "frame"}
         /\ \E outcome \in {"PASS", "FAIL"} :
              /\ test' = [test EXCEPT !.result = outcome]
              /\ b => pc' = "poll" /\ led' = (IF outcome = "PASS" THEN "Pass" ELSE "Fail")
              /\ ~b => pc' = "reboot" /\ UNCHANGED led
              /\ host.at = "closed" => UNCHANGED to_host
              /\ host.at # "closed" /\ ~b => to_host' = Append(to_host, [line |-> outcome, n |-> test.n])
              /\ host.at # "closed" /\ b =>
                   to_host' = Append(Append(to_host, [line |-> outcome, n |-> test.n]),
                                     [line |-> "READY", n |-> test.n])
         /\ UNCHANGED <<host, verdict, finger, presses, to_board, start, button, module, by_button>>
<1>1. ASSUME NEW outcome \in {"PASS", "FAIL"}
      PROVE  to_host \o <<[line |-> outcome, n |-> test.n], [line |-> "READY", n |-> test.n]>> =
               Append(Append(to_host, [line |-> outcome, n |-> test.n]), [line |-> "READY", n |-> test.n])
  BY DEF TestTyped, Lines
<1>2. \E outcome \in {"PASS", "FAIL"} : TestOf(b, k, t, mh, mp, mr, mc)!Result(outcome)
  BY DEF TestOf!OpenFails, TestOf!ReadFrame
<1>3. PICK outcome \in {"PASS", "FAIL"} : TestOf(b, k, t, mh, mp, mr, mc)!Result(outcome)
  BY <1>2
<1>4. /\ test' = [test EXCEPT !.result = outcome]
      /\ b => pc' = "poll" /\ led' = (IF outcome = "PASS" THEN "Pass" ELSE "Fail")
      /\ ~b => pc' = "reboot" /\ UNCHANGED led
  BY <1>3 DEF TestOf!Result
<1>5. /\ host.at = "closed" => UNCHANGED to_host
      /\ host.at # "closed" /\ ~b => to_host' = Append(to_host, [line |-> outcome, n |-> test.n])
      /\ host.at # "closed" /\ b =>
           to_host' = Append(Append(to_host, [line |-> outcome, n |-> test.n]),
                             [line |-> "READY", n |-> test.n])
  BY <1>1, <1>3 DEF TestOf!Result, TestOf!Finish, TestOf!Say
<1>6. /\ pc \in {"open", "frame"}
      /\ UNCHANGED <<host, verdict, finger, presses, to_board, start, button, module, by_button>>
  BY DEF TestOf!OpenFails, TestOf!ReadFrame, TestOf!program, TestOf!outside
<1>. QED
  BY <1>4, <1>5, <1>6

LEMMA RebootStep ==
  ASSUME NEW b \in BOOLEAN, NEW k \in Nat \ {0}, NEW t, NEW mh, NEW mp, NEW mr, NEW mc, TestTyped(k),
         TestOf(b, k, t, mh, mp, mr, mc)!Reboot
  PROVE  /\ pc = "reboot" /\ pc' = "poll" /\ to_board' = <<>> /\ test' = [test EXCEPT !.result = "none"]
         /\ \/ UNCHANGED host /\ HearsMarker
            \/ host' = [host EXCEPT !.at = "closed"] /\ to_host' = <<>>
         /\ UNCHANGED <<verdict, finger, presses, start, button, module, led, by_button>>
<1>1. [line |-> "READY", n |-> test.n] \in Lines /\ IsMarker([line |-> "READY", n |-> test.n].line)
  BY DEF TestTyped, Lines, IsMarker
<1>. QED
  BY <1>1 DEF TestOf!Reboot, TestOf!Say, TestOf!outside, HearsMarker

LEMMA OpenPortStep ==
  ASSUME NEW b \in BOOLEAN, NEW k \in Nat \ {0}, NEW t, NEW mh, NEW mp, NEW mr, NEW mc, TestTyped(k),
         TestOf(b, k, t, mh, mp, mr, mc)!OpenPort
  PROVE  /\ host' = [at |-> "wait", since |-> test.n] /\ to_host' = <<>>
         /\ UNCHANGED <<pc, start, button, module, led, test, by_button, finger, presses, to_board, verdict>>
BY DEF TestOf!OpenPort, TestOf!OpenEmpty, TestOf!board, TestOf!outside

LEMMA OrderStep ==
  ASSUME NEW b \in BOOLEAN, NEW k \in Nat \ {0}, NEW t, NEW mh, NEW mp, NEW mr, NEW mc, TestTyped(k),
         TestOf(b, k, t, mh, mp, mr, mc)!Ask
  PROVE  /\ \E c \in Orders : to_board' = Append(to_board, c)
         /\ UNCHANGED <<pc, start, button, module, led, test, by_button, finger, presses, to_host, host, verdict>>
BY DEF TestOf!Ask, TestOf!board, TestOf!outside, Orders

LEMMA WaitLineStep ==
  ASSUME NEW b \in BOOLEAN, NEW k \in Nat \ {0}, NEW t, NEW mh, NEW mp, NEW mr, NEW mc, TestTyped(k),
         TestOf(b, k, t, mh, mp, mr, mc)!WaitLine
  PROVE  /\ host.at = "wait" /\ to_host # <<>> /\ to_host' = Tail(to_host)
         /\ \/ /\ IsMarker(Head(to_host).line)
               /\ host' = [host EXCEPT !.at = "test"] /\ to_board' = Append(to_board, "RUN")
            \/ ~IsMarker(Head(to_host).line) /\ UNCHANGED <<host, to_board>>
         /\ UNCHANGED <<pc, start, button, module, led, test, by_button, finger, presses, verdict>>
BY DEF TestOf!WaitLine, TestOf!Line, TestOf!Marker, TestOf!board, TestOf!outside, IsMarker

LEMMA TestLineStep ==
  ASSUME NEW b \in BOOLEAN, NEW k \in Nat \ {0}, NEW t, NEW mh, NEW mp, NEW mr, NEW mc, TestTyped(k),
         TestOf(b, k, t, mh, mp, mr, mc)!TestLine
  PROVE  /\ host.at = "test" /\ to_host # <<>> /\ to_host' = Tail(to_host)
         /\ \/ /\ IsResult(Head(to_host).line) /\ host' = [host EXCEPT !.at = "closed"]
               /\ verdict' = [n |-> Head(to_host).n, since |-> host.since]
            \/ ~IsResult(Head(to_host).line) /\ UNCHANGED <<host, verdict>>
         /\ UNCHANGED <<pc, start, button, module, led, test, by_button, finger, presses, to_board>>
BY DEF TestOf!TestLine, TestOf!Line, TestOf!board, TestOf!outside, IsResult

LEMMA GiveUpStep ==
  ASSUME NEW b \in BOOLEAN, NEW k \in Nat \ {0}, NEW t, NEW mh, NEW mp, NEW mr, NEW mc, TestTyped(k),
         TestOf(b, k, t, mh, mp, mr, mc)!GiveUp
  PROVE  /\ host' = [host EXCEPT !.at = "closed"]
         /\ UNCHANGED <<pc, start, button, module, led, test, by_button, finger, presses, to_board, to_host, verdict>>
BY DEF TestOf!GiveUp, TestOf!board, TestOf!outside

LEMMA Heard ==
  ASSUME NEW k \in Nat \ {0}, TestTyped(k), HearsMarker
  PROVE  /\ to_host' \in Seq(Lines) /\ Len(to_host) \in Nat /\ DOMAIN to_host = 1 .. Len(to_host)
         /\ DOMAIN to_host' \in {1 .. Len(to_host), 1 .. Len(to_host) + 1}
         /\ \A i \in 1 .. Len(to_host) : to_host'[i] = to_host[i]
         /\ Len(to_host) + 1 \in DOMAIN to_host' => IsMarker(to_host'[Len(to_host) + 1].line)
<1>1. to_host \in Seq(Lines)
  BY DEF TestTyped
<1>. QED
  BY <1>1, Appended DEF HearsMarker

LEMMA Ordered ==
  ASSUME NEW k \in Nat \ {0}, TestTyped(k), TakesOrder
  PROVE  to_board' \in Seq(Orders)
<1>1. to_board \in Seq(Orders)
  BY DEF TestTyped
<1>. QED
  BY <1>1, Rest DEF TakesOrder

\* What the board does between tests, and the beginning of a test, leave no old result to come.
LEMMA FreshBetween ==
  ASSUME NEW k \in Nat \ {0}, TestTyped(k), FreshInv, HearsMarker, test'.n \in Nat,
         test.n <= test'.n, InTest' => test.n < test'.n, UNCHANGED <<host, verdict>>
  PROVE  FreshInv'
<1>1. test.n \in Nat /\ host.since \in Nat
  BY DEF TestTyped
<1>2. host.at # "closed" => host.since <= test'.n /\ ~(InTest' /\ test'.n = host.since)
  BY <1>1 DEF FreshInv
<1>3. ASSUME host.at # "closed", NEW i \in DOMAIN to_host', IsResult(to_host'[i].line),
             to_host'[i].n <= host.since
      PROVE  host.at = "wait" /\ \A j \in 1 .. i - 1 : ~IsMarker(to_host'[j].line)
  <2>1. i \in 1 .. Len(to_host)
    BY <1>3, Heard DEF IsResult, IsMarker
  <2>2. to_host'[i] = to_host[i] /\ i \in DOMAIN to_host
    BY <2>1, Heard
  <2>3. host.at = "wait" /\ \A j \in 1 .. i - 1 : ~IsMarker(to_host[j].line)
    BY <1>3, <2>2 DEF FreshInv
  <2>4. \A j \in 1 .. i - 1 : j \in 1 .. Len(to_host)
    BY <2>1, Heard
  <2>. QED
    BY <2>3, <2>4, Heard
<1>4. (verdict.n > verdict.since)'
  BY DEF FreshInv
<1>. QED
  BY <1>2, <1>3, <1>4 DEF FreshInv

\* What the program has to hear stays where it is.
LEMMA AnswerBetween ==
  ASSUME NEW k \in Nat \ {0}, NEW t, TestTyped(k), HearsMarker, HasResult
  PROVE  HasResult'
<1>1. PICK i \in 1 .. Len(to_host) : IsResult(to_host[i].line)
  BY Heard DEF HasResult
<1>2. to_host'[i] = to_host[i] /\ i \in DOMAIN to_host'
  BY <1>1, Heard
<1>. QED
  BY <1>1, <1>2 DEF HasResult

LEMMA PressKeeps ==
  ASSUME NEW b \in BOOLEAN, NEW k \in Nat \ {0}, NEW t, NEW mh, NEW mp, NEW mr, NEW mc, TestInv(b, k, t),
         TestOf(b, k, t, mh, mp, mr, mc)!MoveFinger
  PROVE  TestInv(b, k, t)'
<1>a. TestTyped(k) /\ ModeInv(b) /\ LedInv(b) /\ FingerInv(k) /\ FreshInv /\ (~b => AnswerInv(t))
  BY DEF TestInv
<1>b. /\ finger' = [pressed |-> ~finger.pressed, bounce |-> k - 1]
      /\ presses' = IF finger.pressed THEN presses ELSE presses + 1
      /\ UNCHANGED <<pc, start, button, module, led, test, by_button, to_board, to_host, host, verdict>>
  BY <1>a, PressStep
<1>1. TestTyped(k)'
  BY <1>a, <1>b DEF TestTyped
<1>2. ModeInv(b)'
  BY <1>a, <1>b DEF ModeInv
<1>3. LedInv(b)'
  BY <1>a, <1>b DEF LedInv, InTest
<1>4. FingerInv(k)'
  <2>1. /\ finger.pressed \in BOOLEAN /\ button.raw \in BOOLEAN /\ button.debounced \in BOOLEAN
        /\ finger.bounce \in 0 .. k - 1 /\ button.stable \in 0 .. k /\ presses \in Nat /\ by_button \in Nat
    BY <1>a DEF TestTyped
  <2>2. /\ finger'.pressed = ~finger.pressed /\ finger'.bounce = k - 1
        /\ Spent' = Spent /\ Spent \in Nat
    BY <1>b, <2>1 DEF Spent
  <2>3. CASE finger.pressed
    BY <1>a, <1>b, <2>1, <2>2, <2>3 DEF FingerInv
  <2>4. CASE ~finger.pressed
    BY <1>a, <1>b, <2>1, <2>2, <2>4 DEF FingerInv
  <2>. QED
    BY <2>1, <2>3, <2>4
<1>5. FreshInv'
  BY <1>a, <1>b DEF FreshInv, InTest
<1>6. ASSUME ~b PROVE AnswerInv(t)'
  BY <1>a, <1>b, <1>6 DEF AnswerInv, HasRun, HasResult, InTest
<1>. QED
  BY <1>1, <1>2, <1>3, <1>4, <1>5, <1>6 DEF TestInv

LEMMA CameraKeeps ==
  ASSUME NEW b \in BOOLEAN, NEW k \in Nat \ {0}, NEW t, NEW mh, NEW mp, NEW mr, NEW mc, TestInv(b, k, t),
         TestOf(b, k, t, mh, mp, mr, mc)!ChangeCamera \/ TestOf(b, k, t, mh, mp, mr, mc)!Boot
  PROVE  TestInv(b, k, t)'
<1>a. TestTyped(k) /\ ModeInv(b) /\ LedInv(b) /\ FingerInv(k) /\ FreshInv /\ (~b => AnswerInv(t))
  BY DEF TestInv
<1>b. UNCHANGED <<finger, presses, pc, start, button, module, led, test, by_button, to_board, to_host,
                  host, verdict>>
  BY <1>a, CameraStep
<1>1. TestTyped(k)'
  BY <1>a, <1>b DEF TestTyped
<1>2. ModeInv(b)'
  BY <1>a, <1>b DEF ModeInv
<1>3. LedInv(b)'
  BY <1>a, <1>b DEF LedInv, InTest
<1>4. FingerInv(k)'
  BY <1>a, <1>b DEF FingerInv, Spent
<1>5. FreshInv'
  BY <1>a, <1>b DEF FreshInv, InTest
<1>6. ASSUME ~b PROVE AnswerInv(t)'
  BY <1>a, <1>b, <1>6 DEF AnswerInv, HasRun, HasResult, InTest
<1>. QED
  BY <1>1, <1>2, <1>3, <1>4, <1>5, <1>6 DEF TestInv

LEMMA PollKeeps ==
  ASSUME NEW b \in BOOLEAN, NEW k \in Nat \ {0}, NEW t, NEW mh, NEW mp, NEW mr, NEW mc, TestInv(b, k, t),
         TestOf(b, k, t, mh, mp, mr, mc)!Poll
  PROVE  TestInv(b, k, t)'
<1>a. TestTyped(k) /\ ModeInv(b) /\ LedInv(b) /\ FingerInv(k) /\ FreshInv /\ (~b => AnswerInv(t))
  BY DEF TestInv
<1>b. /\ b /\ pc = "poll" /\ pc' = "probe" /\ led' \in {led, "Idle"} /\ TakesOrder /\ HearsMarker
      /\ \E raw \in BOOLEAN :
           /\ finger.bounce = 0 => raw = finger.pressed
           /\ button'.raw = raw /\ button'.last = button'.debounced
           /\ button'.stable = IF button.raw # raw THEN 1
                               ELSE IF button.stable < k THEN button.stable + 1 ELSE button.stable
           /\ button'.debounced = IF button'.stable >= k THEN raw ELSE button.debounced
           /\ button' \in [raw : BOOLEAN, stable : 0 .. k, last : BOOLEAN, debounced : BOOLEAN]
      /\ start' \in {"none", "button", "host"}
      /\ start' = "button" <=> button'.debounced /\ ~button.last
      /\ finger'.pressed = finger.pressed
      /\ finger'.bounce = IF finger.bounce > 0 THEN finger.bounce - 1 ELSE 0
      /\ finger' \in [pressed : BOOLEAN, bounce : 0 .. k - 1]
      /\ UNCHANGED <<host, verdict, presses, module, test, by_button>>
  BY <1>a, PollStep
<1>c. test.n \in Nat /\ to_host' \in Seq(Lines) /\ ~InTest
  BY <1>a, <1>b, Heard DEF TestTyped, InTest
<1>1. TestTyped(k)'
  BY <1>a, <1>b, <1>c, Ordered DEF TestTyped
<1>2. ModeInv(b)'
  BY <1>a, <1>b DEF ModeInv
<1>3. LedInv(b)'
  BY <1>a, <1>b DEF LedInv, InTest
<1>4. FingerInv(k)'
  <2>1. /\ finger.pressed \in BOOLEAN /\ button.raw \in BOOLEAN /\ button.debounced \in BOOLEAN
        /\ finger.bounce \in 0 .. k - 1 /\ button.stable \in 0 .. k /\ presses \in Nat /\ by_button \in Nat
    BY <1>a DEF TestTyped
  <2>2. PICK raw \in BOOLEAN :
          /\ finger.bounce = 0 => raw = finger.pressed
          /\ button'.raw = raw
          /\ button'.stable = IF button.raw # raw THEN 1
                              ELSE IF button.stable < k THEN button.stable + 1 ELSE button.stable
          /\ button'.debounced = IF button'.stable >= k THEN raw ELSE button.debounced
    BY <1>b
  <2>3. Spent = by_button
    BY <1>a, <1>b DEF ModeInv, Spent
  <2>4. Spent' = IF button'.debounced /\ ~button.debounced THEN Spent + 1 ELSE Spent
    BY <1>a, <1>b, <2>3 DEF ModeInv, Spent
  <2>5. /\ UNCHANGED presses /\ finger'.pressed = finger.pressed
        /\ finger'.bounce = IF finger.bounce > 0 THEN finger.bounce - 1 ELSE 0
        /\ button'.debounced \in BOOLEAN /\ Spent \in Nat /\ button'.stable \in 0 .. k
    BY <1>b, <2>1, <2>2, <2>3
  <2>6. \* what bounces is not believed
        finger.pressed = button.debounced /\ Spent = presses => button'.debounced = button.debounced
    BY <1>a, <2>1, <2>2, <2>5 DEF FingerInv
  <2>7. (Spent <= presses)'
    <3>1. CASE button'.debounced /\ ~button.debounced
      <4>1. (finger.pressed => Spent < presses) /\ Spent <= presses
        BY <1>a, <3>1 DEF FingerInv
      <4>2. ~finger.pressed => Spent # presses
        BY <2>1, <2>6, <3>1
      <4>3. Spent' = Spent + 1
        BY <2>4, <3>1
      <4>. QED
        BY <2>1, <2>5, <4>1, <4>2, <4>3
    <3>. QED
      BY <1>a, <2>4, <2>5, <3>1 DEF FingerInv
  <2>8. ASSUME finger.pressed, ~button'.debounced PROVE Spent' < presses
    <3>1. (~button.debounced => Spent < presses) /\ Spent <= presses
      BY <1>a, <2>8 DEF FingerInv
    <3>2. button.debounced => Spent # presses
      BY <2>1, <2>6, <2>8
    <3>3. Spent' = Spent
      BY <2>4, <2>8
    <3>. QED
      BY <2>1, <2>5, <3>1, <3>2, <3>3
  <2>9. ASSUME finger.pressed = button'.debounced, Spent' = presses, raw # finger.pressed
        PROVE  button'.stable + finger'.bounce < k
    <3>1. button'.debounced = button.debounced /\ finger.bounce \in 1 .. k - 1
      BY <2>1, <2>2, <2>5, <2>9
    <3>2. Spent = presses
      BY <2>4, <2>9, <3>1
    <3>3. CASE button.raw = raw
      BY <1>a, <2>1, <2>2, <2>5, <2>9, <3>1, <3>2, <3>3 DEF FingerInv
    <3>4. CASE button.raw # raw
      BY <2>1, <2>2, <2>5, <3>1, <3>4
    <3>. QED
      BY <3>3, <3>4
  <2>. QED
    BY <2>2, <2>5, <2>7, <2>8, <2>9 DEF FingerInv
<1>5. FreshInv'
  <2>1. test'.n \in Nat /\ test.n <= test'.n /\ (InTest' => test.n < test'.n)
    BY <1>b, <1>c DEF InTest
  <2>. QED
    BY <1>a, <1>b, <1>c, <2>1, FreshBetween
<1>6. ASSUME ~b PROVE AnswerInv(t)'
  BY <1>a, <1>b, <1>6 DEF ModeInv
<1>. QED
  BY <1>1, <1>2, <1>3, <1>4, <1>5, <1>6 DEF TestInv

LEMMA ProbeKeeps ==
  ASSUME NEW b \in BOOLEAN, NEW k \in Nat \ {0}, NEW t, NEW mh, NEW mp, NEW mr, NEW mc, TestInv(b, k, t),
         TestOf(b, k, t, mh, mp, mr, mc)!Probe \/ TestOf(b, k, t, mh, mp, mr, mc)!NoProbe
  PROVE  TestInv(b, k, t)'
<1>a. TestTyped(k) /\ ModeInv(b) /\ LedInv(b) /\ FingerInv(k) /\ FreshInv /\ (~b => AnswerInv(t))
  BY DEF TestInv
<1>b. /\ pc = "probe" /\ pc' = (IF start = "none" THEN "poll" ELSE "start")
      /\ HearsMarker
      /\ module' \in [present : BOOLEAN, sample : BOOLEAN, stable : Nat]
      /\ led' = "Idle" \/ (led' = led /\ (module.present => module'.present))
      /\ UNCHANGED <<host, verdict, finger, presses, to_board, start, button, test, by_button>>
  BY <1>a, ProbeStep
<1>c. test.n \in Nat /\ to_host' \in Seq(Lines) /\ ~InTest
  BY <1>a, <1>b, Heard DEF TestTyped, InTest
<1>1. TestTyped(k)'
  BY <1>a, <1>b, <1>c DEF TestTyped
<1>2. ModeInv(b)'
  BY <1>a, <1>b DEF ModeInv
<1>3. LedInv(b)'
  BY <1>a, <1>b DEF LedInv, InTest
<1>4. FingerInv(k)'
  BY <1>a, <1>b DEF FingerInv, Spent
<1>5. FreshInv'
  <2>1. test'.n \in Nat /\ test.n <= test'.n /\ (InTest' => test.n < test'.n)
    BY <1>b, <1>c DEF InTest
  <2>. QED
    BY <1>a, <1>b, <1>c, <2>1, FreshBetween
<1>6. ASSUME ~b PROVE AnswerInv(t)'
  BY <1>a, <1>b, <1>6 DEF ModeInv
<1>. QED
  BY <1>1, <1>2, <1>3, <1>4, <1>5, <1>6 DEF TestInv

LEMMA StartKeeps ==
  ASSUME NEW b \in BOOLEAN, NEW k \in Nat \ {0}, NEW t, NEW mh, NEW mp, NEW mr, NEW mc, TestInv(b, k, t),
         TestOf(b, k, t, mh, mp, mr, mc)!Start
  PROVE  TestInv(b, k, t)'
<1>a. TestTyped(k) /\ ModeInv(b) /\ LedInv(b) /\ FingerInv(k) /\ FreshInv /\ (~b => AnswerInv(t))
  BY DEF TestInv
<1>b. /\ pc = "start" /\ start' = "none" /\ led' = "Idle" /\ HearsMarker
      /\ \/ /\ pc' = "open" /\ module'.present
            /\ module' \in [present : BOOLEAN, sample : BOOLEAN, stable : Nat]
            /\ test' = [n |-> test.n + 1, result |-> "none"]
            /\ by_button' = IF start = "button" THEN by_button + 1 ELSE by_button
         \/ pc' = "poll" /\ UNCHANGED <<module, test, by_button>>
      /\ UNCHANGED <<host, verdict, finger, presses, to_board, button>>
  BY <1>a, StartStep
<1>c. test.n \in Nat /\ to_host' \in Seq(Lines) /\ ~InTest
  BY <1>a, <1>b, Heard DEF TestTyped, InTest
<1>1. TestTyped(k)'
  <2>0. /\ by_button \in Nat /\ test \in [n : Nat, result : {"none", "PASS", "FAIL"}]
        /\ (by_button' = by_button \/ by_button' = by_button + 1)
        /\ (test' = test \/ test' = [n |-> test.n + 1, result |-> "none"])
    BY <1>a, <1>b DEF TestTyped
  <2>1. by_button' \in Nat /\ test' \in [n : Nat, result : {"none", "PASS", "FAIL"}]
    BY ONLY <1>c, <2>0
  <2>2. module' \in [present : BOOLEAN, sample : BOOLEAN, stable : Nat] /\ led' = "Idle"
    BY <1>a, <1>b DEF TestTyped
  <2>. QED
    BY <1>a, <1>b, <1>c, <2>1, <2>2 DEF TestTyped
<1>2. ModeInv(b)'
  BY <1>a, <1>b DEF ModeInv
<1>3. LedInv(b)'
  BY <1>a, <1>b DEF LedInv, InTest
<1>4. FingerInv(k)'
  <2>1. /\ finger.pressed \in BOOLEAN /\ button.raw \in BOOLEAN /\ button.debounced \in BOOLEAN
        /\ finger.bounce \in 0 .. k - 1 /\ button.stable \in 0 .. k /\ presses \in Nat /\ by_button \in Nat
    BY <1>a DEF TestTyped
  <2>2. UNCHANGED <<finger, presses, button>> /\ Spent \in Nat /\ Spent' \in Nat
    BY <1>b, <2>1 DEF Spent
  <2>3. Spent' = Spent \/ Spent' < Spent
    BY <1>b, <2>1 DEF Spent
  <2>. QED
    BY <1>a, <2>1, <2>2, <2>3 DEF FingerInv
<1>5. FreshInv'
  <2>1. test'.n \in Nat /\ test.n <= test'.n /\ (InTest' => test.n < test'.n)
    BY <1>b, <1>c DEF InTest
  <2>. QED
    BY <1>a, <1>b, <1>c, <2>1, FreshBetween
<1>6. ASSUME ~b PROVE AnswerInv(t)'
  BY <1>a, <1>b, <1>6 DEF ModeInv
<1>. QED
  BY <1>1, <1>2, <1>3, <1>4, <1>5, <1>6 DEF TestInv

LEMMA ReadCommandKeeps ==
  ASSUME NEW b \in BOOLEAN, NEW k \in Nat \ {0}, NEW t, NEW mh, NEW mp, NEW mr, NEW mc, TestInv(b, k, t),
         TestOf(b, k, t, mh, mp, mr, mc)!ReadCommand
  PROVE  TestInv(b, k, t)'
<1>a. TestTyped(k) /\ ModeInv(b) /\ LedInv(b) /\ FingerInv(k) /\ FreshInv /\ (~b => AnswerInv(t))
  BY DEF TestInv
<1>b. /\ ~b /\ pc = "poll" /\ to_board # <<>> /\ to_board' = Tail(to_board) /\ HearsMarker
      /\ \/ Head(to_board) = "RUN" /\ pc' = "open" /\ test' = [n |-> test.n + 1, result |-> "none"]
         \/ /\ Head(to_board) # "RUN" /\ UNCHANGED <<test, pc>>
      /\ UNCHANGED <<host, verdict, finger, presses, start, button, module, led, by_button>>
  BY <1>a, ReadCommandStep
<1>c. test.n \in Nat /\ to_host' \in Seq(Lines) /\ ~InTest
  BY <1>a, <1>b, Heard DEF TestTyped, InTest
<1>d. to_board \in Seq(Orders)
  BY <1>a DEF TestTyped
<1>1. TestTyped(k)'
  BY <1>a, <1>b, <1>c, <1>d, Rest DEF TestTyped
<1>2. ModeInv(b)'
  BY <1>a, <1>b DEF ModeInv
<1>3. LedInv(b)'
  BY <1>a, <1>b DEF ModeInv, LedInv
<1>4. FingerInv(k)'
  BY <1>a, <1>b DEF FingerInv, Spent
<1>5. FreshInv'
  <2>1. test'.n \in Nat /\ test.n <= test'.n /\ (InTest' => test.n < test'.n)
    BY <1>b, <1>c DEF InTest
  <2>. QED
    BY <1>a, <1>b, <1>c, <2>1, FreshBetween
<1>6. ASSUME ~b PROVE AnswerInv(t)'
  <2>1. CASE Head(to_board) = "RUN"
    BY <1>b, <2>1 DEF AnswerInv, InTest
  <2>2. CASE Head(to_board) # "RUN"
    <3>1. HasRun => HasRun'
      <4>1. ASSUME HasRun PROVE HasRun'
        <5>1. PICK i \in DOMAIN to_board : to_board[i] = "RUN"
          BY <4>1 DEF HasRun
        <5>2. i - 1 \in DOMAIN Tail(to_board) /\ Tail(to_board)[i - 1] = "RUN"
          BY <1>b, <1>d, <2>2, <5>1, Rest
        <5>. QED
          BY <1>b, <5>2 DEF HasRun
      <4>. QED
        BY <4>1
    <3>2. HasResult => HasResult'
      BY <1>a, <1>b, AnswerBetween
    <3>. QED
      BY <1>a, <1>b, <1>6, <1>c, <2>2, <3>1, <3>2 DEF AnswerInv
  <2>. QED
    BY <2>1, <2>2
<1>. QED
  BY <1>1, <1>2, <1>3, <1>4, <1>5, <1>6 DEF TestInv

LEMMA RunKeeps ==
  ASSUME NEW b \in BOOLEAN, NEW k \in Nat \ {0}, NEW t, NEW mh, NEW mp, NEW mr, NEW mc, TestInv(b, k, t),
         TestOf(b, k, t, mh, mp, mr, mc)!OpenOk \/ TestOf(b, k, t, mh, mp, mr, mc)!StreamOn
  PROVE  TestInv(b, k, t)'
<1>a. TestTyped(k) /\ ModeInv(b) /\ LedInv(b) /\ FingerInv(k) /\ FreshInv /\ (~b => AnswerInv(t))
  BY DEF TestInv
<1>b. /\ InTest /\ pc' \in {"stream", "frame"}
      /\ UNCHANGED <<host, verdict, finger, presses, to_board, to_host, start, button, module, led, test,
                     by_button>>
  BY <1>a, RunStep
<1>1. TestTyped(k)'
  BY <1>a, <1>b DEF TestTyped
<1>2. ModeInv(b)'
  BY <1>a, <1>b DEF ModeInv, InTest
<1>3. LedInv(b)'
  BY <1>a, <1>b DEF LedInv, InTest
<1>4. FingerInv(k)'
  BY <1>a, <1>b DEF FingerInv, Spent
<1>5. FreshInv'
  BY <1>a, <1>b DEF FreshInv, InTest
<1>6. ASSUME ~b PROVE AnswerInv(t)'
  BY <1>a, <1>b, <1>6 DEF AnswerInv, HasRun, HasResult, InTest
<1>. QED
  BY <1>1, <1>2, <1>3, <1>4, <1>5, <1>6 DEF TestInv

LEMMA EndKeeps ==
  ASSUME NEW b \in BOOLEAN, NEW k \in Nat \ {0}, NEW t, NEW mh, NEW mp, NEW mr, NEW mc, TestInv(b, k, t),
         TestOf(b, k, t, mh, mp, mr, mc)!OpenFails \/ TestOf(b, k, t, mh, mp, mr, mc)!ReadFrame
  PROVE  TestInv(b, k, t)'
<1>a. TestTyped(k) /\ ModeInv(b) /\ LedInv(b) /\ FingerInv(k) /\ FreshInv /\ (~b => AnswerInv(t))
  BY DEF TestInv
<1>b. /\ pc \in {"open", "frame"}
      /\ \E outcome \in {"PASS", "FAIL"} :
           /\ test' = [test EXCEPT !.result = outcome]
           /\ b => pc' = "poll" /\ led' = (IF outcome = "PASS" THEN "Pass" ELSE "Fail")
           /\ ~b => pc' = "reboot" /\ UNCHANGED led
           /\ host.at = "closed" => UNCHANGED to_host
           /\ host.at # "closed" /\ ~b => to_host' = Append(to_host, [line |-> outcome, n |-> test.n])
           /\ host.at # "closed" /\ b =>
                to_host' = Append(Append(to_host, [line |-> outcome, n |-> test.n]),
                                  [line |-> "READY", n |-> test.n])
      /\ UNCHANGED <<host, verdict, finger, presses, to_board, start, button, module, by_button>>
  BY <1>a, EndStep
<1>. DEFINE n == Len(to_host)
<1>c. PICK outcome \in {"PASS", "FAIL"} :
        /\ test' = [test EXCEPT !.result = outcome]
        /\ b => pc' = "poll" /\ led' = (IF outcome = "PASS" THEN "Pass" ELSE "Fail")
        /\ ~b => pc' = "reboot" /\ UNCHANGED led
        /\ host.at = "closed" => UNCHANGED to_host
        /\ host.at # "closed" /\ ~b => to_host' = Append(to_host, [line |-> outcome, n |-> test.n])
        /\ host.at # "closed" /\ b =>
             to_host' = Append(Append(to_host, [line |-> outcome, n |-> test.n]), [line |-> "READY", n |-> test.n])
  BY <1>b
<1>d. /\ to_host \in Seq(Lines) /\ n \in Nat /\ DOMAIN to_host = 1 .. n /\ test.n \in Nat
      /\ test \in [n : Nat, result : {"none", "PASS", "FAIL"}] /\ host.since \in Nat
  BY <1>a DEF TestTyped
<1>e. test'.n = test.n /\ test'.result = outcome /\ test' \in [n : Nat, result : {"none", "PASS", "FAIL"}]
  BY <1>c, <1>d
<1>f. [line |-> outcome, n |-> test.n] \in Lines /\ [line |-> "READY", n |-> test.n] \in Lines
  BY <1>d DEF Lines
<1>. DEFINE told == Append(to_host, [line |-> outcome, n |-> test.n])
<1>g. /\ told \in Seq(Lines) /\ Len(told) = n + 1 /\ DOMAIN told = 1 .. n + 1
      /\ (\A i \in 1 .. n : told[i] = to_host[i]) /\ told[n + 1] = [line |-> outcome, n |-> test.n]
  BY <1>d, <1>f, Appended
<1>h. to_host' \in {to_host, told, Append(told, [line |-> "READY", n |-> test.n])}
  BY <1>c
<1>i. host.at # "closed" => to_host' # to_host
  <2>1. ASSUME host.at # "closed", to_host' = to_host PROVE FALSE
    <3>. HIDE DEF told
    <3>1. Len(Append(told, [line |-> "READY", n |-> test.n])) = n + 2
      BY <1>d, <1>f, <1>g, Appended
    <3>2. to_host' \in {told, Append(told, [line |-> "READY", n |-> test.n])}
      BY <1>c, <2>1 DEF told
    <3>3. Len(to_host) = n /\ Len(told) = n + 1 /\ n \in Nat
      BY <1>d, <1>g
    <3>. HIDE DEF n
    <3>. QED
      BY <2>1, <3>1, <3>2, <3>3
  <2>. QED
    BY <2>1
<1>. HIDE DEF told
<1>j. /\ Append(told, [line |-> "READY", n |-> test.n]) \in Seq(Lines)
      /\ DOMAIN Append(told, [line |-> "READY", n |-> test.n]) = 1 .. n + 2
      /\ \A i \in 1 .. n + 1 : Append(told, [line |-> "READY", n |-> test.n])[i] = told[i]
      /\ Append(told, [line |-> "READY", n |-> test.n])[n + 2] = [line |-> "READY", n |-> test.n]
  BY <1>d, <1>f, <1>g, Appended
<1>k. /\ to_host' \in Seq(Lines) /\ DOMAIN to_host' \in {1 .. n, 1 .. n + 1, 1 .. n + 2}
      /\ \A i \in 1 .. n : to_host'[i] = to_host[i]
      /\ n + 1 \in DOMAIN to_host' => to_host'[n + 1] = [line |-> outcome, n |-> test.n]
      /\ n + 2 \in DOMAIN to_host' => to_host'[n + 2] = [line |-> "READY", n |-> test.n]
      /\ host.at # "closed" => n + 1 \in DOMAIN to_host'
  <2>. HIDE DEF n
  <2>1. CASE to_host' = to_host
    BY <1>d, <1>i, <2>1
  <2>2. CASE to_host' = told
    BY <1>d, <1>g, <2>2
  <2>3. CASE to_host' = Append(told, [line |-> "READY", n |-> test.n])
    BY <1>d, <1>g, <1>j, <2>3
  <2>. QED
    BY <1>h, <2>1, <2>2, <2>3
<1>. HIDE DEF n
<1>l. ~b /\ host.at # "closed" => DOMAIN to_host' = 1 .. n + 1
  BY <1>c, <1>g DEF told
<1>m. InTest /\ (b => ~InTest')
  BY <1>b, <1>c DEF InTest
<1>1. TestTyped(k)'
  <2>1. led' \in {"Idle", "Pass", "Fail"}
    BY <1>a, <1>c DEF TestTyped
  <2>. QED
    BY <1>a, <1>b, <1>e, <1>k, <2>1 DEF TestTyped
<1>2. ModeInv(b)'
  BY <1>a, <1>b, <1>c DEF ModeInv
<1>3. LedInv(b)'
  BY <1>a, <1>b, <1>c, <1>e, <1>m DEF LedInv, ModeInv
<1>4. FingerInv(k)'
  BY <1>a, <1>b DEF FingerInv, Spent
<1>5. FreshInv'
  <2>1. ASSUME host.at # "closed", InTest', test'.n = host.since, NEW i \in DOMAIN to_host'
        PROVE  host.at = "wait" /\ ~IsMarker(to_host'[i].line)
    <3>1. host.at = "wait" /\ \A j \in 1 .. n : ~IsMarker(to_host[j].line)
      BY <1>a, <1>d, <1>e, <1>m, <2>1 DEF FreshInv
    <3>2. i \in 1 .. n + 1
      BY <1>l, <1>m, <2>1
    <3>3. CASE i = n + 1
      BY <1>k, <2>1, <3>1, <3>3 DEF IsMarker
    <3>4. CASE i # n + 1
      BY <1>d, <1>k, <3>1, <3>2, <3>4
    <3>. QED
      BY <3>3, <3>4
  <2>2. ASSUME host.at # "closed", NEW i \in DOMAIN to_host', IsResult(to_host'[i].line), to_host'[i].n <= host.since
        PROVE  host.at = "wait" /\ \A j \in 1 .. i - 1 : ~IsMarker(to_host'[j].line)
    <3>1. i \in 1 .. n + 1
      BY <1>d, <1>k, <2>2 DEF IsResult
    <3>2. CASE i = n + 1
      <4>1. test.n = host.since
        BY <1>a, <1>d, <1>k, <2>2, <3>2 DEF FreshInv
      <4>2. host.at = "wait" /\ \A j \in 1 .. n : ~IsMarker(to_host[j].line)
        BY <1>a, <1>d, <1>m, <2>2, <4>1 DEF FreshInv
      <4>. QED
        BY <1>d, <1>k, <3>2, <4>2
    <3>3. CASE i \in 1 .. n
      <4>1. host.at = "wait" /\ \A j \in 1 .. i - 1 : ~IsMarker(to_host[j].line)
        BY <1>a, <1>d, <1>k, <2>2, <3>3 DEF FreshInv
      <4>2. \A j \in 1 .. i - 1 : j \in 1 .. n
        BY <1>d, <3>3
      <4>. QED
        BY <1>k, <4>1, <4>2
    <3>. QED
      BY <1>d, <3>1, <3>2, <3>3
  <2>3. (verdict.n > verdict.since)' /\ (host.at # "closed" => host.since <= test.n)'
    BY <1>a, <1>b, <1>e DEF FreshInv
  <2>. QED
    BY <1>b, <2>1, <2>2, <2>3 DEF FreshInv
<1>6. ASSUME ~b PROVE AnswerInv(t)'
  <2>1. host.at # "closed" => HasResult'
    BY <1>k DEF HasResult, IsResult
  <2>2. ASSUME host.at = "wait", NEW j \in DOMAIN to_host', IsMarker(to_host'[j].line)
        PROVE  \E i \in DOMAIN to_host' : j < i /\ IsResult(to_host'[i].line)
    <3>1. n + 1 \in DOMAIN to_host' /\ to_host'[n + 1].line = outcome /\ j \in 1 .. n + 1
      BY <1>k, <1>l, <1>6, <2>2
    <3>2. j # n + 1
      BY <2>2, <3>1 DEF IsMarker
    <3>. QED
      BY <1>d, <3>1, <3>2 DEF IsResult
  <2>. QED
    BY <1>b, <2>1, <2>2 DEF AnswerInv
<1>. QED
  BY <1>1, <1>2, <1>3, <1>4, <1>5, <1>6 DEF TestInv

LEMMA RebootKeeps ==
  ASSUME NEW b \in BOOLEAN, NEW k \in Nat \ {0}, NEW t, NEW mh, NEW mp, NEW mr, NEW mc, TestInv(b, k, t),
         TestOf(b, k, t, mh, mp, mr, mc)!Reboot
  PROVE  TestInv(b, k, t)'
<1>a. TestTyped(k) /\ ModeInv(b) /\ LedInv(b) /\ FingerInv(k) /\ FreshInv /\ (~b => AnswerInv(t))
  BY DEF TestInv
<1>b. /\ pc = "reboot" /\ pc' = "poll" /\ to_board' = <<>> /\ test' = [test EXCEPT !.result = "none"]
      /\ \/ UNCHANGED host /\ HearsMarker
         \/ host' = [host EXCEPT !.at = "closed"] /\ to_host' = <<>>
      /\ UNCHANGED <<verdict, finger, presses, start, button, module, led, by_button>>
  BY <1>a, RebootStep
<1>c. /\ host \in [at : {"closed", "wait", "test"}, since : Nat]
      /\ test \in [n : Nat, result : {"none", "PASS", "FAIL"}]
  BY <1>a DEF TestTyped
<1>d. test'.n = test.n /\ test'.n \in Nat /\ test' \in [n : Nat, result : {"none", "PASS", "FAIL"}]
  BY <1>b, <1>c
<1>g. [host EXCEPT !.at = "closed"] \in [at : {"closed", "wait", "test"}, since : Nat]
  BY <1>c
<1>e. /\ (host' = host /\ HearsMarker) \/ (host'.at = "closed" /\ to_host' = <<>>)
      /\ host' \in [at : {"closed", "wait", "test"}, since : Nat]
  BY <1>b, <1>c, <1>g
<1>f. ~InTest'
  BY <1>b DEF InTest
<1>1. TestTyped(k)'
  <2>1. to_host' \in Seq(Lines)
    BY <1>a, <1>e, Heard, <<>> \in Seq(Lines)
  <2>. QED
    BY <1>a, <1>b, <1>d, <1>e, <2>1 DEF TestTyped
<1>2. ModeInv(b)'
  BY <1>a, <1>b DEF ModeInv
<1>3. LedInv(b)'
  BY <1>a, <1>b DEF LedInv, InTest
<1>4. FingerInv(k)'
  BY <1>a, <1>b DEF FingerInv, Spent
<1>5. FreshInv'
  <2>1. CASE host' = host /\ HearsMarker
    BY <1>a, <1>b, <1>c, <1>d, <1>f, <2>1, FreshBetween
  <2>2. CASE host'.at = "closed"
    BY <1>a, <1>b, <2>2 DEF FreshInv
  <2>. QED
    BY <1>e, <2>1, <2>2
<1>6. ASSUME ~b PROVE AnswerInv(t)'
  <2>1. CASE host' = host /\ HearsMarker
    BY <1>a, <1>b, <1>6, <2>1, AnswerBetween DEF AnswerInv
  <2>2. CASE host'.at = "closed"
    BY <1>b, <2>2 DEF AnswerInv
  <2>. QED
    BY <1>e, <2>1, <2>2
<1>. QED
  BY <1>1, <1>2, <1>3, <1>4, <1>5, <1>6 DEF TestInv

LEMMA OpenPortKeeps ==
  ASSUME NEW b \in BOOLEAN, NEW k \in Nat \ {0}, NEW t, NEW mh, NEW mp, NEW mr, NEW mc, TestInv(b, k, t),
         TestOf(b, k, t, mh, mp, mr, mc)!OpenPort
  PROVE  TestInv(b, k, t)'
<1>a. TestTyped(k) /\ ModeInv(b) /\ LedInv(b) /\ FingerInv(k) /\ FreshInv /\ (~b => AnswerInv(t))
  BY DEF TestInv
<1>b. /\ host' = [at |-> "wait", since |-> test.n] /\ to_host' = <<>>
      /\ UNCHANGED <<pc, start, button, module, led, test, by_button, finger, presses, to_board, verdict>>
  BY <1>a, OpenPortStep
<1>1. TestTyped(k)'
  BY <1>a, <1>b DEF TestTyped
<1>2. ModeInv(b)'
  BY <1>a, <1>b DEF ModeInv
<1>3. LedInv(b)'
  BY <1>a, <1>b DEF LedInv, InTest
<1>4. FingerInv(k)'
  BY <1>a, <1>b DEF FingerInv, Spent
<1>5. FreshInv'
  <2>1. test.n \in Nat /\ DOMAIN to_host' = {}
    BY <1>a, <1>b DEF TestTyped
  <2>2. host'.at = "wait" /\ host'.since = test.n
    BY <1>b
  <2>. QED
    BY <1>a, <1>b, <2>1, <2>2 DEF FreshInv
<1>6. ASSUME ~b PROVE AnswerInv(t)'
  BY <1>a, <1>b, <1>6 DEF AnswerInv, HasRun, HasResult, InTest
<1>. QED
  BY <1>1, <1>2, <1>3, <1>4, <1>5, <1>6 DEF TestInv

LEMMA OrderKeeps ==
  ASSUME NEW b \in BOOLEAN, NEW k \in Nat \ {0}, NEW t, NEW mh, NEW mp, NEW mr, NEW mc, TestInv(b, k, t),
         TestOf(b, k, t, mh, mp, mr, mc)!Ask
  PROVE  TestInv(b, k, t)'
<1>a. TestTyped(k) /\ ModeInv(b) /\ LedInv(b) /\ FingerInv(k) /\ FreshInv /\ (~b => AnswerInv(t))
  BY DEF TestInv
<1>b. /\ \E c \in Orders : to_board' = Append(to_board, c)
      /\ UNCHANGED <<pc, start, button, module, led, test, by_button, finger, presses, to_host, host, verdict>>
  BY <1>a, OrderStep
<1>1. TestTyped(k)'
  BY <1>a, <1>b DEF TestTyped
<1>2. ModeInv(b)'
  BY <1>a, <1>b DEF ModeInv
<1>3. LedInv(b)'
  BY <1>a, <1>b DEF LedInv, InTest
<1>4. FingerInv(k)'
  BY <1>a, <1>b DEF FingerInv, Spent
<1>5. FreshInv'
  BY <1>a, <1>b DEF FreshInv, InTest
<1>6. ASSUME ~b PROVE AnswerInv(t)'
  BY <1>a, <1>b, <1>6 DEF AnswerInv, HasRun, HasResult, InTest
<1>. QED
  BY <1>1, <1>2, <1>3, <1>4, <1>5, <1>6 DEF TestInv

LEMMA WaitLineKeeps ==
  ASSUME NEW b \in BOOLEAN, NEW k \in Nat \ {0}, NEW t, NEW mh, NEW mp, NEW mr, NEW mc, TestInv(b, k, t),
         TestOf(b, k, t, mh, mp, mr, mc)!WaitLine
  PROVE  TestInv(b, k, t)'
<1>a. TestTyped(k) /\ ModeInv(b) /\ LedInv(b) /\ FingerInv(k) /\ FreshInv /\ (~b => AnswerInv(t))
  BY DEF TestInv
<1>b. /\ host.at = "wait" /\ to_host # <<>> /\ to_host' = Tail(to_host)
      /\ \/ /\ IsMarker(Head(to_host).line)
            /\ host' = [host EXCEPT !.at = "test"] /\ to_board' = Append(to_board, "RUN")
         \/ ~IsMarker(Head(to_host).line) /\ UNCHANGED <<host, to_board>>
      /\ UNCHANGED <<pc, start, button, module, led, test, by_button, finger, presses, verdict>>
  BY <1>a, WaitLineStep
<1>c. /\ to_host \in Seq(Lines) /\ to_board \in Seq(Orders) /\ host \in [at : {"closed", "wait", "test"}, since : Nat]
      /\ host.since \in Nat
  BY <1>a DEF TestTyped
<1>. DEFINE n == Len(to_host)
<1>d. /\ n \in Nat \ {0} /\ DOMAIN to_host = 1 .. n /\ DOMAIN to_host' = 1 .. n - 1 /\ to_host' \in Seq(Lines)
      /\ (\A i \in 1 .. n - 1 : to_host'[i] = to_host[i + 1]) /\ Head(to_host) = to_host[1]
      /\ Head(to_host) \in Lines
  BY <1>b, <1>c, Rest
<1>. HIDE DEF n
<1>e. /\ IsMarker(Head(to_host).line) => host'.at = "test" /\ to_board' = Append(to_board, "RUN")
      /\ ~IsMarker(Head(to_host).line) => UNCHANGED <<host, to_board>>
      /\ host' \in [at : {"closed", "wait", "test"}, since : Nat] /\ host'.since = host.since
  BY <1>b, <1>c
<1>f. "RUN" \in Orders
  BY DEF Orders
<1>g. /\ Append(to_board, "RUN") \in Seq(Orders) /\ Len(to_board) + 1 \in DOMAIN Append(to_board, "RUN")
      /\ Append(to_board, "RUN")[Len(to_board) + 1] = "RUN"
  BY <1>c, <1>f, Appended
<1>1. TestTyped(k)'
  <2>1. to_board' \in Seq(Orders)
    BY <1>c, <1>e, <1>g
  <2>. QED
    BY <1>a, <1>b, <1>d, <1>e, <2>1 DEF TestTyped
<1>2. ModeInv(b)'
  BY <1>a, <1>b DEF ModeInv
<1>3. LedInv(b)'
  BY <1>a, <1>b DEF LedInv, InTest
<1>4. FingerInv(k)'
  BY <1>a, <1>b DEF FingerInv, Spent
<1>5. FreshInv'
  <2>1. ASSUME host'.at # "closed", InTest', test.n = host.since, NEW i \in DOMAIN to_host'
        PROVE  host'.at = "wait" /\ ~IsMarker(to_host'[i].line)
    <3>1. InTest
      BY <1>b, <2>1 DEF InTest
    <3>2. \A j \in 1 .. n : ~IsMarker(to_host[j].line)
      BY <1>a, <1>b, <1>d, <2>1, <3>1 DEF FreshInv
    <3>3. i + 1 \in 1 .. n /\ 1 \in 1 .. n /\ to_host'[i] = to_host[i + 1]
      BY <1>d, <2>1
    <3>. QED
      BY <1>b, <1>d, <1>e, <3>2, <3>3
  <2>2. ASSUME host'.at # "closed", NEW i \in DOMAIN to_host', IsResult(to_host'[i].line), to_host'[i].n <= host.since
        PROVE  host'.at = "wait" /\ \A j \in 1 .. i - 1 : ~IsMarker(to_host'[j].line)
    <3>1. i + 1 \in 1 .. n /\ to_host'[i] = to_host[i + 1]
      BY <1>d, <2>2
    <3>2. \A j \in 1 .. i + 1 - 1 : ~IsMarker(to_host[j].line)
      BY <1>a, <1>b, <1>d, <2>2, <3>1 DEF FreshInv
    <3>3. i \in 1 .. n - 1 /\ 1 \in 1 .. i + 1 - 1
      BY <1>d, <2>2
    <3>4. ~IsMarker(Head(to_host).line)
      BY <1>d, <3>2, <3>3
    <3>5. ASSUME NEW j \in 1 .. i - 1 PROVE ~IsMarker(to_host'[j].line)
      <4>1. j \in 1 .. n - 1 /\ j + 1 \in 1 .. i + 1 - 1
        BY <1>d, <3>3, <3>5
      <4>. QED
        BY <1>d, <3>2, <4>1
    <3>. QED
      BY <1>b, <1>e, <3>4, <3>5
  <2>3. (verdict.n > verdict.since)' /\ host'.since <= test.n /\ test' = test
    BY <1>a, <1>b, <1>e DEF FreshInv
  <2>. QED
    <3>1. host'.at # "closed" /\ InTest' /\ test'.n = host'.since =>
            host'.at = "wait" /\ \A i \in DOMAIN to_host' : ~IsMarker(to_host'[i].line)
      <4>1. CASE host'.at = "wait"
        BY <1>b, <1>e, <2>1, <2>3, <4>1
      <4>2. CASE host'.at = "test"
        BY <1>a, <1>b, <1>d, <1>e, <2>3, <4>2 DEF FreshInv, InTest
      <4>. QED
        BY <1>e, <4>1, <4>2
    <3>2. host'.at # "closed" =>
            \A i \in DOMAIN to_host' :
              IsResult(to_host'[i].line) /\ to_host'[i].n <= host'.since =>
                host'.at = "wait" /\ \A j \in 1 .. i - 1 : ~IsMarker(to_host'[j].line)
      BY <1>e, <2>2
    <3>. QED
      BY <1>b, <1>e, <2>3, <3>1, <3>2 DEF FreshInv
<1>6. ASSUME ~b PROVE AnswerInv(t)'
  <2>1. ASSUME pc = "reboot", NEW j \in 1 .. n, IsMarker(to_host[j].line)
        PROVE  \E i \in DOMAIN to_host' : j < i + 1 /\ IsResult(to_host'[i].line)
    <3>1. PICK i \in 1 .. n : j < i /\ IsResult(to_host[i].line)
      BY <1>a, <1>b, <1>d, <1>6, <2>1 DEF AnswerInv
    <3>2. i - 1 \in 1 .. n - 1 /\ (i - 1) + 1 = i
      BY <1>d, <2>1, <3>1
    <3>. QED
      BY <1>d, <3>1, <3>2
  <2>2. host'.at = "test" => HasRun'
    BY <1>b, <1>e, <1>g DEF HasRun
  <2>3. pc' = "reboot" /\ host'.at = "test" => HasResult'
    <3>1. 1 \in 1 .. n
      BY <1>d
    <3>2. host'.at = "test" => IsMarker(to_host[1].line)
      BY <1>b, <1>d, <1>e
    <3>. QED
      BY <1>b, <2>1, <3>1, <3>2 DEF HasResult
  <2>4. ASSUME pc' = "reboot", NEW j \in DOMAIN to_host', IsMarker(to_host'[j].line)
        PROVE  \E i \in DOMAIN to_host' : j < i /\ IsResult(to_host'[i].line)
    <3>1. j + 1 \in 1 .. n /\ to_host'[j] = to_host[j + 1]
      BY <1>d, <2>4
    <3>2. PICK i \in DOMAIN to_host' : j + 1 < i + 1 /\ IsResult(to_host'[i].line)
      BY <1>b, <2>1, <2>4, <3>1
    <3>3. j < i
      BY <1>d, <2>4, <3>2
    <3>. QED
      BY <3>2, <3>3
  <2>. QED
    BY <1>6, <2>2, <2>3, <2>4 DEF AnswerInv
<1>. QED
  BY <1>1, <1>2, <1>3, <1>4, <1>5, <1>6 DEF TestInv

LEMMA TestLineKeeps ==
  ASSUME NEW b \in BOOLEAN, NEW k \in Nat \ {0}, NEW t, NEW mh, NEW mp, NEW mr, NEW mc, TestInv(b, k, t),
         TestOf(b, k, t, mh, mp, mr, mc)!TestLine
  PROVE  TestInv(b, k, t)'
<1>a. TestTyped(k) /\ ModeInv(b) /\ LedInv(b) /\ FingerInv(k) /\ FreshInv /\ (~b => AnswerInv(t))
  BY DEF TestInv
<1>b. /\ host.at = "test" /\ to_host # <<>> /\ to_host' = Tail(to_host)
      /\ \/ /\ IsResult(Head(to_host).line) /\ host' = [host EXCEPT !.at = "closed"]
            /\ verdict' = [n |-> Head(to_host).n, since |-> host.since]
         \/ ~IsResult(Head(to_host).line) /\ UNCHANGED <<host, verdict>>
      /\ UNCHANGED <<pc, start, button, module, led, test, by_button, finger, presses, to_board>>
  BY <1>a, TestLineStep
<1>c. /\ to_host \in Seq(Lines) /\ to_board \in Seq(Orders) /\ host \in [at : {"closed", "wait", "test"}, since : Nat]
      /\ host.since \in Nat
  BY <1>a DEF TestTyped
<1>. DEFINE n == Len(to_host)
<1>d. /\ n \in Nat \ {0} /\ DOMAIN to_host = 1 .. n /\ DOMAIN to_host' = 1 .. n - 1 /\ to_host' \in Seq(Lines)
      /\ (\A i \in 1 .. n - 1 : to_host'[i] = to_host[i + 1]) /\ Head(to_host) = to_host[1]
      /\ Head(to_host) \in Lines
  BY <1>b, <1>c, Rest
<1>. HIDE DEF n
<1>e. /\ IsResult(Head(to_host).line) => host'.at = "closed" /\ verdict' = [n |-> Head(to_host).n, since |-> host.since]
      /\ ~IsResult(Head(to_host).line) => UNCHANGED <<host, verdict>>
      /\ host' \in [at : {"closed", "wait", "test"}, since : Nat] /\ host'.since = host.since
  BY <1>b, <1>c
<1>f. Head(to_host).n \in Nat
  BY <1>d DEF Lines
<1>1. TestTyped(k)'
  <2>1. verdict' \in [n : Nat, since : Int]
    BY <1>a, <1>c, <1>e, <1>f DEF TestTyped
  <2>. QED
    BY <1>a, <1>b, <1>d, <1>e, <2>1 DEF TestTyped
<1>2. ModeInv(b)'
  BY <1>a, <1>b DEF ModeInv
<1>3. LedInv(b)'
  BY <1>a, <1>b DEF LedInv, InTest
<1>4. FingerInv(k)'
  BY <1>a, <1>b DEF FingerInv, Spent
<1>5. FreshInv'
  <2>1. host'.at # "closed" => ~(InTest' /\ test.n = host.since)
    BY <1>a, <1>b, <1>e DEF FreshInv, InTest
  <2>2. ASSUME host'.at # "closed", NEW i \in DOMAIN to_host', IsResult(to_host'[i].line), to_host'[i].n <= host.since
        PROVE  FALSE
    <3>1. i + 1 \in 1 .. n /\ to_host'[i] = to_host[i + 1]
      BY <1>d, <2>2
    <3>. QED
      BY <1>a, <1>b, <1>d, <2>2, <3>1 DEF FreshInv
  <2>3. (verdict.n > verdict.since)'
    <3>1. IsResult(Head(to_host).line) => ~(Head(to_host).n <= host.since)
      BY <1>a, <1>b, <1>d DEF FreshInv
    <3>. QED
      BY <1>a, <1>c, <1>e, <1>f, <3>1 DEF FreshInv
  <2>. QED
    BY <1>a, <1>b, <1>e, <2>1, <2>2, <2>3 DEF FreshInv
<1>6. ASSUME ~b PROVE AnswerInv(t)'
  <2>1. ASSUME HasResult, host'.at # "closed" PROVE HasResult'
    <3>1. PICK i \in 1 .. n : IsResult(to_host[i].line)
      BY <1>d, <2>1 DEF HasResult
    <3>2. i # 1
      BY <1>d, <1>e, <2>1, <3>1
    <3>3. i - 1 \in 1 .. n - 1 /\ (i - 1) + 1 = i
      BY <1>d, <3>1, <3>2
    <3>. QED
      BY <1>d, <3>1, <3>3 DEF HasResult
  <2>. QED
    BY <1>a, <1>b, <1>e, <1>6, <2>1 DEF AnswerInv, HasRun, InTest
<1>. QED
  BY <1>1, <1>2, <1>3, <1>4, <1>5, <1>6 DEF TestInv

LEMMA GiveUpKeeps ==
  ASSUME NEW b \in BOOLEAN, NEW k \in Nat \ {0}, NEW t, NEW mh, NEW mp, NEW mr, NEW mc, TestInv(b, k, t),
         TestOf(b, k, t, mh, mp, mr, mc)!GiveUp
  PROVE  TestInv(b, k, t)'
<1>a. TestTyped(k) /\ ModeInv(b) /\ LedInv(b) /\ FingerInv(k) /\ FreshInv /\ (~b => AnswerInv(t))
  BY DEF TestInv
<1>b. /\ host' = [host EXCEPT !.at = "closed"]
      /\ UNCHANGED <<pc, start, button, module, led, test, by_button, finger, presses, to_board, to_host, verdict>>
  BY <1>a, GiveUpStep
<1>1. TestTyped(k)'
  BY <1>a, <1>b DEF TestTyped
<1>2. ModeInv(b)'
  BY <1>a, <1>b DEF ModeInv
<1>3. LedInv(b)'
  BY <1>a, <1>b DEF LedInv, InTest
<1>4. FingerInv(k)'
  BY <1>a, <1>b DEF FingerInv, Spent
<1>5. FreshInv'
  BY <1>a, <1>b DEF FreshInv, InTest
<1>6. ASSUME ~b PROVE AnswerInv(t)'
  BY <1>a, <1>b, <1>6 DEF AnswerInv, HasRun, HasResult, InTest
<1>. QED
  BY <1>1, <1>2, <1>3, <1>4, <1>5, <1>6 DEF TestInv

LEMMA TestKeeps ==
  ASSUME NEW b \in BOOLEAN, NEW k \in Nat \ {0}, NEW t, NEW mh, NEW mp, NEW mr, NEW mc,
         TestInv(b, k, t), [TestOf(b, k, t, mh, mp, mr, mc)!Next]_testVars
  PROVE  TestInv(b, k, t)'
<1>1. CASE UNCHANGED testVars
  BY <1>1 DEF testVars, TestInv, TestTyped, ModeInv, LedInv, FingerInv, FreshInv, AnswerInv, Spent, InTest,
    HasResult, HasRun
<1>2. CASE TestOf(b, k, t, mh, mp, mr, mc)!Operator
  BY <1>2, PressKeeps, CameraKeeps DEF TestOf!Operator
<1>3. CASE TestOf(b, k, t, mh, mp, mr, mc)!Board
  <2>1. CASE TestOf(b, k, t, mh, mp, mr, mc)!Poll
    BY <2>1, PollKeeps
  <2>2. CASE TestOf(b, k, t, mh, mp, mr, mc)!Probe \/ TestOf(b, k, t, mh, mp, mr, mc)!NoProbe
    BY <2>2, ProbeKeeps
  <2>3. CASE TestOf(b, k, t, mh, mp, mr, mc)!Start
    BY <2>3, StartKeeps
  <2>4. CASE TestOf(b, k, t, mh, mp, mr, mc)!ReadCommand
    BY <2>4, ReadCommandKeeps
  <2>5. CASE TestOf(b, k, t, mh, mp, mr, mc)!OpenOk \/ TestOf(b, k, t, mh, mp, mr, mc)!StreamOn
    BY <2>5, RunKeeps
  <2>6. CASE TestOf(b, k, t, mh, mp, mr, mc)!OpenFails \/ TestOf(b, k, t, mh, mp, mr, mc)!ReadFrame
    BY <2>6, EndKeeps
  <2>7. CASE TestOf(b, k, t, mh, mp, mr, mc)!Reboot
    BY <2>7, RebootKeeps
  <2>. QED
    BY <1>3, <2>1, <2>2, <2>3, <2>4, <2>5, <2>6, <2>7 DEF TestOf!Board
<1>4. CASE TestOf(b, k, t, mh, mp, mr, mc)!Host
  BY <1>4, OpenPortKeeps, OrderKeeps, WaitLineKeeps, TestLineKeeps, GiveUpKeeps DEF TestOf!Host
<1>. QED
  BY <1>1, <1>2, <1>3, <1>4 DEF TestOf!Next

TestPromise(b, k, t, mh, mp, mr, mc) ==
  /\ TestOf(b, k, t, mh, mp, mr, mc)!VerdictFresh /\ TestOf(b, k, t, mh, mp, mr, mc)!LedTellsTest
  /\ TestOf(b, k, t, mh, mp, mr, mc)!LedOfModule /\ TestOf(b, k, t, mh, mp, mr, mc)!OnePressOneTest
  /\ ~b => TestOf(b, k, t, mh, mp, mr, mc)!RunAnswered

LEMMA TestVerdicts ==
  ASSUME NEW b \in BOOLEAN, NEW k \in Nat \ {0}, NEW t, NEW mh, NEW mp, NEW mr, NEW mc,
         TestInv(b, k, t)
  PROVE  TestPromise(b, k, t, mh, mp, mr, mc)
<1>1. TestOf(b, k, t, mh, mp, mr, mc)!VerdictFresh
  BY DEF TestInv, FreshInv, TestOf!VerdictFresh
<1>2. TestOf(b, k, t, mh, mp, mr, mc)!LedTellsTest /\ TestOf(b, k, t, mh, mp, mr, mc)!LedOfModule
  BY DEF TestInv, LedInv, InTest, TestOf!LedTellsTest, TestOf!LedOfModule, TestOf!Testing
<1>3. TestOf(b, k, t, mh, mp, mr, mc)!OnePressOneTest
  BY DEF TestInv, TestTyped, FingerInv, Spent, TestOf!OnePressOneTest
<1>4. ~b => TestOf(b, k, t, mh, mp, mr, mc)!RunAnswered
  BY DEF TestInv, AnswerInv, HasRun, HasResult, IsResult, InTest, TestOf!RunAnswered, TestOf!Testing
<1>. QED
  BY <1>1, <1>2, <1>3, <1>4 DEF TestPromise

\* Of the production test in both modes, with any number of programs, pings, presses and changes of
\* the camera, and any number of equal polls to believe the button: the verdict that a program
\* reports is of a test that began after the program did; the LED tells of the latest test, and of
\* a module that is there; a press, however it bounces, starts one test at most; and, where the
\* board reboots after a test, a program that has sent RUN has its answer coming.
THEOREM VerdictsAreOfTests ==
  ASSUME NEW b \in BOOLEAN, NEW k \in Nat \ {0}, NEW t, NEW mh, NEW mp, NEW mr, NEW mc
  PROVE  TestOf(b, k, t, mh, mp, mr, mc)!Spec => []TestPromise(b, k, t, mh, mp, mr, mc)
<1>1. TestOf(b, k, t, mh, mp, mr, mc)!Init => TestInv(b, k, t)
  BY TestInit
<1>2. TestInv(b, k, t) /\ [TestOf(b, k, t, mh, mp, mr, mc)!Next]_testVars => TestInv(b, k, t)'
  BY TestKeeps
<1>3. UNCHANGED TestOf(b, k, t, mh, mp, mr, mc)!vars => UNCHANGED testVars
  BY DEF TestOf!vars, TestOf!board, TestOf!outside, TestOf!program, testVars
<1>4. TestInv(b, k, t) => TestPromise(b, k, t, mh, mp, mr, mc)
  BY TestVerdicts
<1>. QED
  BY <1>1, <1>2, <1>3, <1>4, PTL DEF TestOf!Spec

LEMMA HostTestSame ==
  /\ HostTest!Init <=> TestOf(FALSE, 3, 3, 2, 2, 0, 1)!Init
  /\ HostTest!Next <=> TestOf(FALSE, 3, 3, 2, 2, 0, 1)!Next
<1>1. HostTest!Init <=> TestOf(FALSE, 3, 3, 2, 2, 0, 1)!Init
  BY DEF
    HostTest!Init, HostTest!NoTest, TestOf!Init, TestOf!NoTest
<1>2. HostTest!Next <=> TestOf(FALSE, 3, 3, 2, 2, 0, 1)!Next
  BY DEF
    HostTest!Next, HostTest!Operator, HostTest!Board, HostTest!Host, HostTest!ChangeCamera,
    HostTest!Boot, HostTest!MoveFinger, HostTest!Poll, HostTest!Probe, HostTest!NoProbe,
    HostTest!Start, HostTest!ReadCommand, HostTest!OpenOk, HostTest!OpenFails, HostTest!StreamOn,
    HostTest!ReadFrame, HostTest!Reboot, HostTest!OpenPort, HostTest!Ask, HostTest!WaitLine,
    HostTest!TestLine, HostTest!GiveUp, HostTest!board, HostTest!program, HostTest!Quiet,
    HostTest!Button, HostTest!Edge, HostTest!Command, HostTest!outside, HostTest!Say,
    HostTest!Ready, HostTest!Count, HostTest!AfterProbe, HostTest!NoTest, HostTest!Seen,
    HostTest!LedOff, HostTest!Result, HostTest!OpenEmpty, HostTest!Line, HostTest!Marker,
    HostTest!Finish, TestOf!Next, TestOf!Operator, TestOf!Board, TestOf!Host,
    TestOf!ChangeCamera, TestOf!Boot, TestOf!MoveFinger, TestOf!Poll, TestOf!Probe,
    TestOf!NoProbe, TestOf!Start, TestOf!ReadCommand, TestOf!OpenOk, TestOf!OpenFails,
    TestOf!StreamOn, TestOf!ReadFrame, TestOf!Reboot, TestOf!OpenPort, TestOf!Ask,
    TestOf!WaitLine, TestOf!TestLine, TestOf!GiveUp, TestOf!board, TestOf!program, TestOf!Quiet,
    TestOf!Button, TestOf!Edge, TestOf!Command, TestOf!outside, TestOf!Say, TestOf!Ready,
    TestOf!Count, TestOf!AfterProbe, TestOf!NoTest, TestOf!Seen, TestOf!LedOff, TestOf!Result,
    TestOf!OpenEmpty, TestOf!Line, TestOf!Marker, TestOf!Finish
<1>. QED
  BY <1>1, <1>2

LEMMA ButtonTestSame ==
  /\ ButtonTest!Init <=> TestOf(TRUE, 3, 2, 0, 0, 3, 1)!Init
  /\ ButtonTest!Next <=> TestOf(TRUE, 3, 2, 0, 0, 3, 1)!Next
<1>1. ButtonTest!Init <=> TestOf(TRUE, 3, 2, 0, 0, 3, 1)!Init
  BY DEF
    ButtonTest!Init, ButtonTest!NoTest, TestOf!Init, TestOf!NoTest
<1>2. ButtonTest!Next <=> TestOf(TRUE, 3, 2, 0, 0, 3, 1)!Next
  BY DEF
    ButtonTest!Next, ButtonTest!Operator, ButtonTest!Board, ButtonTest!Host,
    ButtonTest!ChangeCamera, ButtonTest!Boot, ButtonTest!MoveFinger, ButtonTest!Poll,
    ButtonTest!Probe, ButtonTest!NoProbe, ButtonTest!Start, ButtonTest!ReadCommand,
    ButtonTest!OpenOk, ButtonTest!OpenFails, ButtonTest!StreamOn, ButtonTest!ReadFrame,
    ButtonTest!Reboot, ButtonTest!OpenPort, ButtonTest!Ask, ButtonTest!WaitLine,
    ButtonTest!TestLine, ButtonTest!GiveUp, ButtonTest!board, ButtonTest!program,
    ButtonTest!Quiet, ButtonTest!Button, ButtonTest!Edge, ButtonTest!Command, ButtonTest!outside,
    ButtonTest!Say, ButtonTest!Ready, ButtonTest!Count, ButtonTest!AfterProbe, ButtonTest!NoTest,
    ButtonTest!Seen, ButtonTest!LedOff, ButtonTest!Result, ButtonTest!OpenEmpty, ButtonTest!Line,
    ButtonTest!Marker, ButtonTest!Finish, TestOf!Next, TestOf!Operator, TestOf!Board,
    TestOf!Host, TestOf!ChangeCamera, TestOf!Boot, TestOf!MoveFinger, TestOf!Poll, TestOf!Probe,
    TestOf!NoProbe, TestOf!Start, TestOf!ReadCommand, TestOf!OpenOk, TestOf!OpenFails,
    TestOf!StreamOn, TestOf!ReadFrame, TestOf!Reboot, TestOf!OpenPort, TestOf!Ask,
    TestOf!WaitLine, TestOf!TestLine, TestOf!GiveUp, TestOf!board, TestOf!program, TestOf!Quiet,
    TestOf!Button, TestOf!Edge, TestOf!Command, TestOf!outside, TestOf!Say, TestOf!Ready,
    TestOf!Count, TestOf!AfterProbe, TestOf!NoTest, TestOf!Seen, TestOf!LedOff, TestOf!Result,
    TestOf!OpenEmpty, TestOf!Line, TestOf!Marker, TestOf!Finish
<1>. QED
  BY <1>1, <1>2

LEMMA MixedTestSame ==
  /\ MixedTest!Init <=> TestOf(TRUE, 2, 2, 2, 1, 1, 0)!Init
  /\ MixedTest!Next <=> TestOf(TRUE, 2, 2, 2, 1, 1, 0)!Next
<1>1. MixedTest!Init <=> TestOf(TRUE, 2, 2, 2, 1, 1, 0)!Init
  BY DEF
    MixedTest!Init, MixedTest!NoTest, TestOf!Init, TestOf!NoTest
<1>2. MixedTest!Next <=> TestOf(TRUE, 2, 2, 2, 1, 1, 0)!Next
  BY DEF
    MixedTest!Next, MixedTest!Operator, MixedTest!Board, MixedTest!Host, MixedTest!ChangeCamera,
    MixedTest!Boot, MixedTest!MoveFinger, MixedTest!Poll, MixedTest!Probe, MixedTest!NoProbe,
    MixedTest!Start, MixedTest!ReadCommand, MixedTest!OpenOk, MixedTest!OpenFails,
    MixedTest!StreamOn, MixedTest!ReadFrame, MixedTest!Reboot, MixedTest!OpenPort, MixedTest!Ask,
    MixedTest!WaitLine, MixedTest!TestLine, MixedTest!GiveUp, MixedTest!board, MixedTest!program,
    MixedTest!Quiet, MixedTest!Button, MixedTest!Edge, MixedTest!Command, MixedTest!outside,
    MixedTest!Say, MixedTest!Ready, MixedTest!Count, MixedTest!AfterProbe, MixedTest!NoTest,
    MixedTest!Seen, MixedTest!LedOff, MixedTest!Result, MixedTest!OpenEmpty, MixedTest!Line,
    MixedTest!Marker, MixedTest!Finish, TestOf!Next, TestOf!Operator, TestOf!Board, TestOf!Host,
    TestOf!ChangeCamera, TestOf!Boot, TestOf!MoveFinger, TestOf!Poll, TestOf!Probe,
    TestOf!NoProbe, TestOf!Start, TestOf!ReadCommand, TestOf!OpenOk, TestOf!OpenFails,
    TestOf!StreamOn, TestOf!ReadFrame, TestOf!Reboot, TestOf!OpenPort, TestOf!Ask,
    TestOf!WaitLine, TestOf!TestLine, TestOf!GiveUp, TestOf!board, TestOf!program, TestOf!Quiet,
    TestOf!Button, TestOf!Edge, TestOf!Command, TestOf!outside, TestOf!Say, TestOf!Ready,
    TestOf!Count, TestOf!AfterProbe, TestOf!NoTest, TestOf!Seen, TestOf!LedOff, TestOf!Result,
    TestOf!OpenEmpty, TestOf!Line, TestOf!Marker, TestOf!Finish
<1>. QED
  BY <1>1, <1>2

LEMMA TestInstances == TRUE \in BOOLEAN /\ FALSE \in BOOLEAN /\ 2 \in Nat \ {0} /\ 3 \in Nat \ {0}
OBVIOUS

RunsTest ==
  /\ running = "host" => TestInv(FALSE, 3, 3)
  /\ running = "button" => TestInv(TRUE, 3, 2)
  /\ running = "mixed" => TestInv(TRUE, 2, 2)

LEMMA RunsTestInit == Init => RunsTest
<1>1. HostTest!Init => ButtonTest!Init /\ MixedTest!Init
  BY DEF HostTest!Init, HostTest!NoTest, ButtonTest!Init, ButtonTest!NoTest, MixedTest!Init, MixedTest!NoTest
<1>2. TestOf(FALSE, 3, 3, 2, 2, 0, 1)!Init => TestInv(FALSE, 3, 3)
  BY TestInit, TestInstances
<1>3. TestOf(TRUE, 3, 2, 0, 0, 3, 1)!Init => TestInv(TRUE, 3, 2)
  BY TestInit, TestInstances
<1>4. TestOf(TRUE, 2, 2, 2, 1, 1, 0)!Init => TestInv(TRUE, 2, 2)
  BY TestInit, TestInstances
<1>. QED
  BY <1>1, <1>2, <1>3, <1>4, HostTestSame, ButtonTestSame, MixedTestSame DEF Init, RunsTest

LEMMA RunsTestStep ==
  ASSUME RunsTest, [Next]_vars
  PROVE  RunsTest'
<1>1. UNCHANGED running
  BY DEF Next, vars
<1>2. ASSUME running = "host" PROVE TestInv(FALSE, 3, 3)'
  <2>1. [HostTest!Next]_testVars
    BY <1>2 DEF Next, ServerNext, SerialNext, UartNext, CoreNext, TestNext, BusNext, vars, testVars
  <2>2. [TestOf(FALSE, 3, 3, 2, 2, 0, 1)!Next]_testVars
    BY <2>1, HostTestSame
  <2>. QED
    BY <1>2, <2>2, TestKeeps, TestInstances DEF RunsTest
<1>3. ASSUME running = "button" PROVE TestInv(TRUE, 3, 2)'
  <2>1. [ButtonTest!Next]_testVars
    BY <1>3 DEF Next, ServerNext, SerialNext, UartNext, CoreNext, TestNext, BusNext, vars, testVars
  <2>2. [TestOf(TRUE, 3, 2, 0, 0, 3, 1)!Next]_testVars
    BY <2>1, ButtonTestSame
  <2>. QED
    BY <1>3, <2>2, TestKeeps, TestInstances DEF RunsTest
<1>4. ASSUME running = "mixed" PROVE TestInv(TRUE, 2, 2)'
  <2>1. [MixedTest!Next]_testVars
    BY <1>4 DEF Next, ServerNext, SerialNext, UartNext, CoreNext, TestNext, BusNext, vars, testVars
  <2>2. [TestOf(TRUE, 2, 2, 2, 1, 1, 0)!Next]_testVars
    BY <2>1, MixedTestSame
  <2>. QED
    BY <1>4, <2>2, TestKeeps, TestInstances DEF RunsTest
<1>. QED
  BY <1>1, <1>2, <1>3, <1>4 DEF RunsTest

\* The same of the three ways in which the run sets the test up.
THEOREM VerdictsAreOfThisTest == Spec => []VerdictOfThisTest
<1>1. TestInv(FALSE, 3, 3) => HostTest!VerdictFresh /\ HostTest!RunAnswered
  BY DEF
    HostTest!VerdictFresh, HostTest!RunAnswered, HostTest!Testing, TestInv, TestTyped, LedInv,
    FingerInv, FreshInv, AnswerInv, Spent, InTest, HasRun, HasResult, IsResult
<1>2. TestInv(TRUE, 3, 2) => ButtonTest!LedTellsTest /\ ButtonTest!LedOfModule /\ ButtonTest!OnePressOneTest
  BY DEF
    ButtonTest!LedTellsTest, ButtonTest!LedOfModule, ButtonTest!OnePressOneTest,
    ButtonTest!Testing, TestInv, TestTyped, LedInv, FingerInv, FreshInv, AnswerInv, Spent,
    InTest, HasRun, HasResult, IsResult
<1>3. TestInv(TRUE, 2, 2) => MixedTest!VerdictFresh /\ MixedTest!LedTellsTest /\ MixedTest!LedOfModule /\ MixedTest!OnePressOneTest
  BY DEF
    MixedTest!VerdictFresh, MixedTest!LedTellsTest, MixedTest!LedOfModule,
    MixedTest!OnePressOneTest, MixedTest!Testing, TestInv, TestTyped, LedInv, FingerInv,
    FreshInv, AnswerInv, Spent, InTest, HasRun, HasResult, IsResult
<1>4. RunsTest => VerdictOfThisTest
  BY <1>1, <1>2, <1>3 DEF RunsTest, VerdictOfThisTest
<1>. QED
  BY <1>4, RunsTestInit, RunsTestStep, PTL DEF Spec
=============================================================================
