----------------------------- MODULE UsbProofs ------------------------------
(***************************************************************************)
(* Theorems about the programs at the host's end of the USB line, for all  *)
(* values of their constants, and as the run composes them.  The line is   *)
(* first-in first-out and nothing is lost, so each program keeps one       *)
(* invariant: what is on the line is a run of requests, each following on  *)
(* the one before it, and it ends with the program's newest.               *)
(***************************************************************************)
EXTENDS MCUsbPrograms, Integers, FiniteSets, FiniteSetTheorems, TLAPS

-----------------------------------------------------------------------------
(* The line: w the pieces of answers on it, b the requests not yet served   *)

Before(r, t) == r.session < t.session \/ (r.session = t.session /\ r.seq < t.seq)

\* t is what a host writes next after r: the same program, or a later one that begins.
Follows(r, t) ==
  \/ t.session = r.session /\ t.seq = r.seq + 1
  \/ t.session > r.session /\ t.seq = 1

PiecesFor(A) == [half : {0, 1, 2}, of : A]

PiecesOf(a) ==
  <<[half |-> 1, of |-> a], [half |-> 2, of |-> a]>> \o [i \in 1 .. a.data |-> [half |-> 0, of |-> a]]

\* The last piece of an answer
Ends(p) == p.half = 0 \/ (p.half = 2 /\ p.of.data = 0)

\* n is the piece after p.
Chain(p, n) ==
  \/ p.half = 1 /\ n.half = 2 /\ n.of = p.of
  \/ p.half = 2 /\ p.of.data = 1 /\ n.half = 0 /\ n.of = p.of
  \/ Ends(p) /\ n.half = 1 /\ Follows(p.of.of, n.of.of)

\* What has been written and not been answered whole: its first and its last request
Pending(w, b)  == w # <<>> \/ b # <<>>
OldestOf(w, b) == IF w # <<>> THEN w[1].of.of ELSE b[1]
NewestOf(w, b) == IF b # <<>> THEN b[Len(b)] ELSE w[Len(w)].of.of

\* No part of the oldest answer has been read.
AlignedIn(w) == w # <<>> => w[1].half = 1

LineOk(w, b) ==
  /\ \A i \in 1 .. Len(w) - 1 : Chain(w[i], w[i + 1])
  /\ w # <<>> => Ends(w[Len(w)])
  /\ w # <<>> /\ b # <<>> => Follows(w[Len(w)].of.of, b[1])
  /\ \A i \in 1 .. Len(b) - 1 : Follows(b[i], b[i + 1])
  /\ \A i \in 1 .. Len(w) :
       Before(w[i].of.of, NewestOf(w, b)) \/ (b = <<>> /\ w[i].of = w[Len(w)].of)
  /\ \A i \in 1 .. Len(b) - 1 : Before(b[i], NewestOf(w, b))

\* Requests R and answers A with the fields the line is about
Sane(R, A) ==
  /\ \A r \in R : r.session \in Nat /\ r.seq \in Nat
  /\ \A a \in A : a.of \in R /\ a.data \in {0, 1}

LEMMA FollowsLater ==
  ASSUME NEW r, NEW t, NEW u, r.session \in Nat, r.seq \in Nat, t.session \in Nat, t.seq \in Nat,
         u.session \in Nat, Before(r, t) \/ r = t, Follows(t, u)
  PROVE  Before(r, u)
BY DEF Before, Follows

LEMMA Concatenated ==
  ASSUME NEW S, NEW s \in Seq(S), NEW t \in Seq(S), NEW u, u = s \o t
  PROVE  /\ u \in Seq(S) /\ Len(s) \in Nat /\ Len(t) \in Nat /\ Len(u) = Len(s) + Len(t)
         /\ \A i \in 1 .. Len(s) : u[i] = s[i]
         /\ \A i \in Len(s) + 1 .. Len(u) : u[i] = t[i - Len(s)]
OBVIOUS

LEMMA Joined ==
  ASSUME NEW S, NEW s \in Seq(S), NEW t \in Seq(S), NEW u, u = s \o t
  PROVE  Len(s) = 2 /\ Len(t) \in {0, 1} =>
           /\ Len(u) = 2 + Len(t) /\ u[1] = s[1] /\ u[2] = s[2]
           /\ Len(t) = 1 => u[3] = t[1]
<1>1. Len(u) = Len(s) + Len(t)
  BY Concatenated
<1>2. \A i \in 1 .. Len(s) : u[i] = s[i]
  BY Concatenated
<1>3. \A i \in Len(s) + 1 .. Len(u) : u[i] = t[i - Len(s)]
  BY Concatenated
<1>. SUFFICES ASSUME Len(s) = 2, Len(t) \in {0, 1}
              PROVE  /\ Len(u) = 2 + Len(t) /\ u[1] = s[1] /\ u[2] = s[2]
                     /\ Len(t) = 1 => u[3] = t[1]
  OBVIOUS
<1>4. Len(u) = 2 + Len(t) /\ u[1] = s[1] /\ u[2] = s[2]
  <2>1. 1 \in 1 .. Len(s) /\ 2 \in 1 .. Len(s)
    OBVIOUS
  <2>. QED
    BY <1>1, <1>2, <2>1
<1>5. ASSUME Len(t) = 1 PROVE u[3] = t[1]
  <2>1. 3 \in Len(s) + 1 .. Len(u) /\ 3 - Len(s) = 1
    BY <1>1, <1>5
  <2>. QED
    BY <1>3, <2>1
<1>. QED
  BY <1>4, <1>5

LEMMA PiecesAre ==
  ASSUME NEW A, NEW a \in A, a.data \in {0, 1}
  PROVE  /\ PiecesOf(a) \in Seq(PiecesFor(A))
         /\ Len(PiecesOf(a)) = 2 + a.data
         /\ PiecesOf(a)[1] = [half |-> 1, of |-> a] /\ PiecesOf(a)[2] = [half |-> 2, of |-> a]
         /\ a.data = 1 => PiecesOf(a)[3] = [half |-> 0, of |-> a]
<1>. DEFINE P == [half : {0, 1, 2}, of : A]
            h == <<[half |-> 1, of |-> a], [half |-> 2, of |-> a]>>
            d == [i \in 1 .. a.data |-> [half |-> 0, of |-> a]]
<1>1. h \in Seq(P) /\ Len(h) = 2 /\ h[1] = [half |-> 1, of |-> a] /\ h[2] = [half |-> 2, of |-> a]
  OBVIOUS
<1>2. d \in Seq(P) /\ Len(d) = a.data
  <2>. DEFINE e == [half |-> 0, of |-> a]
              k == a.data
  <2>1. e \in P /\ k \in {0, 1} /\ d = [i \in 1 .. k |-> e]
    OBVIOUS
  <2>. HIDE DEF e, k, d, P
  <2>2. d \in Seq(P) /\ Len(d) = k
    BY <2>1
  <2>. QED
    BY <2>2 DEF k
<1>3. a.data = 1 => d[1] = [half |-> 0, of |-> a]
  OBVIOUS
<1>4. PiecesOf(a) = h \o d
  BY DEF PiecesOf
<1>. HIDE DEF h, d, P
<1>5. PiecesOf(a) \in Seq(P)
  BY <1>1, <1>2, <1>4
<1>6. /\ Len(PiecesOf(a)) = 2 + a.data
      /\ PiecesOf(a)[1] = h[1] /\ PiecesOf(a)[2] = h[2]
      /\ a.data = 1 => PiecesOf(a)[3] = d[1]
  <2>1. Len(d) \in {0, 1} /\ Len(h) = 2 /\ h \in Seq(P) /\ d \in Seq(P)
    BY <1>1, <1>2
  <2>2. /\ Len(PiecesOf(a)) = 2 + Len(d)
        /\ PiecesOf(a)[1] = h[1] /\ PiecesOf(a)[2] = h[2]
        /\ Len(d) = 1 => PiecesOf(a)[3] = d[1]
    BY <1>4, <2>1, Joined
  <2>. QED
    BY <1>2, <2>2
<1>. QED
  BY <1>1, <1>3, <1>5, <1>6 DEF P, PiecesFor

LEMMA Nonempty ==
  ASSUME NEW S, NEW s \in Seq(S)
  PROVE  /\ Len(s) \in Nat
         /\ Len(s) # 0 => s # <<>>
         /\ s # <<>> => Len(s) # 0 /\ 1 \in 1 .. Len(s) /\ Len(s) \in 1 .. Len(s) /\ s[1] \in S /\ s[Len(s)] \in S
         /\ s = <<>> => Len(s) = 0
OBVIOUS

LEMMA TwoLong == ASSUME NEW n \in Nat, n # 0, n # 1 PROVE 1 \in 1 .. n - 1 /\ 2 \in 1 .. n
OBVIOUS

LEMMA FirstTwo == ASSUME NEW n \in Nat, n # 0, n # 1 PROVE 1 \in 0 .. n /\ 2 \in 0 .. n /\ 0 \in 0 .. n
OBVIOUS

\* The oldest request is older than the newest, or it is the newest.
LEMMA OrNewest ==
  ASSUME NEW R, NEW A, Sane(R, A), NEW w \in Seq(PiecesFor(A)), NEW b \in Seq(R),
         LineOk(w, b), Pending(w, b)
  PROVE  /\ OldestOf(w, b) \in R /\ NewestOf(w, b) \in R
         /\ Before(OldestOf(w, b), NewestOf(w, b)) \/ OldestOf(w, b) = NewestOf(w, b)
         /\ OldestOf(w, b) = NewestOf(w, b) => w = <<>> \/ b = <<>>
<1>1. CASE w # <<>>
  <2>1. 1 \in 1 .. Len(w) /\ Len(w) \in 1 .. Len(w) /\ w[1] \in PiecesFor(A) /\ w[Len(w)] \in PiecesFor(A)
    BY <1>1
  <2>2. w[1].of \in A /\ w[Len(w)].of \in A
    BY <2>1 DEF PiecesFor
  <2>3. Before(w[1].of.of, NewestOf(w, b)) \/ (b = <<>> /\ w[1].of = w[Len(w)].of)
    BY <2>1 DEF LineOk
  <2>4. OldestOf(w, b) = w[1].of.of /\ (b = <<>> => NewestOf(w, b) = w[Len(w)].of.of)
    BY <1>1 DEF OldestOf, NewestOf
  <2>5. b # <<>> => NewestOf(w, b) = b[Len(b)] /\ b[Len(b)] \in R
    BY DEF NewestOf
  <2>6. OldestOf(w, b) \in R /\ NewestOf(w, b) \in R
    BY <2>2, <2>4, <2>5 DEF Sane
  <2>. QED
    BY <2>3, <2>4, <2>6 DEF Before, Sane
<1>2. CASE w = <<>>
  <2>1. b # <<>> /\ Len(b) \in Nat /\ Len(b) # 0 /\ b[1] \in R /\ b[Len(b)] \in R
    BY <1>2 DEF Pending
  <2>2. OldestOf(w, b) = b[1] /\ NewestOf(w, b) = b[Len(b)]
    BY <1>2, <2>1 DEF OldestOf, NewestOf
  <2>3. Len(b) # 1 => Before(b[1], NewestOf(w, b))
    <3>1. Len(b) # 1 => 1 \in 1 .. Len(b) - 1
      BY <2>1, TwoLong
    <3>. QED
      BY <3>1 DEF LineOk
  <2>. QED
    BY <1>2, <2>1, <2>2, <2>3
<1>. QED
  BY <1>1, <1>2

\* What is left of a sequence when its first n elements are taken
Dropped(r, s, n) == r = SubSeq(s, n + 1, Len(s))

LEMMA Ranges ==
  ASSUME NEW m \in Nat, NEW n \in 0 .. m, NEW k, k = m - n
  PROVE  /\ n \in Nat /\ k \in Nat
         /\ \A i \in 1 .. k : i + n \in 1 .. m /\ (i + 1) + n = (i + n) + 1
         /\ \A i \in 1 .. k - 1 : i \in 1 .. k /\ i + 1 \in 1 .. k /\ i + n \in 1 .. m - 1
         /\ n = m <=> k = 0
         /\ n # m => 1 \in 1 .. k /\ k \in 1 .. k /\ 1 + n = n + 1 /\ k + n = m /\ m # 0 /\ n + 1 \in 1 .. m
         /\ n # m /\ n # 0 => n \in 1 .. m - 1
OBVIOUS

LEMMA Early ==
  ASSUME NEW m \in Nat, NEW i \in Nat \ {0}, i < m
  PROVE  i \in 1 .. m - 1 /\ i \in 1 .. m /\ i + 1 \in 1 .. m
OBVIOUS

LEMMA Beyond ==
  ASSUME NEW m \in Nat, NEW k \in Nat, NEW i \in 1 .. m + k
  PROVE  i \in 1 .. m \/ (i \in m + 1 .. m + k /\ i - m \in 1 .. k)
OBVIOUS

LEMMA Rest ==
  ASSUME NEW S, NEW s \in Seq(S), NEW n \in 0 .. Len(s), NEW r, Dropped(r, s, n)
  PROVE  /\ Len(s) \in Nat /\ n \in Nat /\ r \in Seq(S) /\ Len(r) = Len(s) - n
         /\ \A i \in 1 .. Len(r) : i + n \in 1 .. Len(s) /\ r[i] = s[i + n]
         /\ n # Len(s) => r # <<>> /\ s # <<>> /\ r[1] = s[n + 1] /\ r[Len(r)] = s[Len(s)]
         /\ n = Len(s) => r = <<>>
<1>1. Len(s) \in Nat
  OBVIOUS
<1>2. r \in Seq(S) /\ Len(r) = Len(s) - n /\ \A i \in 1 .. Len(s) - n : r[i] = s[i + n]
  BY DEF Dropped
<1>3. \A i \in 1 .. Len(r) : i + n \in 1 .. Len(s) /\ r[i] = s[i + n]
  BY <1>1, <1>2, Ranges
<1>4. ASSUME n # Len(s) PROVE r # <<>> /\ s # <<>> /\ r[1] = s[n + 1] /\ r[Len(r)] = s[Len(s)]
  <2>1. 1 \in 1 .. Len(r) /\ Len(r) \in 1 .. Len(r) /\ 1 + n = n + 1 /\ Len(r) + n = Len(s)
        /\ Len(r) # 0 /\ Len(s) # 0
    <3>. DEFINE m == Len(s)
                k == Len(r)
    <3>1. m \in Nat /\ n \in 0 .. m /\ k = m - n /\ n # m
      BY <1>1, <1>2, <1>4
    <3>. HIDE DEF m, k
    <3>2. 1 \in 1 .. k /\ k \in 1 .. k /\ 1 + n = n + 1 /\ k + n = m /\ k # 0 /\ m # 0
      BY <3>1
    <3>. QED
      BY <3>2 DEF m, k
  <2>2. r # <<>> /\ s # <<>>
    BY <2>1, Nonempty
  <2>3. r[1] = s[1 + n] /\ r[Len(r)] = s[Len(r) + n]
    BY <1>3, <2>1
  <2>. QED
    BY <2>1, <2>2, <2>3
<1>5. n = Len(s) => r = <<>>
  <2>1. n = Len(s) => Len(r) = 0
    BY <1>1, <1>2, Ranges
  <2>. QED
    BY <1>2, <2>1, Nonempty
<1>. QED
  BY <1>1, <1>2, <1>3, <1>4, <1>5, Ranges

LEMMA NoneDropped ==
  ASSUME NEW S, NEW s \in Seq(S), NEW r, Dropped(r, s, 0)
  PROVE  r = s
<1>1. 0 \in 0 .. Len(s)
  OBVIOUS
<1>2. r \in Seq(S) /\ Len(r) = Len(s) - 0 /\ \A i \in 1 .. Len(r) : r[i] = s[i + 0]
  BY <1>1, Rest
<1>3. Len(r) = Len(s) /\ \A i \in 1 .. Len(r) : r[i] = s[i]
  BY <1>2
<1>. QED
  BY <1>2, <1>3

\* The host reads pieces from the front.
LEMMA LineTake ==
  ASSUME NEW R, NEW A, Sane(R, A), NEW w \in Seq(PiecesFor(A)), NEW b \in Seq(R), LineOk(w, b),
         NEW n \in 0 .. Len(w), NEW v, Dropped(v, w, n)
  PROVE  /\ v \in Seq(PiecesFor(A)) /\ LineOk(v, b)
         /\ Pending(v, b) => Pending(w, b) /\ NewestOf(v, b) = NewestOf(w, b)
<1>1. /\ Len(w) \in Nat /\ n \in Nat /\ v \in Seq(PiecesFor(A)) /\ Len(v) = Len(w) - n
      /\ \A i \in 1 .. Len(v) : i + n \in 1 .. Len(w) /\ v[i] = w[i + n]
  BY Rest
<1>2. v # <<>> => w # <<>> /\ v[Len(v)] = w[Len(w)]
  <2>1. v # <<>> => n # Len(w)
    BY Rest
  <2>. QED
    BY <2>1, Rest
<1>3. Pending(v, b) => Pending(w, b) /\ NewestOf(v, b) = NewestOf(w, b)
  BY <1>2 DEF Pending, NewestOf
<1>4. \A i \in 1 .. Len(v) - 1 : Chain(v[i], v[i + 1])
  <2>. TAKE i \in 1 .. Len(v) - 1
  <2>1. /\ i + n \in 1 .. Len(w) - 1 /\ i \in 1 .. Len(v) /\ i + 1 \in 1 .. Len(v)
        /\ (i + 1) + n = (i + n) + 1
    <3>. DEFINE p == Len(w)
                q == Len(v)
    <3>1. p \in Nat /\ n \in 0 .. p /\ q = p - n /\ i \in 1 .. q - 1
      BY <1>1
    <3>. HIDE DEF p, q
    <3>2. i \in 1 .. q /\ i + 1 \in 1 .. q /\ i + n \in 1 .. p - 1 /\ (i + 1) + n = (i + n) + 1
      BY <3>1, Ranges
    <3>. QED
      BY <3>2, Zenon DEF p, q
  <2>2. v[i] = w[i + n] /\ v[i + 1] = w[(i + n) + 1]
    <3>1. \A j \in 1 .. Len(v) : v[j] = w[j + n]
      BY <1>1
    <3>2. v[i] = w[i + n] /\ v[i + 1] = w[(i + 1) + n]
      BY <2>1, <3>1, Zenon
    <3>. DEFINE x == (i + 1) + n
                y == (i + n) + 1
    <3>3. x = y /\ v[i + 1] = w[x]
      BY <2>1, <3>2, Zenon
    <3>. HIDE DEF x, y
    <3>4. v[i + 1] = w[y]
      BY <3>3
    <3>. QED
      BY <3>2, <3>4 DEF y
  <2>. QED
    BY <2>1, <2>2 DEF LineOk
<1>5. \A i \in 1 .. Len(v) :
        Before(v[i].of.of, NewestOf(v, b)) \/ (b = <<>> /\ v[i].of = v[Len(v)].of)
  <2>. TAKE i \in 1 .. Len(v)
  <2>1. i + n \in 1 .. Len(w) /\ v[i] = w[i + n]
    BY <1>1
  <2>2. v # <<>>
    <3>1. Len(v) # 0
      BY <1>1
    <3>. QED
      BY <1>1, <3>1, Nonempty
  <2>3. Pending(v, b) /\ v[Len(v)] = w[Len(w)]
    BY <1>2, <2>2 DEF Pending
  <2>. QED
    BY <1>3, <2>1, <2>3 DEF LineOk
<1>6. \A i \in 1 .. Len(b) - 1 : Before(b[i], NewestOf(v, b))
  <2>1. b # <<>> => Pending(v, b)
    BY DEF Pending
  <2>2. b = <<>> => 1 .. Len(b) - 1 = {}
    OBVIOUS
  <2>. QED
    BY <1>3, <2>1, <2>2 DEF LineOk
<1>7. LineOk(v, b)
  BY <1>2, <1>4, <1>5, <1>6 DEF LineOk
<1>. QED
  BY <1>1, <1>3, <1>7

\* Behind the last piece of the oldest answer comes what was asked next, if anything was.
LEMMA LineNext ==
  ASSUME NEW R, NEW A, Sane(R, A), NEW w \in Seq(PiecesFor(A)), NEW b \in Seq(R), LineOk(w, b),
         NEW n \in 1 .. Len(w), NEW v, Dropped(v, w, n),
         Ends(w[n]), w[n].of.of = OldestOf(w, b)
  PROVE  /\ Pending(v, b) <=> Before(OldestOf(w, b), NewestOf(w, b))
         /\ Pending(v, b) => AlignedIn(v) /\ Follows(OldestOf(w, b), OldestOf(v, b))
<1>0. n \in 0 .. Len(w) /\ n # 0 /\ Len(w) \in Nat
  OBVIOUS
<1>1. /\ v \in Seq(PiecesFor(A)) /\ LineOk(v, b)
      /\ Pending(v, b) => NewestOf(v, b) = NewestOf(w, b)
  BY <1>0, LineTake
<1>2. Len(w) \in Nat \ {0} /\ w # <<>> /\ Pending(w, b)
  BY Nonempty DEF Pending
<1>r. /\ n # Len(w) => v[1] = w[n + 1] /\ v # <<>>
      /\ n = Len(w) => v = <<>>
  BY <1>0, Rest
<1>3. Pending(v, b) => AlignedIn(v) /\ Follows(OldestOf(w, b), OldestOf(v, b))
  <2>1. CASE v # <<>>
    <3>1. n \in 1 .. Len(w) - 1 /\ v[1] = w[n + 1]
      BY <1>0, <1>r, <2>1, Ranges
    <3>2. Chain(w[n], w[n + 1])
      BY <3>1 DEF LineOk
    <3>3. w[n].of.data \in {0, 1}
      <4>1. w[n] \in PiecesFor(A)
        OBVIOUS
      <4>. QED
        BY <4>1 DEF PiecesFor, Sane
    <3>4. w[n + 1].half = 1 /\ Follows(w[n].of.of, w[n + 1].of.of)
      BY <3>2, <3>3 DEF Chain, Ends
    <3>. QED
      BY <2>1, <3>1, <3>4 DEF AlignedIn, OldestOf
  <2>2. CASE v = <<>> /\ b # <<>>
    <3>1. n = Len(w)
      BY <1>r, <2>2
    <3>2. Follows(w[n].of.of, b[1])
      BY <1>2, <2>2, <3>1 DEF LineOk
    <3>. QED
      BY <2>2, <3>2 DEF AlignedIn, OldestOf
  <2>. QED
    BY <2>1, <2>2 DEF Pending
<1>4. Before(OldestOf(w, b), NewestOf(w, b)) => Pending(v, b)
  <2>. SUFFICES ASSUME ~Pending(v, b) PROVE ~Before(OldestOf(w, b), NewestOf(w, b))
    OBVIOUS
  <2>1. b = <<>> /\ v = <<>>
    BY DEF Pending
  <2>2. n = Len(w)
    BY <1>r, <2>1
  <2>3. NewestOf(w, b) = OldestOf(w, b) /\ OldestOf(w, b) \in R
    BY <1>2, <2>1, <2>2, OrNewest DEF NewestOf
  <2>. QED
    BY <2>3 DEF Before, Sane
<1>5. Pending(v, b) => Before(OldestOf(w, b), NewestOf(w, b))
  <2>. SUFFICES ASSUME Pending(v, b) PROVE Before(OldestOf(w, b), NewestOf(w, b))
    OBVIOUS
  <2>1. /\ OldestOf(v, b) \in R /\ NewestOf(v, b) \in R
        /\ Before(OldestOf(v, b), NewestOf(v, b)) \/ OldestOf(v, b) = NewestOf(v, b)
    BY <1>1, OrNewest
  <2>2. /\ Follows(OldestOf(w, b), OldestOf(v, b)) /\ NewestOf(v, b) = NewestOf(w, b)
        /\ OldestOf(w, b) \in R
    BY <1>1, <1>2, <1>3, OrNewest
  <2>. QED
    BY <2>1, <2>2 DEF Before, Follows, Sane
<1>. QED
  BY <1>3, <1>4, <1>5

\* An answer goes on behind a piece that does not end it.
LEMMA LineInside ==
  ASSUME NEW R, NEW A, Sane(R, A), NEW w \in Seq(PiecesFor(A)), NEW b, LineOk(w, b),
         NEW n \in 1 .. Len(w), ~Ends(w[n])
  PROVE  /\ n # Len(w) /\ n + 1 \in 1 .. Len(w) /\ Chain(w[n], w[n + 1])
         /\ w[n + 1].of = w[n].of
<1>1. n # Len(w)
  BY Nonempty DEF LineOk
<1>2. n \in 1 .. Len(w) - 1 /\ n + 1 \in 1 .. Len(w)
  BY <1>1
<1>3. Chain(w[n], w[n + 1])
  BY <1>2 DEF LineOk
<1>. QED
  BY <1>1, <1>2, <1>3 DEF Chain

\* A read that ends within the oldest answer leaves it the oldest.
LEMMA LineWithin ==
  ASSUME NEW R, NEW A, Sane(R, A), NEW w \in Seq(PiecesFor(A)), NEW b \in Seq(R), LineOk(w, b),
         NEW n \in 1 .. Len(w), NEW v, Dropped(v, w, n),
         ~Ends(w[n]), w[n].of.of = OldestOf(w, b)
  PROVE  v # <<>> /\ v[1] = w[n + 1] /\ OldestOf(v, b) = OldestOf(w, b)
<1>1. n \in 0 .. Len(w) /\ n # Len(w)
  BY LineInside
<1>2. v[1] = w[n + 1] /\ v # <<>>
  BY <1>1, Rest
<1>3. w[n + 1].of = w[n].of
  BY LineInside
<1>. QED
  BY <1>2, <1>3 DEF OldestOf

\* A header of the oldest answer that is read ends it or leaves its payload at the front.
LEMMA LineHeader ==
  ASSUME NEW R, NEW A, Sane(R, A), NEW w \in Seq(PiecesFor(A)), NEW b \in Seq(R), LineOk(w, b),
         w # <<>>, AlignedIn(w)
  PROVE  /\ 2 \in 1 .. Len(w) /\ w[2].half = 2 /\ w[2].of = w[1].of
         /\ w[1].of.of = OldestOf(w, b) /\ w[2].of.of = OldestOf(w, b) /\ w[1].of \in A
         /\ Ends(w[2]) <=> w[1].of.data = 0
<1>1. 1 \in 1 .. Len(w) /\ w[1] \in PiecesFor(A) /\ w[1].half = 1
  BY DEF AlignedIn
<1>2. w[1].of.of = OldestOf(w, b) /\ w[1].of \in A
  BY <1>1 DEF OldestOf, PiecesFor
<1>3. ~Ends(w[1])
  BY <1>1 DEF Ends
<1>4. 1 + 1 \in 1 .. Len(w) /\ Chain(w[1], w[1 + 1])
  BY <1>1, <1>3, LineInside
<1>5. w[2].half = 2 /\ w[2].of = w[1].of
  BY <1>1, <1>4 DEF Chain, Ends
<1>. QED
  BY <1>2, <1>4, <1>5 DEF Ends

LEMMA RestOfRest ==
  ASSUME NEW S, NEW s \in Seq(S), NEW u, Dropped(u, s, 1), NEW v, Dropped(v, s, 2), Len(s) # 0, Len(s) # 1
  PROVE  Dropped(v, u, 1)
<1>. DEFINE m == Len(s)
<1>1. m \in Nat
  OBVIOUS
<1>2. 1 \in 0 .. m /\ 2 \in 0 .. m
  BY <1>1, FirstTwo
<1>3. /\ u \in Seq(S) /\ Len(u) = m - 1
      /\ \A i \in 1 .. Len(u) : u[i] = s[i + 1]
  BY <1>2, Rest
<1>4. /\ v \in Seq(S) /\ Len(v) = m - 2
      /\ \A i \in 1 .. Len(v) : v[i] = s[i + 2]
  BY <1>2, Rest
<1>. DEFINE x == SubSeq(u, 1 + 1, Len(u))
<1>5. 1 \in 0 .. Len(u) /\ Dropped(x, u, 1)
  <2>1. 1 \in 0 .. Len(u)
    <3>. HIDE DEF m
    <3>. QED
      BY <1>1, <1>2, <1>3
  <2>. QED
    BY <2>1 DEF Dropped
<1>. HIDE DEF x, m
<1>6. /\ x \in Seq(S) /\ Len(x) = Len(u) - 1
      /\ \A i \in 1 .. Len(x) : i + 1 \in 1 .. Len(u) /\ x[i] = u[i + 1]
  BY <1>3, <1>5, Rest
<1>7. Len(x) = Len(v) /\ Len(v) \in Nat
  BY <1>1, <1>2, <1>3, <1>4, <1>6
<1>8. ASSUME NEW i \in 1 .. Len(v) PROVE v[i] = x[i]
  <2>1. i \in 1 .. Len(x)
    BY <1>7
  <2>2. x[i] = u[i + 1] /\ u[i + 1] = s[(i + 1) + 1] /\ v[i] = s[i + 2]
    BY <1>3, <1>4, <1>6, <2>1
  <2>3. (i + 1) + 1 = i + 2
    BY <1>7
  <2>. QED
    BY <2>2, <2>3
<1>9. v = x
  BY <1>4, <1>6, <1>7, <1>8
<1>. QED
  BY <1>9 DEF x, Dropped

\* A read of at most two pieces goes at most one answer on.
LEMMA LineTwo ==
  ASSUME NEW R, NEW A, Sane(R, A), NEW w \in Seq(PiecesFor(A)), NEW b \in Seq(R), LineOk(w, b),
         Pending(w, b), NEW n \in 0 .. Len(w), n <= 2, NEW v, Dropped(v, w, n),
         OldestOf(w, b) # NewestOf(w, b)
  PROVE  /\ Pending(v, b)
         /\ OldestOf(v, b) = OldestOf(w, b) \/ Follows(OldestOf(w, b), OldestOf(v, b))
<1>0. Before(OldestOf(w, b), NewestOf(w, b))
  BY OrNewest
<1>1. CASE n = 0
  BY <1>1, NoneDropped
<1>2. CASE n # 0
  <2>1. w # <<>> /\ 1 \in 1 .. Len(w) /\ w[1] \in PiecesFor(A) /\ w[1].of.of = OldestOf(w, b)
    BY <1>2 DEF OldestOf
  <2>2. CASE n = 1 /\ Ends(w[1])
    BY <1>0, <2>1, <2>2, LineNext
  <2>3. CASE n = 1 /\ ~Ends(w[1])
    BY <2>1, <2>3, LineWithin DEF Pending
  <2>4. CASE n = 2 /\ ~Ends(w[1])
    <3>1. 2 \in 1 .. Len(w) /\ w[2].of.of = OldestOf(w, b)
      <4>1. 1 + 1 \in 1 .. Len(w) /\ w[1 + 1].of = w[1].of
        BY <2>1, <2>4, LineInside
      <4>. QED
        BY <2>1, <4>1
    <3>2. CASE Ends(w[2])
      BY <1>0, <2>4, <3>1, <3>2, LineNext
    <3>3. CASE ~Ends(w[2])
      BY <2>4, <3>1, <3>3, LineWithin DEF Pending
    <3>. QED
      BY <3>2, <3>3
  <2>5. CASE n = 2 /\ Ends(w[1])
    <3>. DEFINE u == SubSeq(w, 1 + 1, Len(w))
    <3>1. Dropped(u, w, 1)
      BY DEF Dropped
    <3>. HIDE DEF u
    <3>2. 1 \in 0 .. Len(w) /\ Len(w) # 0 /\ Len(w) # 1
      <4>. DEFINE m == Len(w)
      <4>1. m \in Nat /\ 2 \in 0 .. m
        BY <2>5
      <4>. HIDE DEF m
      <4>2. 1 \in 0 .. m /\ m # 0 /\ m # 1
        BY <4>1
      <4>. QED
        BY <4>2 DEF m
    <3>3. u \in Seq(PiecesFor(A)) /\ LineOk(u, b)
      BY <3>1, <3>2, LineTake
    <3>4. Pending(u, b) /\ AlignedIn(u) /\ Follows(OldestOf(w, b), OldestOf(u, b))
      BY <1>0, <2>1, <2>5, <3>1, LineNext
    <3>5. u # <<>> /\ Dropped(v, u, 1)
      BY <2>5, <3>1, <3>2, Rest, RestOfRest
    <3>6. ~Ends(u[1]) /\ u[1].of.of = OldestOf(u, b) /\ 1 \in 1 .. Len(u)
      BY <3>3, <3>4, <3>5, Nonempty DEF Ends, OldestOf, AlignedIn
    <3>7. v # <<>> /\ OldestOf(v, b) = OldestOf(u, b)
      BY <3>3, <3>5, <3>6, LineWithin
    <3>. QED
      BY <3>4, <3>7 DEF Pending
  <2>. QED
    BY <1>2, <2>2, <2>3, <2>4, <2>5
<1>. QED
  BY <1>1, <1>2

\* The host writes a request.
Queued(d, b, r) == d = Append(b, r)

LEMMA Appended ==
  ASSUME NEW S, NEW s \in Seq(S), NEW e \in S, NEW u, u = Append(s, e)
  PROVE  /\ Len(s) \in Nat /\ u \in Seq(S) /\ Len(u) = Len(s) + 1 /\ u[Len(s) + 1] = e
         /\ \A i \in 1 .. Len(s) : u[i] = s[i]
OBVIOUS
WrittenEnds(d, w, b, r) ==
  /\ NewestOf(w, d) = r
  /\ OldestOf(w, d) = IF Pending(w, b) THEN OldestOf(w, b) ELSE r

LEMMA LineWrite ==
  ASSUME NEW R, NEW A, Sane(R, A), NEW w \in Seq(PiecesFor(A)), NEW b \in Seq(R), LineOk(w, b),
         NEW r \in R, Pending(w, b) => Follows(NewestOf(w, b), r), NEW d, Queued(d, b, r)
  PROVE  d \in Seq(R) /\ LineOk(w, d) /\ Pending(w, d) /\ WrittenEnds(d, w, b, r)
<1>1. /\ d \in Seq(R) /\ d # <<>> /\ Len(b) \in Nat /\ Len(d) = Len(b) + 1 /\ d[Len(d)] = r
      /\ \A i \in 1 .. Len(b) : d[i] = b[i]
      /\ b # <<>> => Len(b) \in 1 .. Len(b) /\ 1 \in 1 .. Len(b)
      /\ b = <<>> => d[1] = r /\ Len(b) = 0
  BY DEF Queued
<1>2. NewestOf(w, d) = r /\ Pending(w, d)
  BY <1>1 DEF NewestOf, Pending
<1>3. OldestOf(w, d) = IF Pending(w, b) THEN OldestOf(w, b) ELSE r
  BY <1>1 DEF OldestOf, Pending
<1>4. Pending(w, b) => NewestOf(w, b) \in R /\ Before(NewestOf(w, b), r)
  BY OrNewest DEF Before, Follows, Sane
<1>5. w # <<>> => Follows(w[Len(w)].of.of, d[1])
  <2>1. CASE b = <<>>
    BY <1>1, <2>1 DEF Pending, NewestOf
  <2>2. CASE b # <<>>
    BY <1>1, <2>2 DEF LineOk
  <2>. QED
    BY <2>1, <2>2
<1>6. \A i \in 1 .. Len(d) - 1 : Follows(d[i], d[i + 1])
  <2>. TAKE i \in 1 .. Len(d) - 1
  <2>1. CASE i = Len(b)
    <3>1. b # <<>> /\ d[i] = b[Len(b)] /\ d[i + 1] = r
      BY <1>1, <2>1
    <3>. QED
      BY <3>1 DEF Pending, NewestOf
  <2>2. CASE i # Len(b)
    <3>1. i \in 1 .. Len(b) - 1 /\ i + 1 \in 1 .. Len(b) /\ d[i] = b[i] /\ d[i + 1] = b[i + 1]
      BY <1>1, <2>2
    <3>. QED
      BY <3>1 DEF LineOk
  <2>. QED
    BY <2>1, <2>2
<1>7. \A i \in 1 .. Len(w) : Before(w[i].of.of, r)
  <2>. TAKE i \in 1 .. Len(w)
  <2>1. w # <<>> /\ Pending(w, b) /\ w[i] \in PiecesFor(A)
    BY DEF Pending
  <2>2. w[i].of.of \in R
    BY <2>1 DEF PiecesFor, Sane
  <2>3. Before(w[i].of.of, NewestOf(w, b)) \/ w[i].of.of = NewestOf(w, b)
    <3>1. Before(w[i].of.of, NewestOf(w, b)) \/ (b = <<>> /\ w[i].of = w[Len(w)].of)
      BY DEF LineOk
    <3>. QED
      BY <3>1 DEF NewestOf
  <2>. QED
    BY <1>4, <2>1, <2>2, <2>3 DEF Before, Sane
<1>8. \A i \in 1 .. Len(d) - 1 : Before(d[i], r)
  <2>. TAKE i \in 1 .. Len(d) - 1
  <2>1. i \in 1 .. Len(b) /\ d[i] = b[i] /\ b # <<>> /\ Pending(w, b) /\ b[i] \in R
    BY <1>1 DEF Pending
  <2>2. Before(b[i], NewestOf(w, b)) \/ b[i] = NewestOf(w, b)
    <3>1. i # Len(b) => i \in 1 .. Len(b) - 1
      BY <2>1
    <3>. QED
      BY <2>1, <3>1 DEF LineOk, NewestOf
  <2>. QED
    BY <1>4, <2>1, <2>2 DEF Before, Sane
<1>9. LineOk(w, d)
  BY <1>1, <1>2, <1>5, <1>6, <1>7, <1>8 DEF LineOk
<1>. QED
  BY <1>1, <1>2, <1>3, <1>9 DEF WrittenEnds

\* The firmware takes the oldest request it has and answers it.
SameEnds(v, d, w, b) == NewestOf(v, d) = NewestOf(w, b) /\ OldestOf(v, d) = OldestOf(w, b)
Answered(v, d, w, b, a) == v = w \o PiecesOf(a) /\ d = Tail(b)

LEMMA LineServe ==
  ASSUME NEW R, NEW A, Sane(R, A), NEW w \in Seq(PiecesFor(A)), NEW b \in Seq(R), LineOk(w, b),
         b # <<>>, NEW a \in A, a.of = b[1], NEW v, NEW d, Answered(v, d, w, b, a)
  PROVE  /\ v \in Seq(PiecesFor(A)) /\ d \in Seq(R) /\ LineOk(v, d)
         /\ Pending(v, d) /\ Pending(w, b)
         /\ SameEnds(v, d, w, b)
         /\ v # <<>> /\ v[1] = IF w # <<>> THEN w[1] ELSE [half |-> 1, of |-> a]
         /\ \A i \in 1 .. Len(v) : v[i].of = a \/ (i \in 1 .. Len(w) /\ v[i] = w[i])
<1>. DEFINE p == PiecesOf(a)
<1>1. /\ p \in Seq(PiecesFor(A)) /\ Len(p) = 2 + a.data /\ a.data \in {0, 1}
      /\ p[1] = [half |-> 1, of |-> a] /\ p[2] = [half |-> 2, of |-> a]
      /\ a.data = 1 => p[3] = [half |-> 0, of |-> a]
  BY PiecesAre DEF Sane
<1>. HIDE DEF p
<1>2. /\ v \in Seq(PiecesFor(A)) /\ Len(w) \in Nat /\ Len(v) = Len(w) + Len(p) /\ v # <<>>
      /\ \A i \in 1 .. Len(w) : v[i] = w[i]
      /\ \A i \in Len(w) + 1 .. Len(v) : v[i] = p[i - Len(w)]
  BY <1>1 DEF p, Answered
<1>3. /\ d \in Seq(R) /\ Len(b) \in Nat \ {0} /\ Len(d) = Len(b) - 1
      /\ \A i \in 1 .. Len(d) : d[i] = b[i + 1]
      /\ d = <<>> => Len(b) = 1
      /\ d # <<>> => Len(b) > 1 /\ d[Len(d)] = b[Len(b)] /\ d[1] = b[2]
  <2>1. /\ d \in Seq(R) /\ Len(b) \in Nat \ {0} /\ Len(d) = Len(b) - 1
        /\ \A i \in 1 .. Len(d) : d[i] = b[i + 1]
    BY DEF Answered
  <2>2. d = <<>> => Len(b) = 1
    <3>1. d = <<>> => Len(d) = 0
      BY <2>1, Nonempty
    <3>. QED
      BY <2>1, <3>1
  <2>3. ASSUME d # <<>> PROVE Len(b) > 1 /\ d[Len(d)] = b[Len(b)] /\ d[1] = b[2]
    <3>1. /\ 1 \in 1 .. Len(d) /\ Len(d) \in 1 .. Len(d) /\ 1 + 1 = 2 /\ Len(d) + 1 = Len(b)
          /\ Len(b) > 1
      BY <2>1, <2>3, Nonempty
    <3>. QED
      BY <2>1, <3>1
  <2>. QED
    BY <2>1, <2>2, <2>3
<1>4. \A i \in 1 .. Len(p) : p[i].of = a
  BY <1>1
<1>5. \A i \in 1 .. Len(v) : (i \in 1 .. Len(w) /\ v[i] = w[i])
                             \/ (i - Len(w) \in 1 .. Len(p) /\ v[i] = p[i - Len(w)] /\ v[i].of = a)
  <2>. TAKE i \in 1 .. Len(v)
  <2>1. i \in 1 .. Len(w) \/ (i \in Len(w) + 1 .. Len(v) /\ i - Len(w) \in 1 .. Len(p))
    <3>. DEFINE m == Len(w)
                k == Len(p)
    <3>1. m \in Nat /\ k \in Nat /\ Len(v) = m + k /\ i \in 1 .. m + k
      BY <1>1, <1>2
    <3>. HIDE DEF m, k
    <3>2. i \in 1 .. m \/ (i \in m + 1 .. m + k /\ i - m \in 1 .. k)
      BY <3>1, Beyond
    <3>. QED
      BY <3>1, <3>2 DEF m, k
  <2>2. CASE i \in 1 .. Len(w)
    BY <1>2, <2>2
  <2>3. CASE i \in Len(w) + 1 .. Len(v) /\ i - Len(w) \in 1 .. Len(p)
    BY <1>2, <1>4, <2>3
  <2>. QED
    BY <2>1, <2>2, <2>3
<1>6. v[Len(v)] = p[Len(p)] /\ v[Len(v)].of = a /\ Ends(v[Len(v)])
  <2>1. Len(p) \in 1 .. Len(p) /\ Len(v) \in Len(w) + 1 .. Len(v) /\ Len(v) - Len(w) = Len(p)
    <3>. DEFINE k == a.data
    <3>1. k \in {0, 1} /\ Len(p) = 2 + k
      BY <1>1
    <3>. HIDE DEF k
    <3>. QED
      BY <1>2, <3>1
  <2>2. Ends(p[Len(p)])
    BY <1>1 DEF Ends
  <2>3. v[Len(v)] = p[Len(p)]
    BY <1>2, <2>1
  <2>. QED
    BY <1>4, <2>1, <2>2, <2>3
<1>7. NewestOf(v, d) = NewestOf(w, b)
  BY <1>3, <1>6 DEF NewestOf
<1>8. v[1] = IF w # <<>> THEN w[1] ELSE [half |-> 1, of |-> a]
  <2>1. w # <<>> => 1 \in 1 .. Len(w)
    OBVIOUS
  <2>2. w = <<>> => 1 \in Len(w) + 1 .. Len(v) /\ 1 - Len(w) = 1
    BY <1>1, <1>2
  <2>. QED
    BY <1>1, <1>2, <2>1, <2>2
<1>9. OldestOf(v, d) = OldestOf(w, b)
  BY <1>2, <1>8 DEF OldestOf
<1>p. Len(p) \in Nat \ {0, 1}
  <2>. DEFINE k == a.data
  <2>1. k \in {0, 1} /\ Len(p) = 2 + k
    BY <1>1
  <2>. HIDE DEF k
  <2>. QED
    BY <2>1
<1>c. \A j \in 1 .. Len(p) - 1 : Chain(p[j], p[j + 1])
  <2>. TAKE j \in 1 .. Len(p) - 1
  <2>1. j = 1 \/ (j = 2 /\ a.data = 1)
    BY <1>1
  <2>2. Chain(p[1], p[1 + 1])
    BY <1>1 DEF Chain
  <2>3. a.data = 1 => Chain(p[2], p[2 + 1])
    BY <1>1 DEF Chain
  <2>. QED
    BY <2>1, <2>2, <2>3
<1>10. \A i \in 1 .. Len(v) - 1 : Chain(v[i], v[i + 1])
  <2>. TAKE i \in 1 .. Len(v) - 1
  <2>1. CASE i < Len(w)
    <3>1. i \in 1 .. Len(w) - 1 /\ i \in 1 .. Len(w) /\ i + 1 \in 1 .. Len(w)
      <4>1. i \in Nat \ {0} /\ Len(w) \in Nat
        BY <1>2
      <4>. QED
        BY <2>1, <4>1, Early
    <3>2. v[i] = w[i] /\ v[i + 1] = w[i + 1]
      BY <1>2, <3>1
    <3>. QED
      BY <3>1, <3>2 DEF LineOk
  <2>2. CASE i = Len(w)
    <3>1. w # <<>> /\ v[i] = w[Len(w)] /\ v[i + 1] = p[1]
      <4>1. i \in 1 .. Len(w) /\ i + 1 \in Len(w) + 1 .. Len(v) /\ (i + 1) - Len(w) = 1
        BY <1>1, <1>2, <2>2
      <4>2. w # <<>>
        BY <4>1, Nonempty
      <4>3. v[i] = w[i] /\ v[i + 1] = p[(i + 1) - Len(w)]
        BY <1>2, <4>1
      <4>. QED
        BY <2>2, <4>1, <4>2, <4>3
    <3>2. Ends(w[Len(w)]) /\ Follows(w[Len(w)].of.of, b[1])
      BY <3>1 DEF LineOk
    <3>. QED
      BY <1>1, <3>1, <3>2 DEF Chain
  <2>3. CASE i > Len(w)
    <3>1. /\ i \in Len(w) + 1 .. Len(v) /\ i + 1 \in Len(w) + 1 .. Len(v)
          /\ (i + 1) - Len(w) = (i - Len(w)) + 1 /\ i - Len(w) \in 1 .. Len(p) - 1
      BY <1>2, <1>p, <2>3
    <3>2. v[i] = p[i - Len(w)] /\ v[i + 1] = p[(i - Len(w)) + 1]
      BY <1>2, <3>1
    <3>. QED
      BY <1>c, <3>1, <3>2
  <2>. QED
    BY <1>2, <1>p, <2>1, <2>2, <2>3
<1>11. d # <<>> => Follows(v[Len(v)].of.of, d[1])
  BY <1>3, <1>6 DEF LineOk
<1>12. \A i \in 1 .. Len(d) - 1 : Follows(d[i], d[i + 1])
  <2>. TAKE i \in 1 .. Len(d) - 1
  <2>1. i + 1 \in 1 .. Len(b) - 1 /\ d[i] = b[i + 1] /\ d[i + 1] = b[(i + 1) + 1]
    BY <1>3
  <2>. QED
    BY <2>1 DEF LineOk
<1>13. \A i \in 1 .. Len(d) - 1 : Before(d[i], NewestOf(v, d))
  <2>. TAKE i \in 1 .. Len(d) - 1
  <2>1. i + 1 \in 1 .. Len(b) - 1 /\ d[i] = b[i + 1]
    BY <1>3
  <2>. QED
    BY <1>7, <2>1 DEF LineOk
<1>14. \A i \in 1 .. Len(v) : Before(v[i].of.of, NewestOf(v, d)) \/ (d = <<>> /\ v[i].of = v[Len(v)].of)
  <2>. TAKE i \in 1 .. Len(v)
  <2>1. CASE i \in 1 .. Len(w) /\ v[i] = w[i]
    BY <1>7, <2>1 DEF LineOk
  <2>2. CASE v[i].of = a
    <3>1. CASE d = <<>>
      BY <1>6, <2>2, <3>1
    <3>2. CASE d # <<>>
      <4>1. 1 \in 1 .. Len(b) - 1
        BY <1>3, <3>2
      <4>. QED
        BY <1>7, <2>2, <4>1 DEF LineOk
    <3>. QED
      BY <3>1, <3>2
  <2>. QED
    BY <1>5, <2>1, <2>2
<1>15. LineOk(v, d)
  BY <1>6, <1>10, <1>11, <1>12, <1>13, <1>14 DEF LineOk
<1>. QED
  BY <1>2, <1>3, <1>5, <1>7, <1>8, <1>9, <1>15 DEF Pending, SameEnds

-----------------------------------------------------------------------------
(* The bridge                                                               *)

BridgeOf(s, q, c) == INSTANCE UsbBridge WITH MaxSession <- s, MaxSeq <- q, MaxChunks <- c

bridgeVars == <<inbox, wire, executed, session, seq, phase, req, call, answered>>

Commands == {"ping", "i2c_read", "spi_read", "i2c_write", "spi_write"}
Requests == [session : Nat, seq : Nat \ {0}, cmd : Commands]
Answers  == [of : Requests, ok : BOOLEAN, data : {0, 1}, value : {0, 1}]
Calls    == [op : Commands \union {"none"}, left : Nat, total : Nat, from : Nat,
             ret : {"none", "raised", "total"}]

Busy    == Pending(wire, inbox)
Oldest  == OldestOf(wire, inbox)
Newest  == NewestOf(wire, inbox)
LineInv == LineOk(wire, inbox)

\* A request is under way, and the number that its answer must have; or that of the next one.
Talking == phase \in {"header", "payload"}
Wanted  == IF Talking THEN seq - 1 ELSE seq

BridgeTyped ==
  /\ inbox \in Seq(Requests) /\ wire \in Seq(PiecesFor(Answers)) /\ executed \in Seq(Answers)
  /\ session \in Nat /\ seq \in Nat /\ seq # 0
  /\ phase \in {"closed", "idle", "send", "header", "payload"}
  /\ call \in Calls
  /\ phase # "closed" => call.op \in Commands
  /\ Talking => seq # 1 /\ req = [session |-> session, seq |-> seq - 1, cmd |-> call.op]
  /\ phase \in {"send", "header", "payload"} => call.left # 0 /\ call.ret = "none"

\* Whose the newest request on the line is.
WrittenInv ==
  /\ Busy /\ phase = "closed" => Newest.session <= session
  /\ Busy /\ phase # "closed" /\ seq = 1 => Newest.session < session
  /\ Busy /\ phase # "closed" /\ seq # 1 => Newest.session = session /\ Newest.seq = seq - 1
  /\ Talking => Busy /\ Newest = req

\* What was carried out: each request once and in order, before those that still wait.
ExecutedInv ==
  /\ \A i, j \in 1 .. Len(executed) : i < j => Before(executed[i].of, executed[j].of)
  /\ inbox # <<>> => \A i \in 1 .. Len(executed) : Before(executed[i].of, inbox[1])
  /\ \A i \in 1 .. Len(executed) :
       /\ executed[i].of.session <= session
       /\ phase # "closed" /\ executed[i].of.session = session => executed[i].of.seq < seq
  /\ \A i \in 1 .. Len(wire) : \E j \in 1 .. Len(executed) : executed[j] = wire[i].of

\* Every request of this transport that was carried out and wrote, from one to another
Counted(from, m) ==
  {i \in 1 .. Len(executed) :
     /\ executed[i].of.session = session
     /\ executed[i].of.seq >= from /\ executed[i].of.seq <= m /\ executed[i].value = 1}

\* What the chunks answered so far have written, up to request m
SumInv(m) ==
  call.op = "spi_write" /\ call.ret # "raised" =>
    call.from <= m + 1 /\ call.total = Cardinality(Counted(call.from, m))

\* The payload of the oldest answer is at the front of the line.
AtPayload == wire # <<>> /\ wire[1].half = 0

\* Nothing has been accepted yet: the ping is under way.
Fresh ==
  /\ answered = {}
  /\ phase # "closed" => phase # "idle" /\ call.op = "ping" /\ Wanted = 1
  /\ phase = "payload" => AtPayload /\ Oldest.seq = 1

\* The ping was answered by its own answer, and so was every request since.
InStep ==
  /\ phase \in {"idle", "send"} => ~Busy
  /\ phase = "header" => AlignedIn(wire) /\ Oldest = Newest
  /\ phase = "payload" => AtPayload /\ Oldest = Newest
  /\ SumInv(Wanted - 1)

\* The ping was, and a later request was not: what comes is behind the numbers for good.
OutOfStep ==
  /\ Busy /\ phase # "payload" /\ Oldest.seq < Wanted
  /\ phase = "idle" => call.ret = "raised"

OwnAnswers ==
  \E m \in Nat :
    /\ m # 0 /\ answered = {[seq |-> i, from |-> session] : i \in 1 .. m}
    /\ phase # "closed" => (InStep /\ m = Wanted - 1) \/ OutOfStep

\* The ping was answered by transport s, an earlier one.  Its answers may fit as long as
\* they last; those of the transports after it come too late to.
Behind(s) ==
  /\ Busy /\ Wanted # 1 /\ Oldest.session >= s /\ Oldest.seq <= Wanted
  /\ Oldest.session # s => Oldest.seq < Wanted
  /\ phase = "payload" => AtPayload /\ Oldest.seq = Wanted

ForeignAnswers ==
  \E s \in Nat :
    /\ s < session /\ answered # {} /\ \A a \in answered : a.from = s
    /\ phase # "closed" => Behind(s)

AnswerInv == Fresh \/ OwnAnswers \/ ForeignAnswers

BridgeInv == BridgeTyped /\ LineInv /\ WrittenInv /\ ExecutedInv /\ AnswerInv

LEMMA BridgeSane ==
  ASSUME BridgeTyped
  PROVE  /\ Sane(Requests, Answers)
         /\ inbox \in Seq(Requests) /\ wire \in Seq(PiecesFor(Answers))
BY DEF BridgeTyped, Sane, Requests, Answers

LEMMA BridgeSaneNext ==
  ASSUME BridgeTyped'
  PROVE  inbox' \in Seq(Requests) /\ wire' \in Seq(PiecesFor(Answers))
BY DEF BridgeTyped

\* What is on the line, in the words of the bridge
LEMMA BridgeEnds ==
  ASSUME BridgeTyped, LineInv, Busy
  PROVE  /\ Oldest \in Requests /\ Newest \in Requests
         /\ Oldest.session \in Nat /\ Oldest.seq \in Nat /\ Oldest.seq # 0
         /\ Newest.session \in Nat /\ Newest.seq \in Nat
         /\ Before(Oldest, Newest) \/ Oldest = Newest
         /\ Oldest = Newest => wire = <<>> \/ inbox = <<>>
         /\ Before(Oldest, Newest) => Oldest # Newest
<1>1. /\ Oldest \in Requests /\ Newest \in Requests
      /\ Before(Oldest, Newest) \/ Oldest = Newest
      /\ Oldest = Newest => wire = <<>> \/ inbox = <<>>
  BY BridgeSane, OrNewest DEF Busy, Oldest, Newest, LineInv
<1>2. /\ Oldest.session \in Nat /\ Oldest.seq \in Nat /\ Oldest.seq # 0
      /\ Newest.session \in Nat /\ Newest.seq \in Nat
  BY <1>1 DEF Requests
<1>3. Before(Oldest, Newest) => Oldest # Newest
  BY <1>2 DEF Before
<1>. QED
  BY <1>1, <1>2, <1>3

\* The host reads n pieces, and nothing else happens on the line.
Takes(n) == n \in 0 .. Len(wire) /\ Dropped(wire', wire, n) /\ inbox' = inbox /\ executed' = executed

LEMMA TakesLine ==
  ASSUME BridgeTyped, LineInv, ExecutedInv, NEW n, Takes(n)
  PROVE  /\ wire' \in Seq(PiecesFor(Answers)) /\ LineInv'
         /\ Busy' => Busy /\ Newest' = Newest
         /\ \A i \in 1 .. Len(wire') : \E j \in 1 .. Len(executed') : executed'[j] = wire'[i].of
<1>1. /\ wire' \in Seq(PiecesFor(Answers)) /\ LineOk(wire', inbox)
      /\ Pending(wire', inbox) => Pending(wire, inbox) /\ NewestOf(wire', inbox) = NewestOf(wire, inbox)
  BY BridgeSane, LineTake DEF Takes, LineInv
<1>2. \A i \in 1 .. Len(wire') : i + n \in 1 .. Len(wire) /\ wire'[i] = wire[i + n]
  BY BridgeSane, Rest DEF Takes
<1>3. \A i \in 1 .. Len(wire) : \E j \in 1 .. Len(executed) : executed[j] = wire[i].of
  BY DEF ExecutedInv
<1>4. ASSUME NEW i \in 1 .. Len(wire')
      PROVE  \E j \in 1 .. Len(executed') : executed'[j] = wire'[i].of
  <2>1. i + n \in 1 .. Len(wire) /\ wire'[i] = wire[i + n]
    BY <1>2
  <2>2. PICK j \in 1 .. Len(executed) : executed[j] = wire[i + n].of
    BY <1>3, <2>1
  <2>. QED
    BY <2>1, <2>2 DEF Takes
<1>. QED
  BY <1>1, <1>4 DEF Takes, LineInv, Busy, Newest

\* Two pieces or fewer that do not reach the newest request's answer
LEMMA TakesTwo ==
  ASSUME BridgeTyped, LineInv, Busy, NEW n, Takes(n), n <= 2, Oldest # Newest
  PROVE  /\ Busy'
         /\ Oldest' = Oldest \/ Follows(Oldest, Oldest')
<1>1. n \in 0 .. Len(wire) /\ Dropped(wire', wire, n) /\ inbox' = inbox
  BY DEF Takes
<1>2. /\ Pending(wire', inbox)
      /\ OldestOf(wire', inbox) = OldestOf(wire, inbox) \/ Follows(OldestOf(wire, inbox), OldestOf(wire', inbox))
  BY <1>1, BridgeSane, LineTwo DEF LineInv, Busy, Oldest, Newest
<1>. QED
  BY <1>1, <1>2 DEF Busy, Oldest

\* The end of the oldest answer
LEMMA TakesEnd ==
  ASSUME BridgeTyped, LineInv, NEW n, Takes(n), n # 0, Ends(wire[n]), wire[n].of.of = Oldest
  PROVE  /\ Busy /\ (Busy' <=> Oldest # Newest)
         /\ Busy' => Follows(Oldest, Oldest')
<1>1. n \in 1 .. Len(wire) /\ Dropped(wire', wire, n) /\ inbox' = inbox /\ n \in 0 .. Len(wire)
  BY DEF Takes
<1>2. wire # <<>> /\ Busy
  BY <1>1, BridgeSane, Nonempty DEF Busy, Pending
<1>3. /\ Pending(wire', inbox) <=> Before(OldestOf(wire, inbox), NewestOf(wire, inbox))
      /\ Pending(wire', inbox) => Follows(OldestOf(wire, inbox), OldestOf(wire', inbox))
  BY <1>1, BridgeSane, LineNext DEF LineInv, Oldest
<1>4. Before(Oldest, Newest) <=> Oldest # Newest
  BY <1>2, BridgeEnds
<1>. QED
  BY <1>1, <1>2, <1>3, <1>4 DEF Busy, Oldest, Newest

\* The header of the oldest answer is read, and its payload is there to follow.
LEMMA TakesHeader ==
  ASSUME BridgeTyped, LineInv, wire # <<>>, AlignedIn(wire)
  PROVE  /\ 2 \in 0 .. Len(wire) /\ 2 \in 1 .. Len(wire)
         /\ wire[2].half = 2 /\ wire[2].of = wire[1].of
         /\ wire[1].half = 1 /\ wire[1].of.of = Oldest /\ wire[2].of.of = Oldest /\ wire[1].of \in Answers
         /\ Ends(wire[2]) <=> wire[1].of.data = 0
         /\ Takes(2) /\ wire[1].of.data # 0 => AtPayload' /\ Oldest' = Oldest
<1>1. /\ 2 \in 1 .. Len(wire) /\ wire[2].half = 2 /\ wire[2].of = wire[1].of
      /\ wire[1].of.of = Oldest /\ wire[2].of.of = Oldest /\ wire[1].of \in Answers
      /\ Ends(wire[2]) <=> wire[1].of.data = 0
  BY BridgeSane, LineHeader DEF LineInv, Oldest
<1>2. 2 \in 0 .. Len(wire) /\ wire[1].half = 1
  BY <1>1 DEF AlignedIn
<1>3. ASSUME Takes(2), wire[1].of.data # 0 PROVE AtPayload' /\ Oldest' = Oldest
  <2>1. Dropped(wire', wire, 2) /\ inbox' = inbox
    BY <1>3 DEF Takes
  <2>2. /\ wire' # <<>> /\ wire'[1] = wire[2 + 1] /\ OldestOf(wire', inbox) = OldestOf(wire, inbox)
        /\ Chain(wire[2], wire[2 + 1])
    BY <1>1, <1>3, <2>1, BridgeSane, LineWithin, LineInside DEF LineInv, Oldest
  <2>3. wire[2 + 1].half = 0
    BY <1>1, <1>3, <2>2 DEF Chain
  <2>. QED
    BY <2>1, <2>2, <2>3 DEF AtPayload, Oldest
<1>. QED
  BY <1>1, <1>2, <1>3

-----------------------------------------------------------------------------
(* The firmware answers                                                     *)

\* What an answer of the firmware to the oldest request it has does
BridgeServed(a) ==
  /\ inbox # <<>> /\ a \in Answers /\ a.of = inbox[1]
  /\ Answered(wire', inbox', wire, inbox, a) /\ executed' = Append(executed, a)
  /\ UNCHANGED <<session, seq, phase, req, call, answered>>

LEMMA FirmwareStep ==
  ASSUME NEW s, NEW q, NEW c, BridgeTyped, BridgeOf(s, q, c)!Firmware
  PROVE  \E a : BridgeServed(a)
<1>1. PICK a \in BridgeOf(s, q, c)!AnswersTo(Head(inbox)) :
        wire' = wire \o BridgeOf(s, q, c)!Pieces(a) /\ executed' = Append(executed, a)
  BY DEF BridgeOf!Firmware, BridgeOf!Serve
<1>2. inbox # <<>> /\ Head(inbox) = inbox[1] /\ inbox[1] \in Requests
  BY DEF BridgeTyped, BridgeOf!Firmware
<1>3. a.of = inbox[1] /\ a \in Answers
  <2>1. PICK ok \in BOOLEAN, v \in {0, 1} :
          a = [of |-> Head(inbox), ok |-> ok,
               data |-> IF ok /\ Head(inbox).cmd \in BridgeOf(s, q, c)!Reads THEN 1 ELSE 0, value |-> v]
    BY <1>1 DEF BridgeOf!AnswersTo
  <2>. QED
    BY <1>2, <2>1 DEF Answers
<1>4. BridgeOf(s, q, c)!Pieces(a) = PiecesOf(a)
  BY DEF BridgeOf!Pieces, PiecesOf
<1>. QED
  BY <1>1, <1>2, <1>3, <1>4
    DEF BridgeServed, Answered, BridgeOf!Firmware, BridgeOf!Serve, BridgeOf!bvars

LEMMA ServedLine ==
  ASSUME BridgeTyped, LineInv, NEW a, BridgeServed(a)
  PROVE  /\ wire' \in Seq(PiecesFor(Answers)) /\ inbox' \in Seq(Requests) /\ LineInv'
         /\ Busy' /\ Busy /\ Newest' = Newest /\ Oldest' = Oldest
         /\ wire' # <<>> /\ wire'[1] = IF wire # <<>> THEN wire[1] ELSE [half |-> 1, of |-> a]
         /\ \A i \in 1 .. Len(wire') : wire'[i].of = a \/ (i \in 1 .. Len(wire) /\ wire'[i] = wire[i])
<1>1. /\ wire' \in Seq(PiecesFor(Answers)) /\ inbox' \in Seq(Requests) /\ LineOk(wire', inbox')
      /\ Pending(wire', inbox') /\ Pending(wire, inbox)
      /\ NewestOf(wire', inbox') = NewestOf(wire, inbox) /\ OldestOf(wire', inbox') = OldestOf(wire, inbox)
      /\ wire' # <<>> /\ wire'[1] = IF wire # <<>> THEN wire[1] ELSE [half |-> 1, of |-> a]
      /\ \A i \in 1 .. Len(wire') : wire'[i].of = a \/ (i \in 1 .. Len(wire) /\ wire'[i] = wire[i])
  <2>1. /\ inbox # <<>> /\ a \in Answers /\ a.of = inbox[1]
        /\ Answered(wire', inbox', wire, inbox, a) /\ LineOk(wire, inbox)
    BY DEF BridgeServed, LineInv
  <2>2. Sane(Requests, Answers) /\ inbox \in Seq(Requests) /\ wire \in Seq(PiecesFor(Answers))
    BY BridgeSane
  <2>3. wire' \in Seq(PiecesFor(Answers)) /\ inbox' \in Seq(Requests) /\ LineOk(wire', inbox')
    BY <2>1, <2>2, LineServe
  <2>4. Pending(wire', inbox') /\ Pending(wire, inbox)
    BY <2>1, <2>2, LineServe
  <2>5. /\ wire' # <<>> /\ wire'[1] = IF wire # <<>> THEN wire[1] ELSE [half |-> 1, of |-> a]
        /\ \A i \in 1 .. Len(wire') : wire'[i].of = a \/ (i \in 1 .. Len(wire) /\ wire'[i] = wire[i])
    BY <2>1, <2>2, LineServe
  <2>6. NewestOf(wire', inbox') = NewestOf(wire, inbox) /\ OldestOf(wire', inbox') = OldestOf(wire, inbox)
    <3>1. SameEnds(wire', inbox', wire, inbox)
      BY <2>1, <2>2, LineServe
    <3>. QED
      BY <3>1 DEF SameEnds
  <2>. QED
    BY <2>3, <2>4, <2>5, <2>6
<1>. QED
  BY <1>1 DEF LineInv, Busy, Newest, Oldest

\* The request that is answered is not newer than the newest.
LEMMA ServedIsWritten ==
  ASSUME BridgeTyped, LineInv, WrittenInv, inbox # <<>>
  PROVE  /\ inbox[1] \in Requests /\ inbox[1].session <= session
         /\ phase # "closed" /\ inbox[1].session = session => inbox[1].seq < seq
<1>1. inbox[1] \in Requests /\ Newest \in Requests /\ Busy /\ Newest = inbox[Len(inbox)]
  BY BridgeSane, BridgeEnds, Nonempty DEF Busy, Pending, Newest, NewestOf
<1>2. Before(inbox[1], Newest) \/ inbox[1] = Newest
  <2>1. Len(inbox) \in Nat /\ Len(inbox) # 0
    BY BridgeSane, Nonempty
  <2>2. Len(inbox) # 1 => Before(inbox[1], Newest)
    <3>1. Len(inbox) # 1 => 1 \in 1 .. Len(inbox) - 1
      BY <2>1, TwoLong
    <3>. QED
      BY <3>1 DEF LineInv, LineOk, Newest
  <2>. QED
    BY <1>1, <2>2
<1>3. Newest.session \in Nat /\ Newest.seq \in Nat /\ inbox[1].session \in Nat /\ inbox[1].seq \in Nat
  BY <1>1 DEF Requests
<1>4. session \in Nat /\ seq \in Nat
  BY DEF BridgeTyped
<1>5. CASE phase = "closed"
  <2>1. Newest.session <= session
    BY <1>1, <1>5 DEF WrittenInv
  <2>. QED
    BY <1>1, <1>2, <1>3, <1>4, <1>5, <2>1 DEF Before
<1>6. CASE phase # "closed" /\ seq = 1
  <2>1. Newest.session < session
    BY <1>1, <1>6 DEF WrittenInv
  <2>. QED
    BY <1>1, <1>2, <1>3, <1>4, <1>6, <2>1 DEF Before
<1>7. CASE phase # "closed" /\ seq # 1
  <2>1. Newest.session = session /\ Newest.seq = seq - 1
    BY <1>1, <1>7 DEF WrittenInv
  <2>. QED
    BY <1>1, <1>2, <1>3, <1>4, <1>7, <2>1 DEF Before
<1>. QED
  BY <1>5, <1>6, <1>7

LEMMA ServedExecuted ==
  ASSUME BridgeTyped, LineInv, WrittenInv, ExecutedInv, NEW a, BridgeServed(a)
  PROVE  executed' \in Seq(Answers) /\ ExecutedInv'
<1>1. /\ executed \in Seq(Answers) /\ Len(executed) \in Nat /\ executed' \in Seq(Answers)
      /\ Len(executed') = Len(executed) + 1 /\ executed'[Len(executed) + 1] = a
      /\ \A i \in 1 .. Len(executed) : executed'[i] = executed[i]
  BY DEF BridgeTyped, BridgeServed
<1>2. \A i \in 1 .. Len(executed') :
        (i \in 1 .. Len(executed) /\ executed'[i] = executed[i])
        \/ (i = Len(executed) + 1 /\ executed'[i] = a)
  BY <1>1
<1>3. /\ a.of = inbox[1] /\ inbox[1] \in Requests /\ inbox[1].session <= session
      /\ phase # "closed" /\ inbox[1].session = session => inbox[1].seq < seq
  BY ServedIsWritten DEF BridgeServed
<1>4. \A i \in 1 .. Len(executed) : executed[i].of \in Requests /\ Before(executed[i].of, inbox[1])
  <2>. TAKE i \in 1 .. Len(executed)
  <2>1. executed[i] \in Answers
    BY <1>1
  <2>2. Before(executed[i].of, inbox[1])
    BY DEF ExecutedInv, BridgeServed
  <2>. QED
    BY <2>1, <2>2 DEF Answers
<1>5. \A i, j \in 1 .. Len(executed') : i < j => Before(executed'[i].of, executed'[j].of)
  <2>. TAKE i, j \in 1 .. Len(executed')
  <2>. SUFFICES ASSUME i < j PROVE Before(executed'[i].of, executed'[j].of)
    OBVIOUS
  <2>1. i \in 1 .. Len(executed) /\ executed'[i] = executed[i]
    BY <1>1
  <2>2. CASE j \in 1 .. Len(executed) /\ executed'[j] = executed[j]
    BY <2>1, <2>2 DEF ExecutedInv
  <2>3. CASE executed'[j] = a
    BY <1>3, <1>4, <2>1, <2>3
  <2>. QED
    BY <1>2, <2>2, <2>3
<1>6. inbox' # <<>> => \A i \in 1 .. Len(executed') : Before(executed'[i].of, inbox'[1])
  <2>. SUFFICES ASSUME inbox' # <<>>, NEW i \in 1 .. Len(executed') PROVE Before(executed'[i].of, inbox'[1])
    OBVIOUS
  <2>1. inbox'[1] = inbox[2] /\ Follows(inbox[1], inbox[2]) /\ inbox[2] \in Requests
    <3>1. inbox \in Seq(Requests) /\ inbox # <<>> /\ inbox' = Tail(inbox)
      BY DEF BridgeTyped, BridgeServed, Answered
    <3>2. Len(inbox) \in Nat /\ Len(inbox) # 0 /\ Len(inbox) # 1 /\ inbox'[1] = inbox[2]
      BY <3>1
    <3>3. 1 \in 1 .. Len(inbox) - 1 /\ 2 \in 1 .. Len(inbox)
      BY <3>2, TwoLong
    <3>4. Follows(inbox[1], inbox[1 + 1])
      BY <3>3 DEF LineInv, LineOk
    <3>. QED
      BY <3>1, <3>2, <3>3, <3>4
  <2>2. executed'[i].of \in Requests /\ (Before(executed'[i].of, inbox[1]) \/ executed'[i].of = inbox[1])
    BY <1>2, <1>3, <1>4
  <2>3. \A q \in Requests : q.session \in Nat /\ q.seq \in Nat
    BY DEF Requests
  <2>4. inbox[1] \in Requests
    BY <1>3
  <2>. QED
    BY <2>1, <2>2, <2>3, <2>4, FollowsLater, Zenon
<1>7. \A i \in 1 .. Len(executed') :
        /\ executed'[i].of.session <= session'
        /\ phase' # "closed" /\ executed'[i].of.session = session' => executed'[i].of.seq < seq'
  <2>. TAKE i \in 1 .. Len(executed')
  <2>1. UNCHANGED <<session, seq, phase>>
    BY DEF BridgeServed
  <2>2. CASE i \in 1 .. Len(executed) /\ executed'[i] = executed[i]
    BY <2>1, <2>2 DEF ExecutedInv
  <2>3. CASE executed'[i] = a
    BY <1>3, <2>1, <2>3
  <2>. QED
    BY <1>2, <2>2, <2>3
<1>8. \A i \in 1 .. Len(wire') : \E j \in 1 .. Len(executed') : executed'[j] = wire'[i].of
  <2>. TAKE i \in 1 .. Len(wire')
  <2>1. CASE wire'[i].of = a
    <3>1. Len(executed) + 1 \in 1 .. Len(executed')
      BY <1>1
    <3>. QED
      BY <1>1, <2>1, <3>1
  <2>2. CASE i \in 1 .. Len(wire) /\ wire'[i] = wire[i]
    <3>1. PICK j \in 1 .. Len(executed) : executed[j] = wire[i].of
      BY <2>2 DEF ExecutedInv
    <3>2. j \in 1 .. Len(executed') /\ executed'[j] = executed[j]
      BY <1>1
    <3>. QED
      BY <2>2, <3>1, <3>2
  <2>. QED
    BY <2>1, <2>2, ServedLine
<1>. QED
  BY <1>1, <1>5, <1>6, <1>7, <1>8 DEF ExecutedInv

\* A newer request that is carried out does not count among those answered before.
LEMMA ServedSum ==
  ASSUME BridgeTyped, NEW a, BridgeServed(a), NEW m \in Int, SumInv(m),
         ~(a.of.session = session /\ a.of.seq <= m)
  PROVE  SumInv(m)'
<1>1. /\ executed \in Seq(Answers) /\ Len(executed) \in Nat
      /\ Len(executed') = Len(executed) + 1 /\ executed'[Len(executed) + 1] = a
      /\ \A i \in 1 .. Len(executed) : executed'[i] = executed[i]
  BY DEF BridgeTyped, BridgeServed
<1>2. UNCHANGED <<session, call>>
  BY DEF BridgeServed
<1>3. Counted(call.from, m)' = Counted(call.from, m)
  <2>1. \A i \in 1 .. Len(executed') : i \in 1 .. Len(executed) \/ executed'[i] = a
    BY <1>1
  <2>2. 1 .. Len(executed) \subseteq 1 .. Len(executed')
    BY <1>1
  <2>3. ASSUME NEW i PROVE i \in Counted(call.from, m)' <=> i \in Counted(call.from, m)
    <3>1. CASE i \in 1 .. Len(executed)
      BY <1>1, <1>2, <2>2, <3>1 DEF Counted
    <3>2. CASE i \notin 1 .. Len(executed)
      BY <1>2, <2>1, <3>2 DEF Counted
    <3>. QED
      BY <3>1, <3>2
  <2>. QED
    BY <2>3 DEF Counted
<1>. QED
  BY <1>2, <1>3 DEF SumInv

LEMMA ServedAnswers ==
  ASSUME BridgeTyped, LineInv, WrittenInv, AnswerInv, NEW a, BridgeServed(a)
  PROVE  AnswerInv'
<1>1. UNCHANGED <<session, seq, phase, req, call, answered>> /\ inbox # <<>> /\ a.of = inbox[1]
  BY DEF BridgeServed
<1>2. Wanted' = Wanted /\ Busy' /\ Busy /\ Newest' = Newest /\ Oldest' = Oldest
  BY <1>1, ServedLine DEF Wanted, Talking
<1>3. AtPayload => AtPayload'
  BY ServedLine DEF AtPayload
<1>4. CASE Fresh
  BY <1>1, <1>2, <1>3, <1>4 DEF Fresh, AnswerInv
<1>5. CASE OwnAnswers
  <2>1. PICK m \in Nat : /\ m # 0 /\ answered = {[seq |-> i, from |-> session] : i \in 1 .. m}
                         /\ phase # "closed" => (InStep /\ m = Wanted - 1) \/ OutOfStep
    BY <1>5 DEF OwnAnswers
  <2>2. answered' = {[seq |-> i, from |-> session'] : i \in 1 .. m}
    BY <1>1, <2>1
  <2>3. ASSUME phase # "closed", InStep, m = Wanted - 1 PROVE InStep' /\ m = Wanted' - 1
    <3>1. Talking /\ Oldest = Newest /\ Newest = req
      BY <1>2, <2>3 DEF InStep, Talking, BridgeTyped, WrittenInv
    <3>2. wire = <<>> /\ Oldest = inbox[1]
      BY <1>1, <1>2, <3>1, BridgeEnds DEF Oldest, OldestOf
    <3>3. phase = "header"
      <4>1. phase # "payload"
        BY <2>3, <3>2 DEF InStep, AtPayload
      <4>. QED
        BY <3>1, <4>1 DEF Talking
    <3>4. AlignedIn(wire)'
      <4>1. wire'[1] = [half |-> 1, of |-> a]
        BY <3>2, ServedLine
      <4>. QED
        BY <4>1 DEF AlignedIn
    <3>5. a.of.seq = seq - 1 /\ m = seq - 2 /\ seq \in Nat
      BY <1>1, <2>3, <3>1, <3>2 DEF Wanted, BridgeTyped
    <3>6. SumInv(m)'
      <4>1. SumInv(m)
        BY <2>3 DEF InStep
      <4>2. ~(a.of.seq <= m) /\ m \in Int
        BY <3>5
      <4>. QED
        BY <4>1, <4>2, ServedSum
    <3>7. SumInv(Wanted - 1)'
      BY <1>2, <2>3, <3>6 DEF SumInv, Counted
    <3>. QED
      BY <1>1, <1>2, <2>3, <3>1, <3>3, <3>4, <3>7 DEF InStep
  <2>4. ASSUME OutOfStep PROVE OutOfStep'
    BY <1>1, <1>2, <2>4 DEF OutOfStep
  <2>5. OwnAnswers'
    BY <1>1, <2>1, <2>2, <2>3, <2>4 DEF OwnAnswers
  <2>. QED
    BY <2>5 DEF AnswerInv
<1>6. CASE ForeignAnswers
  <2>1. PICK s \in Nat : /\ s < session /\ answered # {} /\ \A b \in answered : b.from = s
                         /\ phase # "closed" => Behind(s)
    BY <1>6 DEF ForeignAnswers
  <2>2. Behind(s) => Behind(s)'
    BY <1>1, <1>2, <1>3 DEF Behind
  <2>3. ForeignAnswers'
    BY <1>1, <2>1, <2>2 DEF ForeignAnswers
  <2>. QED
    BY <2>3 DEF AnswerInv
<1>. QED
  BY <1>4, <1>5, <1>6 DEF AnswerInv

LEMMA ServedKeeps ==
  ASSUME BridgeInv, NEW a, BridgeServed(a)
  PROVE  BridgeInv'
<1>1. BridgeTyped /\ LineInv /\ WrittenInv /\ ExecutedInv /\ AnswerInv
  BY DEF BridgeInv
<1>2. /\ wire' \in Seq(PiecesFor(Answers)) /\ inbox' \in Seq(Requests) /\ LineInv'
      /\ executed' \in Seq(Answers) /\ ExecutedInv'
  BY <1>1, ServedLine, ServedExecuted
<1>3. UNCHANGED <<session, seq, phase, req, call, answered>>
  BY DEF BridgeServed
<1>4. BridgeTyped'
  BY <1>1, <1>2, <1>3 DEF BridgeTyped, Talking
<1>5. WrittenInv'
  <2>1. Busy /\ Busy' /\ Newest' = Newest
    BY <1>1, ServedLine
  <2>. QED
    BY <1>1, <1>3, <2>1 DEF WrittenInv, Talking
<1>6. AnswerInv'
  BY <1>1, ServedAnswers
<1>. QED
  BY <1>2, <1>4, <1>5, <1>6 DEF BridgeInv

-----------------------------------------------------------------------------
(* The host opens and closes the port, and asks                             *)

LEMMA BridgeOpens ==
  ASSUME NEW s, NEW q, NEW c, BridgeInv, BridgeOf(s, q, c)!Open
  PROVE  BridgeInv'
<1>1. BridgeTyped /\ LineInv /\ WrittenInv /\ ExecutedInv /\ AnswerInv
  BY DEF BridgeInv
<1>2. /\ phase = "closed" /\ session' = session + 1 /\ seq' = 1 /\ answered' = {} /\ phase' = "send"
      /\ call' = [op |-> "ping", left |-> 1, total |-> 0, from |-> 1, ret |-> "none"]
      /\ UNCHANGED req
  BY DEF BridgeOf!Open, BridgeOf!NoCall
<1>3. PICK n : Takes(n)
  BY DEF BridgeOf!Open, BridgeOf!ResetInput, BridgeOf!Take, Takes, Dropped
<1>4. /\ wire' \in Seq(PiecesFor(Answers)) /\ LineInv' /\ (Busy' => Busy /\ Newest' = Newest)
      /\ \A i \in 1 .. Len(wire') : \E j \in 1 .. Len(executed') : executed'[j] = wire'[i].of
  BY <1>1, <1>3, TakesLine
<1>5. inbox' = inbox /\ executed' = executed
  BY <1>3 DEF Takes
<1>6. BridgeTyped'
  <2>1. call' \in Calls /\ call'.op = "ping" /\ call'.left = 1 /\ call'.ret = "none"
    BY <1>2 DEF Calls, Commands
  <2>2. session' \in Nat /\ seq' \in Nat /\ seq' # 0
    BY <1>1, <1>2 DEF BridgeTyped
  <2>. QED
    BY <1>1, <1>2, <1>4, <1>5, <2>1, <2>2 DEF BridgeTyped, Talking, Commands
<1>7. WrittenInv'
  <2>1. Busy' => Newest'.session < session'
    <3>1. Busy' => Newest.session <= session /\ Newest'.session \in Nat
      BY <1>1, <1>2, <1>4, BridgeEnds DEF WrittenInv
    <3>2. session \in Nat
      BY <1>1 DEF BridgeTyped
    <3>. QED
      BY <1>2, <1>4, <3>1, <3>2
  <2>. QED
    BY <1>2, <2>1 DEF WrittenInv, Talking
<1>8. ExecutedInv'
  <2>1. \A i \in 1 .. Len(executed') :
          /\ executed'[i].of.session <= session'
          /\ phase' # "closed" /\ executed'[i].of.session = session' => executed'[i].of.seq < seq'
    <3>. TAKE i \in 1 .. Len(executed')
    <3>1. executed'[i].of.session <= session /\ executed'[i].of.session \in Nat /\ session \in Nat
      <4>1. i \in 1 .. Len(executed) /\ executed'[i] = executed[i] /\ executed[i] \in Answers
        BY <1>1, <1>5 DEF BridgeTyped
      <4>. QED
        BY <1>1, <4>1 DEF ExecutedInv, Answers, Requests, BridgeTyped
    <3>. QED
      BY <1>2, <3>1
  <2>. QED
    BY <1>1, <1>4, <1>5, <2>1 DEF ExecutedInv
<1>9. AnswerInv'
  BY <1>2 DEF AnswerInv, Fresh, Wanted, Talking
<1>. QED
  BY <1>4, <1>6, <1>7, <1>8, <1>9 DEF BridgeInv

LEMMA BridgeCloses ==
  ASSUME NEW s, NEW q, NEW c, BridgeInv, BridgeOf(s, q, c)!Close
  PROVE  BridgeInv'
<1>1. BridgeTyped /\ LineInv /\ WrittenInv /\ ExecutedInv /\ AnswerInv
  BY DEF BridgeInv
<1>2. /\ phase # "closed" /\ phase' = "closed" /\ UNCHANGED <<inbox, wire, executed, session, seq, answered>>
      /\ call' = [op |-> "none", left |-> 0, total |-> 0, from |-> 0, ret |-> "none"]
  BY DEF BridgeOf!Close, BridgeOf!NoCall, BridgeOf!pipe
<1>3. BridgeTyped'
  <2>1. call' \in Calls
    BY <1>2 DEF Calls, Commands
  <2>. QED
    BY <1>1, <1>2, <2>1 DEF BridgeTyped, Talking
<1>4. LineInv' /\ (Busy' <=> Busy) /\ Newest' = Newest
  BY <1>1, <1>2 DEF LineInv, Busy, Newest
<1>5. WrittenInv'
  <2>1. Busy => Newest.session <= session
    <3>1. Busy => Newest.session \in Nat /\ session \in Nat
      BY <1>1, BridgeEnds DEF BridgeTyped
    <3>2. Busy => Newest.session < session \/ Newest.session = session
      BY <1>1, <1>2 DEF WrittenInv
    <3>. QED
      BY <3>1, <3>2
  <2>. QED
    BY <1>2, <1>4, <2>1 DEF WrittenInv, Talking
<1>6. ExecutedInv'
  BY <1>1, <1>2 DEF ExecutedInv
<1>7. AnswerInv'
  BY <1>1, <1>2 DEF AnswerInv, Fresh, OwnAnswers, ForeignAnswers
<1>. QED
  BY <1>3, <1>4, <1>5, <1>6, <1>7 DEF BridgeInv

LEMMA BridgeCallsBack ==
  ASSUME NEW s, NEW q, NEW c \in Nat, BridgeInv, BridgeOf(s, q, c)!Callback
  PROVE  BridgeInv'
<1>1. BridgeTyped /\ LineInv /\ WrittenInv /\ ExecutedInv /\ AnswerInv
  BY DEF BridgeInv
<1>2. phase = "idle" /\ phase' = "send" /\ UNCHANGED <<inbox, wire, executed, session, seq, req, answered>>
  BY DEF BridgeOf!Callback, BridgeOf!pipe
<1>3. PICK op \in Commands, n \in 1 .. c :
        call' = [op |-> op, left |-> n, total |-> 0, from |-> seq, ret |-> "none"]
  BY DEF BridgeOf!Callback, BridgeOf!Reads, BridgeOf!Writes, Commands
<1>4. BridgeTyped'
  <2>1. n \in Nat /\ n # 0 /\ seq \in Nat
    BY <1>1 DEF BridgeTyped
  <2>2. call' \in Calls /\ call'.op \in Commands /\ call'.left # 0 /\ call'.ret = "none"
    BY <1>3, <2>1 DEF Calls, Commands
  <2>. QED
    BY <1>1, <1>2, <2>2 DEF BridgeTyped, Talking
<1>5. LineInv' /\ Busy' = Busy /\ Newest' = Newest /\ Oldest' = Oldest /\ Wanted' = Wanted
  BY <1>1, <1>2 DEF LineInv, Busy, Newest, Oldest, Wanted, Talking
<1>6. WrittenInv'
  BY <1>1, <1>2, <1>5 DEF WrittenInv, Talking
<1>7. ExecutedInv'
  BY <1>1, <1>2 DEF ExecutedInv
<1>8. AnswerInv'
  <2>1. ~Fresh
    BY <1>2 DEF Fresh
  <2>2. CASE OwnAnswers
    <3>1. PICK m \in Nat : /\ m # 0 /\ answered = {[seq |-> i, from |-> session] : i \in 1 .. m}
                           /\ (InStep /\ m = Wanted - 1) \/ OutOfStep
      BY <1>2, <2>2 DEF OwnAnswers
    <3>2. InStep => InStep'
      <4>1. SumInv(Wanted - 1)'
        <5>1. Wanted' - 1 = seq - 1 /\ seq \in Nat /\ (seq - 1) + 1 = seq
          BY <1>1, <1>2, <1>5 DEF Wanted, Talking, BridgeTyped
        <5>2. call'.from = seq /\ call'.total = 0
          BY <1>3
        <5>3. Counted(seq, seq - 1)' = {}
          <6>1. ASSUME NEW i \in 1 .. Len(executed), executed[i].of.seq >= seq, executed[i].of.seq <= seq - 1
                PROVE  FALSE
            <7>1. executed[i].of.seq \in Nat
              <8>1. executed[i] \in Answers
                BY <1>1 DEF BridgeTyped
              <8>. QED
                BY <8>1 DEF Answers, Requests
            <7>. QED
              BY <5>1, <6>1, <7>1
          <6>. QED
            BY <1>2, <6>1 DEF Counted
        <5>4. Counted(call.from, Wanted - 1)' = Counted(seq, seq - 1)'
          BY <1>2, <5>1, <5>2 DEF Counted
        <5>5. Cardinality(Counted(call.from, Wanted - 1)') = 0
          <6>1. Cardinality({}) = 0
            BY FS_EmptySet
          <6>. QED
            BY <5>3, <5>4, <6>1
        <5>. QED
          BY <5>1, <5>2, <5>5 DEF SumInv
      <4>. QED
        BY <1>2, <1>5, <4>1 DEF InStep
    <3>3. OutOfStep => OutOfStep'
      BY <1>2, <1>5 DEF OutOfStep
    <3>4. OwnAnswers'
      BY <1>2, <1>5, <3>1, <3>2, <3>3 DEF OwnAnswers
    <3>. QED
      BY <3>4 DEF AnswerInv
  <2>3. CASE ForeignAnswers
    <3>1. PICK t \in Nat : t < session /\ answered # {} /\ (\A a \in answered : a.from = t) /\ Behind(t)
      BY <1>2, <2>3 DEF ForeignAnswers
    <3>2. Behind(t)'
      BY <1>2, <1>5, <3>1 DEF Behind
    <3>3. ForeignAnswers'
      BY <1>2, <3>1, <3>2 DEF ForeignAnswers
    <3>. QED
      BY <3>3 DEF AnswerInv
  <2>. QED
    BY <1>1, <2>1, <2>2, <2>3 DEF AnswerInv
<1>. QED
  BY <1>4, <1>5, <1>6, <1>7, <1>8 DEF BridgeInv

LEMMA BridgeAsks ==
  ASSUME NEW s, NEW q, NEW c, BridgeInv, BridgeOf(s, q, c)!Request
  PROVE  BridgeInv'
<1>1. BridgeTyped /\ LineInv /\ WrittenInv /\ ExecutedInv /\ AnswerInv
  BY DEF BridgeInv
<1>2. /\ phase = "send" /\ req' = [session |-> session, seq |-> seq, cmd |-> call.op]
      /\ inbox' = Append(inbox, req') /\ UNCHANGED <<wire, executed, session, call, answered>>
      /\ seq' = seq + 1 /\ phase' = "header"
  BY DEF BridgeOf!Request, BridgeOf!Write
<1>3. session \in Nat /\ seq \in Nat /\ seq # 0 /\ call.op \in Commands /\ req' \in Requests
  BY <1>1, <1>2 DEF BridgeTyped, Requests
<1>4. Busy => Follows(Newest, req')
  <2>1. Busy => Newest.session \in Nat /\ Newest.seq \in Nat
    BY <1>1, BridgeEnds
  <2>2. req'.session = session /\ req'.seq = seq
    BY <1>2
  <2>3. CASE seq = 1
    BY <1>1, <1>2, <1>3, <2>1, <2>2, <2>3 DEF Follows, WrittenInv
  <2>4. CASE seq # 1
    <3>1. Busy => Newest.session = session /\ Newest.seq = seq - 1
      BY <1>1, <1>2, <2>4 DEF WrittenInv
    <3>. QED
      BY <1>3, <2>1, <2>2, <3>1 DEF Follows
  <2>. QED
    BY <2>3, <2>4
<1>5. /\ inbox' \in Seq(Requests) /\ LineInv' /\ Busy' /\ Newest' = req'
      /\ Oldest' = IF Busy THEN Oldest ELSE req'
  <2>1. Pending(wire, inbox) => Follows(NewestOf(wire, inbox), req')
    BY <1>4 DEF Busy, Newest
  <2>2. /\ inbox' \in Seq(Requests) /\ LineOk(wire, inbox') /\ Pending(wire, inbox') /\ NewestOf(wire, inbox') = req'
        /\ OldestOf(wire, inbox') = IF Pending(wire, inbox) THEN OldestOf(wire, inbox) ELSE req'
    <3>1. Sane(Requests, Answers) /\ inbox \in Seq(Requests) /\ wire \in Seq(PiecesFor(Answers))
      BY <1>1, BridgeSane
    <3>2. LineOk(wire, inbox) /\ Queued(inbox', inbox, req')
      BY <1>1, <1>2 DEF LineInv, Queued
    <3>3. /\ inbox' \in Seq(Requests) /\ LineOk(wire, inbox') /\ Pending(wire, inbox')
          /\ WrittenEnds(inbox', wire, inbox, req')
      BY <1>3, <2>1, <3>1, <3>2, LineWrite
    <3>. QED
      BY <3>3 DEF WrittenEnds
  <2>. QED
    BY <1>2, <2>2 DEF LineInv, Busy, Newest, Oldest
<1>6. Wanted' = Wanted /\ Wanted = seq
  BY <1>2, <1>3 DEF Wanted, Talking
<1>7. BridgeTyped'
  <2>1. seq' \in Nat /\ seq' # 0 /\ seq' # 1 /\ seq' - 1 = seq
    BY <1>2, <1>3
  <2>2. req' = [session |-> session', seq |-> seq' - 1, cmd |-> call'.op]
    BY <1>2, <2>1
  <2>. QED
    BY <1>1, <1>2, <1>3, <1>5, <2>1, <2>2 DEF BridgeTyped, Talking
<1>8. WrittenInv'
  BY <1>2, <1>3, <1>5 DEF WrittenInv, Talking
<1>9. ExecutedInv'
  <2>1. ASSUME NEW i \in 1 .. Len(executed)
        PROVE  Before(executed[i].of, inbox'[1]) /\ executed[i].of.session <= session
               /\ (executed[i].of.session = session => executed[i].of.seq < seq')
    <3>1. /\ executed[i].of.session <= session /\ (executed[i].of.session = session => executed[i].of.seq < seq)
          /\ inbox # <<>> => Before(executed[i].of, inbox[1])
      BY <1>1, <1>2 DEF ExecutedInv
    <3>2. executed[i].of.session \in Nat /\ executed[i].of.seq \in Nat
      <4>1. executed[i] \in Answers
        BY <1>1 DEF BridgeTyped
      <4>. QED
        BY <4>1 DEF Answers, Requests
    <3>3. inbox'[1] = IF inbox # <<>> THEN inbox[1] ELSE req'
      BY <1>1, <1>2, <1>3 DEF BridgeTyped
    <3>4. Before(executed[i].of, req')
      BY <1>2, <1>3, <3>1, <3>2 DEF Before
    <3>. QED
      BY <1>2, <1>3, <3>1, <3>2, <3>3, <3>4
  <2>. QED
    BY <1>1, <1>2, <2>1 DEF ExecutedInv
<1>10. AnswerInv'
  <2>1. CASE Fresh
    BY <1>2, <1>6, <2>1 DEF Fresh, AnswerInv
  <2>2. CASE OwnAnswers
    <3>1. PICK m \in Nat : /\ m # 0 /\ answered = {[seq |-> i, from |-> session] : i \in 1 .. m}
                           /\ (InStep /\ m = Wanted - 1) \/ OutOfStep
      BY <1>2, <2>2 DEF OwnAnswers
    <3>2. InStep => InStep'
      <4>1. InStep => SumInv(Wanted - 1)'
        BY <1>2, <1>6 DEF InStep, SumInv, Counted
      <4>2. InStep => Oldest' = Newest' /\ AlignedIn(wire')
        BY <1>2, <1>5 DEF InStep, Busy, Pending, AlignedIn
      <4>. QED
        BY <1>2, <4>1, <4>2 DEF InStep
    <3>3. OutOfStep => OutOfStep'
      BY <1>2, <1>5, <1>6 DEF OutOfStep
    <3>4. OwnAnswers'
      BY <1>2, <1>6, <3>1, <3>2, <3>3 DEF OwnAnswers
    <3>. QED
      BY <3>4 DEF AnswerInv
  <2>3. CASE ForeignAnswers
    <3>1. PICK t \in Nat : t < session /\ answered # {} /\ (\A a \in answered : a.from = t) /\ Behind(t)
      BY <1>2, <2>3 DEF ForeignAnswers
    <3>2. Behind(t)'
      BY <1>2, <1>5, <1>6, <3>1 DEF Behind
    <3>3. ForeignAnswers'
      BY <1>2, <3>1, <3>2 DEF ForeignAnswers
    <3>. QED
      BY <3>3 DEF AnswerInv
  <2>. QED
    BY <1>1, <2>1, <2>2, <2>3 DEF AnswerInv
<1>. QED
  BY <1>5, <1>7, <1>8, <1>9, <1>10 DEF BridgeInv

-----------------------------------------------------------------------------
(* The host reads                                                           *)

\* The two pieces that are read are the header that is waited for.
HeaderFits ==
  /\ wire[1].half = 1 /\ wire[2].half = 2 /\ wire[1].of = wire[2].of
  /\ wire[1].of.of.cmd = req.cmd /\ wire[1].of.of.seq = req.seq

\* The read ends with too little, or with what is not the answer.
BridgeFails(n) ==
  /\ Talking /\ Takes(n)
  /\ \/ phase = "header" /\ n <= 1
     \/ phase = "header" /\ n = 2 /\ ~HeaderFits
     \/ phase = "payload" /\ n = 0
  /\ phase' = IF call.op = "ping" THEN "closed" ELSE "idle"
  /\ call' = [call EXCEPT !.ret = "raised"]
  /\ UNCHANGED <<session, seq, req, answered>>

\* request() gives back an answer that is read to its end.
BridgeReturns(n) ==
  /\ Talking /\ Takes(n) /\ n # 0 /\ Ends(wire[n]) /\ wire[n].of.of = Oldest /\ Oldest.seq = Wanted
  /\ wire[n].of \in Answers
  /\ answered' = answered \union {[seq |-> req.seq, from |-> Oldest.session]}
  /\ \/ /\ call' = [call EXCEPT !.ret = "raised"] /\ phase' = "idle"
     \/ /\ call' = [call EXCEPT !.total = @ + wire[n].of.value, !.left = @ - 1,
                                !.ret = IF call.left = 1 THEN "total" ELSE "none"]
        /\ phase' = IF call.left = 1 THEN "idle" ELSE "send"
  /\ UNCHANGED <<session, seq, req>>

LEMMA HeaderRead ==
  ASSUME BridgeTyped, Len(wire) >= 2
  PROVE  /\ 2 \in 0 .. Len(wire) /\ wire # <<>>
         /\ SubSeq(wire, 1, 2)[1] = wire[1] /\ SubSeq(wire, 1, 2)[2] = wire[2]
<1>. DEFINE m == Len(wire)
<1>1. m \in Nat /\ wire \in Seq(PiecesFor(Answers))
  BY DEF BridgeTyped
<1>2. 2 \in 0 .. m /\ m # 0
  <2>1. m >= 2
    OBVIOUS
  <2>. HIDE DEF m
  <2>. QED
    BY <1>1, <2>1
<1>3. wire # <<>>
  BY <1>1, <1>2, Nonempty
<1>4. SubSeq(wire, 1, 2)[1] = wire[1] /\ SubSeq(wire, 1, 2)[2] = wire[2]
  BY <1>1
<1>. QED
  BY <1>2, <1>3, <1>4

\* The payload that is waited for is at the front of the line.
LEMMA PayloadFits ==
  ASSUME BridgeTyped, LineInv, WrittenInv, AnswerInv, phase = "payload"
  PROVE  AtPayload /\ Oldest.seq = Wanted /\ Wanted = req.seq
<1>1. Wanted = seq - 1 /\ req.seq = seq - 1 /\ Newest = req
  BY DEF BridgeTyped, WrittenInv, Talking, Wanted
<1>2. CASE Fresh
  BY <1>1, <1>2 DEF Fresh
<1>3. CASE OwnAnswers
  BY <1>1, <1>3 DEF OwnAnswers, InStep, OutOfStep
<1>4. CASE ForeignAnswers
  BY <1>1, <1>4 DEF ForeignAnswers, Behind
<1>. QED
  BY <1>1, <1>2, <1>3, <1>4 DEF AnswerInv

LEMMA TimedOutFails ==
  ASSUME NEW s, NEW q, NEW c, BridgeTyped, BridgeOf(s, q, c)!TimedOut
  PROVE  \E n : BridgeFails(n)
<1>. USE DEF BridgeFails, BridgeOf!Raised, Talking, Takes, Dropped
<1>1. CASE phase = "header" /\ BridgeOf(s, q, c)!TakeShort(2)
  <2>1. PICK n \in 0 .. 2 - 1 : n <= Len(wire) /\ BridgeOf(s, q, c)!Take(n)
    BY <1>1 DEF BridgeOf!TakeShort
  <2>2. n \in 0 .. Len(wire) /\ n <= 1
    BY <2>1 DEF BridgeTyped
  <2>. QED
    BY <1>1, <2>1, <2>2 DEF BridgeOf!TimedOut, BridgeOf!Take
<1>2. CASE phase = "payload" /\ BridgeOf(s, q, c)!TakeShort(1)
  <2>1. PICK n \in 0 .. 1 - 1 : n <= Len(wire) /\ BridgeOf(s, q, c)!Take(n)
    BY <1>2 DEF BridgeOf!TakeShort
  <2>2. n \in 0 .. Len(wire) /\ n = 0
    BY <2>1 DEF BridgeTyped
  <2>. QED
    BY <1>2, <2>1, <2>2 DEF BridgeOf!TimedOut, BridgeOf!Take
<1>. QED
  BY <1>1, <1>2 DEF BridgeOf!TimedOut

\* A read of a header fails, goes on to the payload, or is the whole answer.
LEMMA ReadHeaderStep ==
  ASSUME NEW s, NEW q, NEW c, BridgeTyped, LineInv, BridgeOf(s, q, c)!ReadHeader
  PROVE  \/ \E n : BridgeFails(n)
         \/ /\ phase = "header" /\ Takes(2) /\ HeaderFits /\ AlignedIn(wire) /\ wire # <<>>
            /\ wire[1].of.data # 0 /\ phase' = "payload"
            /\ UNCHANGED <<session, seq, req, call, answered>>
         \/ \E n : BridgeReturns(n)
<1>. DEFINE h == SubSeq(wire, 1, 2)
<1>1. 2 \in 0 .. Len(wire) /\ wire # <<>> /\ h[1] = wire[1] /\ h[2] = wire[2]
  BY HeaderRead DEF BridgeOf!ReadHeader
<1>2. BridgeOf(s, q, c)!Matches(h) <=> HeaderFits
  BY <1>1 DEF BridgeOf!Matches, BridgeOf!IsHeader, HeaderFits
<1>3. phase = "header" /\ Takes(2) /\ Talking
  BY <1>1 DEF BridgeOf!ReadHeader, BridgeOf!Take, Takes, Dropped, Talking
<1>. HIDE DEF h
<1>4. CASE ~HeaderFits
  <2>1. BridgeOf(s, q, c)!Raised
    BY <1>2, <1>4 DEF BridgeOf!ReadHeader, h
  <2>2. BridgeFails(2)
    BY <1>3, <1>4, <2>1 DEF BridgeFails, BridgeOf!Raised
  <2>. QED
    BY <2>2
<1>5. CASE HeaderFits
  <2>1. AlignedIn(wire)
    BY <1>5 DEF HeaderFits, AlignedIn
  <2>2. \/ /\ wire[1].of.data > 0 /\ phase' = "payload"
           /\ UNCHANGED <<session, seq, req, call, answered>>
        \/ wire[1].of.data = 0 /\ BridgeOf(s, q, c)!Returned(wire[1].of)
    BY <1>1, <1>2, <1>5 DEF BridgeOf!ReadHeader, h
  <2>3. CASE wire[1].of.data = 0 /\ BridgeOf(s, q, c)!Returned(wire[1].of)
    <3>1. /\ Ends(wire[2]) /\ wire[2].of = wire[1].of /\ wire[2].of.of = Oldest /\ wire[1].of.of = Oldest
          /\ wire[1].of \in Answers
      BY <1>1, <2>1, <2>3, TakesHeader
    <3>2. Oldest.seq = Wanted
      BY <1>3, <1>5, <3>1 DEF HeaderFits, BridgeTyped, Wanted
    <3>3. BridgeReturns(2)
      BY <1>3, <2>3, <3>1, <3>2 DEF BridgeReturns, BridgeOf!Returned
    <3>. QED
      BY <3>3
  <2>4. CASE /\ wire[1].of.data > 0 /\ phase' = "payload"
             /\ UNCHANGED <<session, seq, req, call, answered>>
    BY <1>1, <1>3, <1>5, <2>1, <2>4
  <2>. QED
    BY <2>2, <2>3, <2>4
<1>. QED
  BY <1>4, <1>5

LEMMA ReadPayloadStep ==
  ASSUME NEW s, NEW q, NEW c, BridgeTyped, LineInv, WrittenInv, AnswerInv, BridgeOf(s, q, c)!ReadPayload
  PROVE  BridgeReturns(1)
<1>1. phase = "payload" /\ wire # <<>> /\ Head(wire) = wire[1] /\ BridgeOf(s, q, c)!Returned(wire[1].of)
  BY DEF BridgeOf!ReadPayload, BridgeTyped
<1>2. AtPayload /\ Oldest.seq = Wanted /\ Talking
  BY <1>1, PayloadFits DEF Talking
<1>3. 1 \in 0 .. Len(wire) /\ wire[1] \in PiecesFor(Answers)
  BY <1>1, BridgeSane, Nonempty
<1>4. Takes(1)
  BY <1>3 DEF BridgeOf!ReadPayload, BridgeOf!Take, Takes, Dropped
<1>5. Ends(wire[1]) /\ wire[1].of.of = Oldest /\ wire[1].of \in Answers
  BY <1>1, <1>2, <1>3 DEF Ends, AtPayload, Oldest, OldestOf, PiecesFor
<1>. QED
  BY <1>1, <1>2, <1>4, <1>5 DEF BridgeReturns, BridgeOf!Returned

\* A request that follows one that is behind is behind by as much.
LEMMA BehindBy ==
  ASSUME NEW x \in Nat, NEW y \in Nat, NEW u \in Nat, NEW v \in Nat, NEW t \in Nat, NEW w \in Nat,
         w # 0, x >= t, y <= w, x # t => y < w, (u = x /\ v = y + 1) \/ (u > x /\ v = 1)
  PROVE  u >= t /\ v <= w + 1 /\ (u # t => v < w + 1)
OBVIOUS

LEMMA FollowsBehind ==
  ASSUME NEW a, NEW b, a.session \in Nat, a.seq \in Nat, b.session \in Nat, b.seq \in Nat,
         NEW t \in Nat, NEW w \in Nat, w # 0,
         a.session >= t, a.seq <= w, a.session # t => a.seq < w, Follows(a, b)
  PROVE  b.session >= t /\ b.seq <= w + 1 /\ (b.session # t => b.seq < w + 1)
<1>1. \/ b.session = a.session /\ b.seq = a.seq + 1
      \/ b.session > a.session /\ b.seq = 1
  BY DEF Follows
<1>. QED
  BY <1>1, BehindBy

LEMMA OldestIn ==
  ASSUME NEW w \in Seq(PiecesFor(Answers)), NEW b \in Seq(Requests), Pending(w, b)
  PROVE  OldestOf(w, b).session \in Nat /\ OldestOf(w, b).seq \in Nat
<1>1. w # <<>> => w[1] \in PiecesFor(Answers)
  BY Nonempty
<1>2. b # <<>> => b[1] \in Requests
  BY Nonempty
<1>3. OldestOf(w, b) \in Requests
  BY <1>1, <1>2 DEF OldestOf, Pending, PiecesFor, Answers
<1>. QED
  BY <1>3 DEF Requests

\* While a request is under way, a read that does not reach past it keeps the line in order.
LEMMA ReadKeepsLine ==
  ASSUME BridgeInv, Talking, NEW n, Takes(n), UNCHANGED <<session, seq, req>>
  PROVE  /\ inbox' \in Seq(Requests) /\ wire' \in Seq(PiecesFor(Answers)) /\ executed' \in Seq(Answers)
         /\ LineInv' /\ ExecutedInv'
         /\ Busy' => Newest' = req /\ Newest = req
         /\ (phase' # "closed" /\ (Talking' => Busy')) => WrittenInv'
         /\ phase' = "closed" => WrittenInv'
<1>1. BridgeTyped /\ LineInv /\ WrittenInv /\ ExecutedInv
  BY DEF BridgeInv
<1>2. /\ wire' \in Seq(PiecesFor(Answers)) /\ LineInv' /\ (Busy' => Busy /\ Newest' = Newest)
      /\ \A i \in 1 .. Len(wire') : \E j \in 1 .. Len(executed') : executed'[j] = wire'[i].of
  BY <1>1, TakesLine
<1>3. inbox' = inbox /\ executed' = executed /\ inbox' \in Seq(Requests) /\ executed' \in Seq(Answers)
  BY <1>1 DEF Takes, BridgeTyped
<1>4. Newest = req /\ req.session = session /\ req.seq = seq - 1 /\ seq # 1 /\ phase # "closed" /\ session \in Nat
  BY <1>1 DEF WrittenInv, BridgeTyped, Talking
<1>5. ExecutedInv'
  BY <1>1, <1>2, <1>3, <1>4 DEF ExecutedInv
<1>6. phase' # "closed" /\ (Talking' => Busy') => WrittenInv'
  BY <1>2, <1>4 DEF WrittenInv
<1>7. phase' = "closed" => WrittenInv'
  BY <1>2, <1>4 DEF WrittenInv, Talking
<1>. QED
  BY <1>2, <1>3, <1>4, <1>5, <1>6, <1>7

\* A failed read leaves the line behind the numbers, and never at the newest answer's end.
LEMMA FailsAnswers ==
  ASSUME BridgeInv, NEW n, BridgeFails(n)
  PROVE  AnswerInv'
<1>1. BridgeTyped /\ LineInv /\ WrittenInv /\ ExecutedInv /\ AnswerInv
  BY DEF BridgeInv
<1>2. Talking /\ Takes(n) /\ UNCHANGED <<session, seq, req, answered>> /\ call'.ret = "raised"
  BY <1>1 DEF BridgeFails, BridgeTyped, Calls
<1>3. n \in 0 .. Len(wire) /\ n \in Nat /\ Dropped(wire', wire, n) /\ inbox' = inbox /\ n <= 2
  BY <1>1, <1>2 DEF Takes, BridgeFails, BridgeTyped
<1>4. /\ Busy /\ Newest = req /\ req.seq = seq - 1 /\ req.session = session /\ seq \in Nat /\ seq # 0 /\ seq # 1
      /\ Wanted = seq - 1 /\ req.cmd = call.op
  BY <1>1, <1>2 DEF WrittenInv, BridgeTyped, Wanted, Talking
<1>5. CASE call.op = "ping"
  <2>1. phase' = "closed" /\ phase # "closed"
    BY <1>2, <1>5 DEF BridgeFails, Talking
  <2>. QED
    BY <1>1, <1>2, <2>1 DEF AnswerInv, Fresh, OwnAnswers, ForeignAnswers
<1>6. CASE call.op # "ping"
  <2>1. phase' = "idle" /\ Wanted' = seq /\ phase # "closed"
    BY <1>2, <1>6 DEF BridgeFails, Wanted, Talking
  <2>2. Oldest.session \in Nat /\ Oldest.seq \in Nat /\ Oldest.seq # 0
    BY <1>1, <1>4, BridgeEnds
  <2>3. Oldest # Newest => Busy' /\ (Oldest' = Oldest \/ Follows(Oldest, Oldest'))
    BY <1>1, <1>2, <1>3, <1>4, TakesTwo
  <2>4. CASE OwnAnswers
    <3>1. PICK m \in Nat : /\ m # 0 /\ answered = {[seq |-> i, from |-> session] : i \in 1 .. m}
                           /\ InStep \/ OutOfStep
      BY <2>1, <2>4 DEF OwnAnswers
    <3>2. CASE InStep
      <4>1. Oldest = Newest
        BY <1>2, <3>2 DEF InStep, Talking
      <4>2. Busy' /\ Oldest' = Oldest
        <5>1. CASE n = 0
          <6>1. wire' = wire
            BY <1>1, <1>3, <5>1, BridgeSane, NoneDropped
          <6>. QED
            BY <1>3, <1>4, <6>1 DEF Busy, Oldest
        <5>2. CASE n # 0
          <6>1. phase = "header" /\ wire # <<>>
            <7>1. Len(wire) \in Nat /\ Len(wire) # 0
              BY <1>1, <1>3, <5>2 DEF BridgeTyped
            <7>. QED
              BY <1>1, <5>2, <7>1, BridgeSane, Nonempty DEF BridgeFails
          <6>2. AlignedIn(wire)
            BY <3>2, <6>1 DEF InStep
          <6>3. /\ wire[1].half = 1 /\ wire[2].half = 2 /\ wire[2].of = wire[1].of /\ wire[1].of.of = Oldest
            BY <1>1, <6>1, <6>2, TakesHeader
          <6>4. HeaderFits
            BY <1>4, <4>1, <6>3 DEF HeaderFits
          <6>5. n <= 1
            BY <6>1, <6>4 DEF BridgeFails
          <6>6. n = 1 /\ 1 \in 1 .. Len(wire) /\ ~Ends(wire[1])
            BY <1>1, <1>3, <5>2, <6>1, <6>3, <6>5, BridgeSane, Nonempty DEF Ends
          <6>7. wire' # <<>> /\ OldestOf(wire', inbox) = OldestOf(wire, inbox)
            BY <1>1, <1>3, <6>3, <6>6, BridgeSane, LineWithin DEF LineInv, Oldest
          <6>. QED
            BY <1>3, <6>7 DEF Busy, Pending, Oldest
        <5>. QED
          BY <5>1, <5>2
      <4>3. Oldest'.seq < Wanted'
        BY <1>4, <2>1, <4>1, <4>2
      <4>4. OutOfStep'
        BY <1>2, <2>1, <4>2, <4>3 DEF OutOfStep
      <4>. QED
        BY <1>2, <3>1, <4>4 DEF OwnAnswers, AnswerInv
    <3>3. CASE OutOfStep
      <4>1. Oldest.seq < seq - 1 /\ Oldest # Newest
        BY <1>4, <2>2, <3>3 DEF OutOfStep
      <4>2. Busy' /\ Oldest'.seq < Wanted'
        BY <1>4, <2>1, <2>2, <2>3, <4>1 DEF Follows
      <4>3. OutOfStep'
        BY <1>2, <2>1, <4>2 DEF OutOfStep
      <4>. QED
        BY <1>2, <3>1, <4>3 DEF OwnAnswers, AnswerInv
    <3>. QED
      BY <3>1, <3>2, <3>3
  <2>5. CASE ForeignAnswers
    <3>1. PICK t \in Nat : t < session /\ answered # {} /\ (\A a \in answered : a.from = t) /\ Behind(t)
      BY <2>1, <2>5 DEF ForeignAnswers
    <3>2. /\ Oldest.session >= t /\ Oldest.seq <= seq - 1
          /\ Oldest.session # t => Oldest.seq < seq - 1
      BY <1>4, <3>1 DEF Behind
    <3>3. Oldest # Newest
      BY <1>4, <2>2, <3>1, <3>2
    <3>4. /\ Oldest'.session >= t /\ Oldest'.seq <= seq
          /\ Oldest'.session # t => Oldest'.seq < seq
      <4>1. CASE Oldest' = Oldest
        <5>1. /\ Oldest.session >= t /\ Oldest.seq <= seq
              /\ Oldest.session # t => Oldest.seq < seq
          BY <1>4, <2>2, <3>2
        <5>. QED
          BY <4>1, <5>1
      <4>2. CASE Follows(Oldest, Oldest')
        <5>1. seq - 1 \in Nat /\ seq - 1 # 0 /\ (seq - 1) + 1 = seq
          BY <1>4
        <5>2. Oldest'.session \in Nat /\ Oldest'.seq \in Nat
          BY <1>1, <1>2, <2>3, <3>3, ReadKeepsLine, OldestIn DEF Busy, Oldest
        <5>. QED
          BY <2>2, <3>2, <4>2, <5>1, <5>2, FollowsBehind
      <4>. QED
        BY <2>3, <3>3, <4>1, <4>2
    <3>5. Behind(t)'
      BY <1>4, <2>1, <2>3, <3>3, <3>4 DEF Behind
    <3>. QED
      BY <1>2, <3>1, <3>5 DEF ForeignAnswers, AnswerInv
  <2>6. ~Fresh
    BY <1>6, <2>1 DEF Fresh
  <2>. QED
    BY <1>1, <2>4, <2>5, <2>6 DEF AnswerInv
<1>. QED
  BY <1>5, <1>6

LEMMA FailsKeeps ==
  ASSUME BridgeInv, NEW n, BridgeFails(n)
  PROVE  BridgeInv'
<1>1. BridgeTyped
  BY DEF BridgeInv
<1>2. Talking /\ Takes(n) /\ UNCHANGED <<session, seq, req>>
  BY DEF BridgeFails
<1>3. /\ phase' \in {"closed", "idle"} /\ ~Talking' /\ call' \in Calls /\ call'.op = call.op
      /\ call.op \in Commands
  BY <1>1, <1>2 DEF BridgeFails, BridgeTyped, Talking, Calls
<1>4. BridgeTyped'
  BY <1>1, <1>2, <1>3, ReadKeepsLine DEF BridgeTyped
<1>5. LineInv' /\ ExecutedInv' /\ WrittenInv'
  BY <1>2, <1>3, ReadKeepsLine
<1>. QED
  BY <1>4, <1>5, FailsAnswers DEF BridgeInv

\* The header fits, and its payload is waited for.
LEMMA ToPayloadKeeps ==
  ASSUME BridgeInv, phase = "header", Takes(2), HeaderFits, AlignedIn(wire), wire # <<>>,
         wire[1].of.data # 0, phase' = "payload", UNCHANGED <<session, seq, req, call, answered>>
  PROVE  BridgeInv'
<1>1. BridgeTyped /\ LineInv /\ WrittenInv /\ ExecutedInv /\ AnswerInv
  BY DEF BridgeInv
<1>2. Talking /\ Talking' /\ Wanted' = Wanted /\ Wanted = seq - 1 /\ seq \in Nat
  BY <1>1 DEF Talking, Wanted, BridgeTyped
<1>3. AtPayload' /\ Oldest' = Oldest /\ wire[1].of.of = Oldest
  BY <1>1, TakesHeader
<1>4. Busy /\ Busy' /\ Oldest.seq = Wanted /\ Newest = req /\ Newest' = req
  BY <1>1, <1>2, <1>3, ReadKeepsLine DEF AtPayload, Busy, Pending, HeaderFits, BridgeTyped
<1>5. BridgeTyped'
  BY <1>1, <1>2, ReadKeepsLine DEF BridgeTyped, Talking
<1>6. LineInv' /\ ExecutedInv' /\ WrittenInv'
  BY <1>2, <1>4, ReadKeepsLine
<1>7. AnswerInv'
  <2>1. CASE Fresh
    <3>1. Oldest'.seq = 1
      BY <1>3, <1>4, <2>1 DEF Fresh
    <3>. QED
      BY <1>2, <1>3, <2>1, <3>1 DEF Fresh, AnswerInv
  <2>2. CASE OwnAnswers
    <3>1. PICK m \in Nat : /\ m # 0 /\ answered = {[seq |-> i, from |-> session] : i \in 1 .. m}
                           /\ (InStep /\ m = Wanted - 1) \/ OutOfStep
      BY <2>2 DEF OwnAnswers
    <3>2. ~OutOfStep
      BY <1>2, <1>4 DEF OutOfStep
    <3>3. SumInv(Wanted - 1)'
      BY <1>2, <3>1, <3>2 DEF InStep, SumInv, Counted, Takes
    <3>4. InStep'
      BY <1>3, <1>4, <3>1, <3>2, <3>3 DEF InStep
    <3>. QED
      BY <1>2, <3>1, <3>2, <3>4 DEF OwnAnswers, AnswerInv
  <2>3. CASE ForeignAnswers
    <3>1. PICK t \in Nat : t < session /\ answered # {} /\ (\A a \in answered : a.from = t) /\ Behind(t)
      BY <2>3 DEF ForeignAnswers
    <3>2. Behind(t)'
      BY <1>2, <1>3, <1>4, <3>1 DEF Behind
    <3>. QED
      BY <3>1, <3>2 DEF ForeignAnswers, AnswerInv
  <2>. QED
    BY <1>1, <2>1, <2>2, <2>3 DEF AnswerInv
<1>. QED
  BY <1>5, <1>6, <1>7 DEF BridgeInv

\* The answer of the transport's own newest request adds what it wrote to the sum.
LEMMA ReturnedSum ==
  ASSUME BridgeInv, NEW n, BridgeReturns(n), NEW m \in Nat, m = Wanted - 1, SumInv(m), Oldest = Newest
  PROVE  SumInv(m + 1)'
<1>1. BridgeTyped /\ LineInv /\ WrittenInv /\ ExecutedInv /\ Talking /\ Takes(n)
  BY DEF BridgeInv, BridgeReturns
<1>. SUFFICES ASSUME call'.op = "spi_write", call'.ret # "raised"
              PROVE  call'.from <= (m + 1) + 1 /\ call'.total = Cardinality(Counted(call.from, m + 1)')
  BY DEF SumInv, Counted
<1>2. /\ wire[n].of.of = req /\ wire[n].of \in Answers /\ n \in 1 .. Len(wire)
      /\ req.session = session /\ req.seq = m + 1
  BY <1>1 DEF BridgeReturns, WrittenInv, BridgeTyped, Takes, Wanted, Talking
<1>3. /\ call'.op = call.op /\ call'.from = call.from /\ call'.total = call.total + wire[n].of.value
      /\ call.ret # "raised" /\ call.from \in Nat /\ call.total \in Nat
  BY <1>1 DEF BridgeReturns, BridgeTyped, Calls, Talking
<1>4. call.from <= m + 1 /\ call.total = Cardinality(Counted(call.from, m))
  BY <1>3 DEF SumInv
<1>5. PICK k \in 1 .. Len(executed) : executed[k] = wire[n].of
  BY <1>1, <1>2 DEF ExecutedInv
<1>6. \A i \in 1 .. Len(executed) : executed[i].of.session \in Nat /\ executed[i].of.seq \in Nat
  <2>. TAKE i \in 1 .. Len(executed)
  <2>1. executed[i] \in Answers
    BY <1>1 DEF BridgeTyped
  <2>. QED
    BY <2>1 DEF Answers, Requests
<1>7. Len(executed) \in Nat
  BY <1>1 DEF BridgeTyped
<1>8. ASSUME NEW i \in 1 .. Len(executed), executed[i].of.session = session, executed[i].of.seq = m + 1
      PROVE  i = k
  <2>1. i < k => Before(executed[i].of, executed[k].of)
    BY <1>1 DEF ExecutedInv
  <2>2. k < i => Before(executed[k].of, executed[i].of)
    BY <1>1 DEF ExecutedInv
  <2>3. executed[k].of.session = session /\ executed[k].of.seq = m + 1
    BY <1>2, <1>5
  <2>4. ~(i < k) /\ ~(k < i)
    BY <1>6, <1>8, <2>1, <2>2, <2>3 DEF Before
  <2>. QED
    BY <1>7, <2>4
<1>. DEFINE old == Counted(call.from, m)
            new == Counted(call.from, m + 1)
            val == wire[n].of.value
<1>9. k \notin old /\ IsFiniteSet(old)
  <2>1. executed[k].of.seq = m + 1
    BY <1>2, <1>5
  <2>2. old \subseteq 1 .. Len(executed)
    BY DEF Counted
  <2>3. IsFiniteSet(1 .. Len(executed))
    BY <1>7, FS_Interval
  <2>4. IsFiniteSet(old)
    <3>. HIDE DEF old
    <3>. QED
      BY <2>2, <2>3, FS_Subset
  <2>5. ~(m + 1 <= m)
    OBVIOUS
  <2>. QED
    BY <2>1, <2>4, <2>5 DEF Counted
<1>10. new = IF val = 1 THEN old \union {k} ELSE old
  <2>1. ASSUME NEW i \in 1 .. Len(executed)
        PROVE  i \in new <=> i \in old \/ (val = 1 /\ i = k)
    <3>1. CASE i = k
      <4>1. executed[i].of.session = session /\ executed[i].of.seq = m + 1 /\ executed[i].value = val
        BY <1>2, <1>5, <3>1
      <4>2. call.from <= m + 1 /\ m + 1 <= m + 1
        BY <1>4
      <4>3. i \in new <=> val = 1
        BY <1>3, <4>1, <4>2 DEF Counted
      <4>. QED
        BY <1>9, <3>1, <4>3
    <3>2. CASE i # k
      <4>1. executed[i].of.session = session => executed[i].of.seq # m + 1
        BY <1>8, <3>2
      <4>2. executed[i].of.seq \in Nat
        BY <1>6
      <4>3. executed[i].of.session = session => (executed[i].of.seq <= m + 1 <=> executed[i].of.seq <= m)
        BY <4>1, <4>2
      <4>4. i \in new <=> i \in old
        BY <4>3 DEF Counted
      <4>. QED
        BY <3>2, <4>4
    <3>. QED
      BY <3>1, <3>2
  <2>2. new \subseteq 1 .. Len(executed) /\ old \subseteq 1 .. Len(executed)
    BY DEF Counted
  <2>. HIDE DEF new, old, val
  <2>. QED
    BY <2>1, <2>2
<1>11. val \in {0, 1}
  BY <1>2 DEF Answers
<1>12. Cardinality(new) = Cardinality(old) + val
  <2>1. Cardinality(old) \in Nat
    BY <1>9, FS_CardinalityType
  <2>2. CASE val = 1
    <3>1. new = old \union {k}
      BY <1>10, <2>2
    <3>. HIDE DEF new, old, val
    <3>2. Cardinality(old \union {k}) = Cardinality(old) + 1
      BY <1>9, FS_AddElement
    <3>. QED
      BY <2>2, <3>1, <3>2
  <2>3. CASE val = 0
    <3>1. new = old
      BY <1>10, <2>3
    <3>. HIDE DEF new, old, val
    <3>. QED
      BY <2>1, <2>3, <3>1
  <2>. QED
    BY <1>11, <2>2, <2>3
<1>13. Counted(call.from, m + 1)' = new
  BY <1>1, <1>3 DEF Counted, BridgeReturns, Takes
<1>14. call'.total = Cardinality(new)
  <2>. HIDE DEF new, old
  <2>1. call.total = Cardinality(old)
    BY <1>4 DEF old
  <2>. QED
    BY <1>3, <1>12, <2>1
<1>15. call'.from <= (m + 1) + 1
  BY <1>3, <1>4
<1>. QED
  BY <1>13, <1>14, <1>15

LEMMA ReturnsAnswers ==
  ASSUME BridgeInv, NEW n, BridgeReturns(n)
  PROVE  AnswerInv'
<1>1. BridgeTyped /\ LineInv /\ WrittenInv /\ ExecutedInv /\ AnswerInv
  BY DEF BridgeInv
<1>2. /\ Talking /\ Takes(n) /\ n # 0 /\ Ends(wire[n]) /\ wire[n].of.of = Oldest /\ Oldest.seq = Wanted
      /\ answered' = answered \union {[seq |-> req.seq, from |-> Oldest.session]}
      /\ UNCHANGED <<session, seq, req>>
  BY DEF BridgeReturns
<1>3. Newest = req /\ req.seq = seq - 1 /\ req.session = session /\ seq \in Nat /\ seq # 0 /\ seq # 1
      /\ Wanted = seq - 1
  BY <1>1, <1>2 DEF WrittenInv, BridgeTyped, Wanted, Talking
<1>4. Busy /\ (Busy' <=> Oldest # Newest) /\ (Busy' => Follows(Oldest, Oldest'))
  BY <1>1, <1>2, TakesEnd
<1>5. /\ Oldest.session \in Nat /\ Oldest.seq \in Nat
      /\ Before(Oldest, Newest) \/ Oldest = Newest
  BY <1>1, <1>4, BridgeEnds
<1>6. phase' \in {"idle", "send"} /\ ~Talking' /\ phase' # "closed" /\ Wanted' = seq /\ phase # "closed"
  BY <1>1, <1>2 DEF BridgeReturns, Talking, Wanted
<1>7. session \in Nat
  BY <1>1 DEF BridgeTyped
<1>8. ASSUME Oldest = Newest, SumInv(Wanted - 1)' PROVE InStep'
  <2>1. ~Busy'
    BY <1>4, <1>8
  <2>. QED
    BY <1>6, <1>8, <2>1 DEF InStep
<1>9. ASSUME Oldest # Newest PROVE Oldest.session < session
  BY <1>2, <1>3, <1>5, <1>9 DEF Before
<1>10. ASSUME NEW t \in Nat, Oldest.session = t, Oldest # Newest PROVE Behind(t)'
  <2>1. Busy' /\ Follows(Oldest, Oldest')
    BY <1>4, <1>10
  <2>2. Oldest'.session >= t /\ Oldest'.seq <= seq /\ (Oldest'.session # t => Oldest'.seq < seq)
    <3>1. seq - 1 \in Nat /\ seq - 1 # 0 /\ (seq - 1) + 1 = seq
      BY <1>3
    <3>2. Oldest.session >= t /\ Oldest.seq <= seq - 1
      BY <1>2, <1>3, <1>5, <1>10
    <3>3. Oldest'.session \in Nat /\ Oldest'.seq \in Nat
      BY <1>2, <2>1, ReadKeepsLine, OldestIn DEF Busy, Oldest
    <3>. QED
      BY <1>5, <1>10, <2>1, <3>1, <3>2, <3>3, FollowsBehind
  <2>. QED
    BY <1>3, <1>6, <2>1, <2>2 DEF Behind
<1>11. CASE Fresh
  <2>1. Wanted = 1 /\ call.op = "ping" /\ seq = 2
    BY <1>3, <1>6, <1>11 DEF Fresh
  <2>2. answered' = {[seq |-> 1, from |-> Oldest.session]}
    BY <1>2, <1>3, <1>11, <2>1 DEF Fresh
  <2>3. CASE Oldest = Newest
    <3>1. answered' = {[seq |-> i, from |-> session'] : i \in 1 .. 1}
      <4>1. 1 .. 1 = {1}
        OBVIOUS
      <4>2. Oldest.session = session'
        BY <1>2, <1>3, <2>3
      <4>. QED
        BY <2>2, <4>1, <4>2
    <3>2. SumInv(Wanted - 1)'
      <4>1. call'.op = "ping"
        BY <1>1, <2>1 DEF BridgeReturns, BridgeTyped, Calls
      <4>. QED
        BY <4>1 DEF SumInv
    <3>3. InStep' /\ 1 = Wanted' - 1
      BY <1>6, <1>8, <2>1, <2>3, <3>2
    <3>. QED
      BY <3>1, <3>3 DEF OwnAnswers, AnswerInv
  <2>4. CASE Oldest # Newest
    <3>2. PICK t \in Nat : t = Oldest.session
      BY <1>5
    <3>3. Behind(t)' /\ t < session'
      BY <1>2, <1>9, <1>10, <2>4, <3>2
    <3>4. answered' # {} /\ \A a \in answered' : a.from = t
      BY <2>2, <3>2
    <3>. QED
      BY <3>3, <3>4 DEF ForeignAnswers, AnswerInv
  <2>. QED
    BY <2>3, <2>4
<1>12. CASE OwnAnswers
  <2>1. PICK m \in Nat : /\ m # 0 /\ answered = {[seq |-> i, from |-> session] : i \in 1 .. m}
                         /\ (InStep /\ m = Wanted - 1) \/ OutOfStep
    BY <1>6, <1>12 DEF OwnAnswers
  <2>2. InStep /\ m = Wanted - 1 /\ m + 1 = seq - 1
    BY <1>2, <1>3, <2>1 DEF OutOfStep
  <2>3. Oldest = Newest
    BY <1>2, <2>2 DEF InStep, Talking
  <2>4. answered' = {[seq |-> i, from |-> session'] : i \in 1 .. m + 1}
    <3>1. answered' = {[seq |-> i, from |-> session] : i \in 1 .. m} \union {[seq |-> m + 1, from |-> session]}
      BY <1>2, <1>3, <2>1, <2>2, <2>3
    <3>2. 1 .. m + 1 = (1 .. m) \union {m + 1}
      OBVIOUS
    <3>. QED
      BY <1>2, <3>1, <3>2
  <2>5. SumInv(m + 1)'
    BY <2>2, <2>3, ReturnedSum DEF InStep, SumInv, Counted
  <2>6. SumInv(Wanted - 1)' /\ m + 1 = Wanted' - 1
    BY <1>3, <1>6, <2>2, <2>5 DEF SumInv, Counted
  <2>7. InStep'
    BY <1>8, <2>3, <2>6
  <2>8. m + 1 \in Nat /\ m + 1 # 0
    OBVIOUS
  <2>. QED
    BY <2>4, <2>6, <2>7, <2>8 DEF OwnAnswers, AnswerInv
<1>13. CASE ForeignAnswers
  <2>1. PICK t \in Nat : t < session /\ answered # {} /\ (\A a \in answered : a.from = t) /\ Behind(t)
    BY <1>6, <1>13 DEF ForeignAnswers
  <2>2. Oldest.session = t
    BY <1>2, <1>3, <1>5, <2>1 DEF Behind
  <2>3. Oldest # Newest
    BY <1>3, <1>7, <2>1, <2>2
  <2>4. Behind(t)'
    BY <1>10, <2>2, <2>3
  <2>5. answered' # {} /\ \A a \in answered' : a.from = t
    BY <1>2, <2>1, <2>2
  <2>. QED
    BY <1>2, <2>1, <2>4, <2>5 DEF ForeignAnswers, AnswerInv
<1>. QED
  BY <1>1, <1>11, <1>12, <1>13 DEF AnswerInv

LEMMA ReturnsKeeps ==
  ASSUME BridgeInv, NEW n, BridgeReturns(n)
  PROVE  BridgeInv'
<1>1. BridgeTyped
  BY DEF BridgeInv
<1>2. Talking /\ Takes(n) /\ UNCHANGED <<session, seq, req>> /\ wire[n].of \in Answers
  BY DEF BridgeReturns
<1>3. phase' \in {"idle", "send"} /\ ~Talking' /\ phase' # "closed"
  BY DEF BridgeReturns, Talking
<1>4. /\ call' \in Calls /\ call'.op = call.op /\ call.op \in Commands
      /\ phase' = "send" => call'.left # 0 /\ call'.ret = "none"
  <2>1. wire[n].of.value \in Nat /\ call \in Calls /\ call.left # 0 /\ call.op \in Commands
    BY <1>1, <1>2 DEF Answers, BridgeTyped, Talking
  <2>2. call.left \in Nat /\ call.total \in Nat
    BY <2>1 DEF Calls
  <2>3. CASE call' = [call EXCEPT !.ret = "raised"] /\ phase' = "idle"
    BY <2>1, <2>3 DEF Calls
  <2>4. CASE /\ call' = [call EXCEPT !.total = @ + wire[n].of.value, !.left = @ - 1,
                                   !.ret = IF call.left = 1 THEN "total" ELSE "none"]
             /\ phase' = IF call.left = 1 THEN "idle" ELSE "send"
    <3>1. call.left - 1 \in Nat /\ call.total + wire[n].of.value \in Nat /\ (call.left # 1 => call.left - 1 # 0)
      BY <2>1, <2>2
    <3>2. call' = [op |-> call.op, left |-> call.left - 1, total |-> call.total + wire[n].of.value,
                   from |-> call.from, ret |-> IF call.left = 1 THEN "total" ELSE "none"]
      BY <2>1, <2>4 DEF Calls
    <3>. QED
      BY <2>1, <2>4, <3>1, <3>2 DEF Calls
  <2>. QED
    BY <2>1, <2>3, <2>4 DEF BridgeReturns
<1>5. BridgeTyped'
  BY <1>1, <1>2, <1>3, <1>4, ReadKeepsLine DEF BridgeTyped
<1>6. LineInv' /\ ExecutedInv' /\ WrittenInv'
  BY <1>2, <1>3, ReadKeepsLine
<1>. QED
  BY <1>5, <1>6, ReturnsAnswers DEF BridgeInv

-----------------------------------------------------------------------------
(* What the bridge promises                                                 *)

LEMMA BridgeInit ==
  ASSUME NEW s, NEW q, NEW c, BridgeOf(s, q, c)!Init
  PROVE  BridgeInv
<1>1. /\ inbox = <<>> /\ wire = <<>> /\ executed = <<>> /\ session = 0 /\ seq = 1 /\ phase = "closed"
      /\ call = [op |-> "none", left |-> 0, total |-> 0, from |-> 0, ret |-> "none"] /\ answered = {}
  BY DEF BridgeOf!Init, BridgeOf!NoCall
<1>2. BridgeTyped
  BY <1>1 DEF BridgeTyped, Talking, Calls, Commands
<1>3. LineInv
  BY <1>1 DEF LineInv, LineOk
<1>4. WrittenInv
  BY <1>1 DEF WrittenInv, Busy, Pending, Talking
<1>5. ExecutedInv
  BY <1>1 DEF ExecutedInv
<1>6. AnswerInv
  BY <1>1 DEF AnswerInv, Fresh
<1>. QED
  BY <1>2, <1>3, <1>4, <1>5, <1>6 DEF BridgeInv

LEMMA BridgeUnmoved ==
  ASSUME BridgeInv, UNCHANGED bridgeVars
  PROVE  BridgeInv'
<1>1. /\ inbox' = inbox /\ wire' = wire /\ executed' = executed /\ session' = session /\ seq' = seq
      /\ phase' = phase /\ req' = req /\ call' = call /\ answered' = answered
  BY DEF bridgeVars
<1>2. /\ Busy' = Busy /\ Oldest' = Oldest /\ Newest' = Newest /\ Talking' = Talking /\ Wanted' = Wanted
      /\ AtPayload' = AtPayload
  BY <1>1 DEF Busy, Oldest, Newest, Talking, Wanted, AtPayload
<1>3. BridgeTyped'
  BY <1>1, <1>2 DEF BridgeInv, BridgeTyped
<1>4. LineInv' /\ WrittenInv' /\ ExecutedInv'
  BY <1>1, <1>2 DEF BridgeInv, LineInv, WrittenInv, ExecutedInv
<1>5. InStep' = InStep /\ OutOfStep' = OutOfStep /\ \A t : Behind(t)' = Behind(t)
  BY <1>1, <1>2 DEF InStep, OutOfStep, Behind, SumInv, Counted
<1>6. AnswerInv'
  BY <1>1, <1>2, <1>5 DEF BridgeInv, AnswerInv, Fresh, OwnAnswers, ForeignAnswers
<1>. QED
  BY <1>3, <1>4, <1>6 DEF BridgeInv

LEMMA BridgeStep ==
  ASSUME NEW s, NEW q, NEW c \in Nat, BridgeInv, [BridgeOf(s, q, c)!Next]_bridgeVars
  PROVE  BridgeInv'
<1>1. BridgeTyped /\ LineInv /\ WrittenInv /\ AnswerInv
  BY DEF BridgeInv
<1>2. CASE BridgeOf(s, q, c)!Firmware
  BY <1>1, <1>2, FirmwareStep, ServedKeeps
<1>3. CASE BridgeOf(s, q, c)!Open
  BY <1>3, BridgeOpens
<1>4. CASE BridgeOf(s, q, c)!Close
  BY <1>4, BridgeCloses
<1>5. CASE BridgeOf(s, q, c)!Callback
  BY <1>5, BridgeCallsBack
<1>6. CASE BridgeOf(s, q, c)!Request
  BY <1>6, BridgeAsks
<1>7. CASE BridgeOf(s, q, c)!ReadHeader
  BY <1>1, <1>7, ReadHeaderStep, FailsKeeps, ToPayloadKeeps, ReturnsKeeps
<1>8. CASE BridgeOf(s, q, c)!ReadPayload
  BY <1>1, <1>8, ReadPayloadStep, ReturnsKeeps
<1>9. CASE BridgeOf(s, q, c)!TimedOut
  BY <1>1, <1>9, TimedOutFails, FailsKeeps
<1>10. CASE UNCHANGED bridgeVars
  BY <1>10, BridgeUnmoved
<1>. QED
  BY <1>2, <1>3, <1>4, <1>5, <1>6, <1>7, <1>8, <1>9, <1>10 DEF BridgeOf!Next

\* The two modules count a set alike.
LEMMA SameCardinality ==
  ASSUME NEW s, NEW q, NEW c, NEW S
  PROVE  BridgeOf(s, q, c)!Cardinality(S) = Cardinality(S)
BY DEF Cardinality, BridgeOf!Cardinality

\* Every answer that is taken comes from one transport.
LEMMA BridgeOneTransport ==
  ASSUME NEW s, NEW q, NEW c, BridgeInv
  PROVE  BridgeOf(s, q, c)!AnswersOfOneTransport
BY DEF BridgeInv, AnswerInv, Fresh, OwnAnswers, ForeignAnswers, BridgeOf!AnswersOfOneTransport

\* The answers that are taken are those of a first part of the requests.
LEMMA BridgeStaysOut ==
  ASSUME NEW s, NEW q, NEW c, BridgeInv
  PROVE  BridgeOf(s, q, c)!OutOfStepStaysSo
<1>. SUFFICES ASSUME \A a \in answered : a.from = session
              PROVE  {a.seq : a \in answered} = 1 .. Cardinality(answered)
  BY SameCardinality DEF BridgeOf!OutOfStepStaysSo, BridgeOf!Own
<1>1. session \in Nat
  BY DEF BridgeInv, BridgeTyped
<1>2. CASE Fresh
  <2>1. answered = {} /\ Cardinality(answered) = 0
    BY <1>2, FS_EmptySet DEF Fresh
  <2>. QED
    BY <2>1
<1>3. CASE OwnAnswers
  <2>1. PICK m \in Nat : answered = {[seq |-> i, from |-> session] : i \in 1 .. m}
    BY <1>3 DEF OwnAnswers
  <2>2. Cardinality(answered) = m
    <3>. DEFINE f == [i \in 1 .. m |-> [seq |-> i, from |-> session]]
    <3>1. f \in Bijection(1 .. m, answered)
      <4>1. f \in [1 .. m -> answered] /\ \A a \in answered : \E i \in 1 .. m : f[i] = a
        BY <2>1
      <4>2. \A i, j \in 1 .. m : f[i] = f[j] => i = j
        OBVIOUS
      <4>. HIDE DEF f
      <4>. QED
        BY <4>1, <4>2 DEF Bijection, Injection, Surjection, IsInjective
    <3>2. IsFiniteSet(1 .. m) /\ Cardinality(1 .. m) = m
      <4>1. 1 .. m = {} \/ m # 0
        OBVIOUS
      <4>. QED
        BY <2>1, FS_Interval
    <3>. HIDE DEF f
    <3>. QED
      BY <3>1, <3>2, FS_Bijection DEF ExistsBijection
  <2>3. {a.seq : a \in answered} = 1 .. m
    <3>1. \A a \in answered : a.seq \in 1 .. m
      BY <2>1
    <3>2. ASSUME NEW i \in 1 .. m PROVE \E a \in answered : a.seq = i
      <4>. DEFINE b == [seq |-> i, from |-> session]
      <4>1. b \in answered /\ b.seq = i
        BY <2>1
      <4>. HIDE DEF b
      <4>. QED
        BY <4>1
    <3>. QED
      BY <3>1, <3>2
  <2>. QED
    BY <2>2, <2>3
<1>4. CASE ForeignAnswers
  BY <1>1, <1>4 DEF ForeignAnswers
<1>. QED
  BY <1>2, <1>3, <1>4 DEF BridgeInv, AnswerInv

\* No request of the call is left to be carried out when it returns.
LEMMA BridgeTotal ==
  ASSUME NEW s, NEW q, NEW c, BridgeInv
  PROVE  BridgeOf(s, q, c)!TotalIsWritten
<1>. SUFFICES ASSUME \A a \in answered : a.from = session, phase = "idle", call.op = "spi_write",
                     call.ret = "total"
              PROVE  call.total = Cardinality(BridgeOf(s, q, c)!Written(call.from))
  BY SameCardinality DEF BridgeOf!TotalIsWritten, BridgeOf!Own
<1>1. BridgeTyped /\ ExecutedInv /\ session \in Nat /\ seq \in Nat
  BY DEF BridgeInv, BridgeTyped
<1>2. ~Fresh
  BY DEF Fresh
<1>3. ~ForeignAnswers
  BY <1>1 DEF ForeignAnswers
<1>4. SumInv(Wanted - 1) /\ Wanted = seq
  BY <1>2, <1>3 DEF BridgeInv, AnswerInv, OwnAnswers, InStep, OutOfStep, Wanted, Talking
<1>5. call.total = Cardinality(Counted(call.from, seq - 1))
  BY <1>4 DEF SumInv
<1>6. Counted(call.from, seq - 1) = BridgeOf(s, q, c)!Written(call.from)
  <2>1. ASSUME NEW i \in 1 .. Len(executed), executed[i].of.session = session
        PROVE  executed[i].of.seq <= seq - 1
    <3>1. executed[i].of.seq < seq
      BY <1>1, <2>1 DEF ExecutedInv
    <3>2. executed[i].of.seq \in Nat
      <4>1. executed[i] \in Answers
        BY <1>1 DEF BridgeTyped
      <4>. QED
        BY <4>1 DEF Answers, Requests
    <3>. QED
      BY <1>1, <3>1, <3>2
  <2>. QED
    BY <2>1 DEF Counted, BridgeOf!Written
<1>. QED
  BY <1>5, <1>6

\* For every number of transports, requests and chunks: what a bridge accepts is all from one
\* transport; one that gets its own answers is never answered again once it has missed one; and
\* what spi_write() then reports is what the firmware wrote of that call.
THEOREM BridgeAnswersAreOwn ==
  ASSUME NEW s \in Nat \ {0}, NEW q \in Nat \ {0}, NEW c \in Nat \ {0}
  PROVE  BridgeOf(s, q, c)!Spec =>
           [](/\ BridgeOf(s, q, c)!AnswersOfOneTransport /\ BridgeOf(s, q, c)!OutOfStepStaysSo
              /\ BridgeOf(s, q, c)!TotalIsWritten)
<1>1. BridgeOf(s, q, c)!Init => BridgeInv
  BY BridgeInit
<1>2. BridgeInv /\ [BridgeOf(s, q, c)!Next]_bridgeVars => BridgeInv'
  BY BridgeStep
<1>3. BridgeInv /\ [BridgeOf(s, q, c)!Next]_(BridgeOf(s, q, c)!vars) => BridgeInv'
  <2>1. UNCHANGED BridgeOf(s, q, c)!vars => UNCHANGED bridgeVars
    BY DEF bridgeVars, BridgeOf!vars, BridgeOf!pipe, BridgeOf!bvars
  <2>. QED
    BY <1>2, <2>1
<1>4. BridgeInv => /\ BridgeOf(s, q, c)!AnswersOfOneTransport /\ BridgeOf(s, q, c)!OutOfStepStaysSo
                   /\ BridgeOf(s, q, c)!TotalIsWritten
  BY BridgeOneTransport, BridgeStaysOut, BridgeTotal
<1>. QED
  BY <1>1, <1>3, <1>4, PTL DEF BridgeOf!Spec

-----------------------------------------------------------------------------
(* The upload                                                               *)

UploadOf(ms, ch, tg) == INSTANCE UsbUpload WITH MaxSession <- ms, Chunks <- ch, Targets <- tg

uploadVars ==
  <<inbox, wire, executed, session, seq, phase, req, answered, asked, todo, step, sent, exit, device, stored>>

Both     == <<"model", "nn_info">>
JustInfo == <<"nn_info">>
JustModel == <<"model">>

Blobs    == {"model", "nn_info"}
Steps    == {"ping", "begin", "data", "finalize", "status"}
Statuses == {"idle", "receiving", "failed", "success"}

Frames ==
  {r \in [session : Nat, seq : Nat, cmd : Steps, target : Blobs \union {"none"}, part : Nat] :
     r.cmd # "status" => r.target \in Blobs /\ r.session # 0 /\ r.seq # 0}
Replies == [of : Frames, data : {0}, state : Statuses, ok : BOOLEAN]

\* The first k chunks of run s
Parts(s, k) == [i \in 1 .. k |-> [session |-> s, part |-> i]]

\* t is what a run sends after r.
InScript(r, t, ch) ==
  \/ r.cmd = "ping" /\ t.cmd = "begin" /\ t.target = r.target /\ t.part = 1
  \/ r.cmd = "begin" /\ t.cmd = "data" /\ t.target = r.target /\ t.part = 1
  \/ r.cmd = "data" /\ r.part # ch /\ t.cmd = "data" /\ t.target = r.target /\ t.part = r.part + 1
  \/ r.cmd = "data" /\ r.part = ch /\ t.cmd = "finalize" /\ t.target = r.target
  \/ r.cmd = "finalize" /\ r.target = "model" /\ t.cmd = "begin" /\ t.target = "nn_info" /\ t.part = 1
  \/ r.cmd = "finalize" /\ t.cmd = "status" /\ t.target = "none"

\* t is what is written after r, by the same run or by a later one.
Link(r, t, ch) ==
  \/ t.session = r.session /\ t.seq = r.seq + 1 /\ InScript(r, t, ch)
  \/ t.session > r.session /\ t.seq = 1 /\ t.cmd = "ping"

\* What the run sends next, or has sent and waits for
Asking ==
  [session |-> session, seq |-> seq, cmd |-> step, part |-> sent + 1,
   target |-> IF todo = <<>> THEN "none" ELSE Head(todo)]

UploadTyped(ms, ch) ==
  /\ inbox \in Seq(Frames) /\ wire \in Seq(PiecesFor(Replies))
  /\ session \in Nat /\ session <= ms /\ seq \in Nat /\ seq # 0
  /\ phase \in {"closed", "send", "wait"} /\ step \in Steps /\ sent \in Nat
  /\ device \in [state : Statuses, target : Blobs \union {"none"},
                 chunks : Seq([session : Nat, part : Nat])]
  /\ stored \in [Blobs -> {<<>>} \union {Parts(s, ch) : s \in Nat}]

\* Where the run is in its script
ScriptInv(ch) ==
  phase # "closed" =>
    /\ session # 0 /\ asked \in AllTargets /\ (step = "ping" <=> seq = 1)
    /\ \/ step # "status" /\ todo = asked
       \/ step \notin {"ping", "status"} /\ asked = Both /\ todo = JustInfo
       \/ step = "status" /\ asked # Both /\ todo = <<>>
    /\ step \in {"ping", "begin"} => sent = 0
    /\ step = "data" => sent < ch
    /\ step = "finalize" => sent = ch

\* w is the last frame that was written.
SentInv(ch, w) ==
  /\ w \in Frames
  /\ Busy => Newest = w
  /\ phase = "closed" => w.session <= session
  /\ phase = "send" /\ seq = 1 => w.session < session
  /\ phase = "send" /\ seq # 1 => w.session = session /\ w.seq = seq - 1 /\ InScript(w, Asking, ch)
  /\ phase = "wait" => Busy /\ w = req /\ req = Asking

\* l is the last frame the firmware has taken: the rest of what was written follows on it.
QueueInv(ch, l, w) ==
  /\ l \in Frames
  /\ l = w \/ Before(l, w)
  /\ inbox = <<>> => l = w
  /\ inbox # <<>> => Link(l, inbox[1], ch)
  /\ \A i \in 1 .. Len(inbox) - 1 : Link(inbox[i], inbox[i + 1], ch)
  /\ wire # <<>> => wire[Len(wire)].of.of = l /\ wire[Len(wire)].of.state = device.state

\* What the firmware has, and what it has put into flash, is what one run sent.
DeviceInv(ch, l) ==
  /\ device.state = "receiving" =>
       \/ l.cmd = "ping"
       \/ l.cmd = "begin" /\ device.target = l.target /\ device.chunks = <<>>
       \/ l.cmd = "data" /\ device.target = l.target /\ device.chunks = Parts(l.session, l.part)
  /\ l.cmd = "finalize" /\ device.state = "success" => stored[l.target] = Parts(l.session, ch)
  /\ \A t \in Blobs : stored[t] = <<>> \/ \E s \in 1 .. l.session : stored[t] = Parts(s, ch)
  /\ stored["nn_info"] = Parts(l.session, ch) => l.seq > 1 /\ l.target # "model"

\* Nothing has been accepted yet: the ping is under way.
NoneAccepted(w) ==
  /\ answered = {} /\ exit # "ok"
  /\ phase # "closed" => seq = 1
  /\ w.session = session => w.seq <= 1

\* Every answer was the run's own: between two frames the line is empty.
OwnAccepted(ch, w) ==
  /\ answered # {} /\ (\A a \in answered : a.from = session) /\ asked \in AllTargets
  /\ w.session = session /\ (Busy => Oldest = w)
  /\ phase # "closed" => seq # 1
  /\ phase = "send" => ~Busy
  /\ phase = "wait" => AlignedIn(wire)
  /\ asked = Both /\ todo # asked => stored["model"] = Parts(session, ch)
  /\ asked = Both /\ todo = asked => w.target = "model"
  /\ step = "status" => stored[asked[1]] = Parts(session, ch)
  /\ exit = "ok" => /\ phase = "closed" /\ ~Busy
                    /\ \A i \in 1 .. Len(asked) : stored[asked[i]] = Parts(session, ch)

\* The answers are those of an earlier run t.
ForeignAccepted ==
  \E t \in Nat :
    /\ t < session /\ answered # {} /\ \A a \in answered : a.from = t
    /\ phase # "closed" =>
         /\ Busy /\ seq # 1 /\ Oldest.session >= t /\ Oldest.seq <= seq
         /\ Oldest.session # t => Oldest.seq < seq

AcceptedInv(ch, w) == NoneAccepted(w) \/ OwnAccepted(ch, w) \/ ForeignAccepted

UploadHolds(ms, ch, l, w) ==
  /\ UploadTyped(ms, ch) /\ LineInv /\ ScriptInv(ch) /\ SentInv(ch, w) /\ QueueInv(ch, l, w)
  /\ DeviceInv(ch, l) /\ AcceptedInv(ch, w)

UploadInv(ms, ch) == \E l, w : UploadHolds(ms, ch, l, w)

LEMMA TargetFacts ==
  /\ AllTargets = {JustModel, JustInfo, Both}
  /\ Head(JustModel) = "model" /\ Head(JustInfo) = "nn_info" /\ Head(Both) = "model"
  /\ JustModel[1] = "model" /\ JustInfo[1] = "nn_info" /\ Both[1] = "model" /\ Both[2] = "nn_info"
  /\ Len(JustModel) = 1 /\ Len(JustInfo) = 1 /\ Len(Both) = 2 /\ Tail(Both) = JustInfo
  /\ JustModel # <<>> /\ JustInfo # <<>> /\ Both # <<>>
  /\ JustModel # JustInfo /\ JustModel # Both /\ JustInfo # Both
BY DEF AllTargets, JustModel, JustInfo, Both

LEMMA UploadSane ==
  ASSUME NEW ms, NEW ch, UploadTyped(ms, ch)
  PROVE  /\ Sane(Frames, Replies)
         /\ inbox \in Seq(Frames) /\ wire \in Seq(PiecesFor(Replies))
BY DEF UploadTyped, Sane, Frames, Replies

LEMMA FrameFields ==
  ASSUME NEW r \in Frames
  PROVE  /\ r.session \in Nat /\ r.seq \in Nat /\ r.part \in Nat /\ r.cmd \in Steps
         /\ r.target \in Blobs \union {"none"}
         /\ r.cmd # "status" => r.target \in Blobs /\ r.session # 0 /\ r.seq # 0
BY DEF Frames

LEMMA LinkFollows ==
  ASSUME NEW r, NEW t, NEW ch, Link(r, t, ch)
  PROVE  Follows(r, t)
BY DEF Link, Follows

LEMMA FollowsBefore ==
  ASSUME NEW r \in Frames, NEW t \in Frames, Follows(r, t)
  PROVE  Before(r, t)
<1>1. r.session \in Nat /\ r.seq \in Nat /\ t.session \in Nat /\ t.seq \in Nat
  BY DEF Frames
<1>. QED
  BY <1>1 DEF Follows, Before

LEMMA UploadEnds ==
  ASSUME NEW ms, NEW ch, UploadTyped(ms, ch), LineInv, Busy
  PROVE  /\ Oldest \in Frames /\ Newest \in Frames
         /\ Oldest.session \in Nat /\ Oldest.seq \in Nat /\ Newest.session \in Nat /\ Newest.seq \in Nat
         /\ Before(Oldest, Newest) \/ Oldest = Newest
         /\ Oldest = Newest => wire = <<>> \/ inbox = <<>>
         /\ Before(Oldest, Newest) => Oldest # Newest
<1>1. /\ Oldest \in Frames /\ Newest \in Frames
      /\ Before(Oldest, Newest) \/ Oldest = Newest
      /\ Oldest = Newest => wire = <<>> \/ inbox = <<>>
  BY UploadSane, OrNewest DEF Busy, Oldest, Newest, LineInv
<1>2. /\ Oldest.session \in Nat /\ Oldest.seq \in Nat /\ Newest.session \in Nat /\ Newest.seq \in Nat
  BY <1>1 DEF Frames
<1>3. Before(Oldest, Newest) => Oldest # Newest
  BY <1>2 DEF Before
<1>. QED
  BY <1>1, <1>2, <1>3

\* The host reads n pieces.
LEMMA UploadTakes ==
  ASSUME NEW ms, NEW ch, UploadTyped(ms, ch), LineInv, NEW n, Takes(n)
  PROVE  /\ wire' \in Seq(PiecesFor(Replies)) /\ inbox' = inbox /\ LineInv'
         /\ Busy' => Busy /\ Newest' = Newest
         /\ wire' # <<>> => wire # <<>> /\ wire'[Len(wire')] = wire[Len(wire)]
<1>1. /\ wire' \in Seq(PiecesFor(Replies)) /\ LineOk(wire', inbox)
      /\ Pending(wire', inbox) => Pending(wire, inbox) /\ NewestOf(wire', inbox) = NewestOf(wire, inbox)
  BY UploadSane, LineTake DEF Takes, LineInv
<1>2. /\ n # Len(wire) => wire' # <<>> /\ wire # <<>> /\ wire'[Len(wire')] = wire[Len(wire)]
      /\ n = Len(wire) => wire' = <<>>
  BY UploadSane, Rest DEF Takes
<1>. QED
  BY <1>1, <1>2 DEF Takes, LineInv, Busy, Newest

\* The header is that of the oldest answer, and is all of it.
LEMMA UploadHeader ==
  ASSUME NEW ms, NEW ch, UploadTyped(ms, ch), LineInv, wire # <<>>, AlignedIn(wire)
  PROVE  /\ 2 \in 0 .. Len(wire) /\ 2 \in 1 .. Len(wire)
         /\ wire[1].half = 1 /\ wire[2].half = 2 /\ wire[2].of = wire[1].of
         /\ wire[1].of.of = Oldest /\ wire[2].of.of = Oldest /\ wire[1].of \in Replies
         /\ Ends(wire[2])
<1>1. /\ 2 \in 1 .. Len(wire) /\ wire[2].half = 2 /\ wire[2].of = wire[1].of
      /\ wire[1].of.of = Oldest /\ wire[2].of.of = Oldest /\ wire[1].of \in Replies
      /\ Ends(wire[2]) <=> wire[1].of.data = 0
  BY UploadSane, LineHeader DEF LineInv, Oldest
<1>2. 2 \in 0 .. Len(wire) /\ wire[1].half = 1
  BY <1>1 DEF AlignedIn
<1>3. wire[1].of.data = 0
  BY <1>1 DEF Replies
<1>. QED
  BY <1>1, <1>2, <1>3

\* The whole of the oldest answer is read.
LEMMA UploadTakesHeader ==
  ASSUME NEW ms, NEW ch, UploadTyped(ms, ch), LineInv, wire # <<>>, AlignedIn(wire), Takes(2)
  PROVE  /\ Busy /\ (Busy' <=> Oldest # Newest)
         /\ Busy' => Follows(Oldest, Oldest') /\ Oldest'.session \in Nat /\ Oldest'.seq \in Nat
<1>1. 2 \in 1 .. Len(wire) /\ Dropped(wire', wire, 2) /\ inbox' = inbox /\ Ends(wire[2]) /\ wire[2].of.of = Oldest
  BY UploadHeader DEF Takes
<1>2. /\ Pending(wire', inbox) <=> Before(OldestOf(wire, inbox), NewestOf(wire, inbox))
      /\ Pending(wire', inbox) => Follows(OldestOf(wire, inbox), OldestOf(wire', inbox))
  BY <1>1, UploadSane, LineNext DEF LineInv, Oldest
<1>3. Busy
  BY DEF Busy, Pending
<1>4. Before(Oldest, Newest) <=> Oldest # Newest
  BY <1>3, UploadEnds
<1>5. Busy' => Oldest' \in Frames
  <2>1. wire' \in Seq(PiecesFor(Replies)) /\ LineOk(wire', inbox) /\ inbox \in Seq(Frames) /\ Sane(Frames, Replies)
    BY UploadSane, UploadTakes, <1>1 DEF LineInv
  <2>2. Pending(wire', inbox) => OldestOf(wire', inbox) \in Frames
    BY <2>1, OrNewest
  <2>. QED
    BY <1>1, <2>2 DEF Busy, Oldest
<1>6. Busy' => Oldest'.session \in Nat /\ Oldest'.seq \in Nat
  BY <1>5, FrameFields
<1>. QED
  BY <1>1, <1>2, <1>3, <1>4, <1>6 DEF Busy, Oldest, Newest

\* What the run sends next is a frame that follows on the last.
LEMMA AskingFacts ==
  ASSUME NEW ms, NEW ch, UploadTyped(ms, ch), ScriptInv(ch), phase # "closed"
  PROVE  /\ Asking \in Frames
         /\ Asking.session = session /\ Asking.seq = seq /\ Asking.cmd = step /\ Asking.part = sent + 1
         /\ todo = JustInfo => Asking.target = "nn_info"
         /\ todo \in {JustModel, Both} => Asking.target = "model"
         /\ todo = <<>> => Asking.target = "none"
         /\ todo \in {<<>>, JustModel, JustInfo, Both}
<1>1. todo \in {<<>>, JustModel, JustInfo, Both} /\ (step # "status" => todo # <<>>)
  BY TargetFacts DEF ScriptInv
<1>. DEFINE target == IF todo = <<>> THEN "none" ELSE Head(todo)
<1>2. /\ todo = JustInfo => target = "nn_info"
      /\ todo \in {JustModel, Both} => target = "model"
      /\ todo = <<>> => target = "none"
  BY TargetFacts
<1>3. target \in Blobs \union {"none"} /\ (step # "status" => target \in Blobs)
  BY <1>1, <1>2 DEF Blobs
<1>4. Asking = [session |-> session, seq |-> seq, cmd |-> step, part |-> sent + 1, target |-> target]
  BY DEF Asking
<1>. HIDE DEF target
<1>5. session \in Nat /\ session # 0 /\ seq \in Nat /\ seq # 0 /\ step \in Steps /\ sent + 1 \in Nat
  BY DEF UploadTyped, ScriptInv
<1>6. Asking \in Frames
  BY <1>3, <1>4, <1>5 DEF Frames
<1>. QED
  BY <1>1, <1>2, <1>4, <1>6

-----------------------------------------------------------------------------
(* The upload: the firmware answers                                         *)

Devices == [state : Statuses, target : Blobs \union {"none"}, chunks : Seq([session : Nat, part : Nat])]

\* What the firmware makes of r: its device is then d.
Outcome(r, d) ==
  /\ d \in Devices
  /\ r.cmd \in {"ping", "status"} => d = device
  /\ r.cmd = "begin" => d.state # "success" /\ (d.state = "receiving" => d.target = r.target /\ d.chunks = <<>>)
  /\ r.cmd = "data" /\ d.state = "receiving" =>
       /\ device.state = "receiving" /\ device.target = r.target /\ d.target = r.target
       /\ d.chunks = Append(device.chunks, [session |-> r.session, part |-> r.part])
  /\ r.cmd = "finalize" =>
       /\ d.state # "receiving"
       /\ d.state = "success" => device.state = "receiving" /\ device.target = r.target /\ d.chunks = device.chunks

StoredAs(r, d) ==
  stored' = IF r.cmd = "finalize" /\ d.state = "success" THEN [stored EXCEPT ![r.target] = d.chunks] ELSE stored

UploadServed(a) ==
  /\ inbox # <<>> /\ a \in Replies /\ a.of = inbox[1] /\ a.state = device'.state
  /\ Answered(wire', inbox', wire, inbox, a)
  /\ Outcome(inbox[1], device') /\ StoredAs(inbox[1], device')
  /\ UNCHANGED <<session, seq, phase, req, answered, asked, todo, step, sent, exit>>

LEMMA OutcomeOf ==
  ASSUME NEW ms, NEW ch, NEW tg, device \in Devices, NEW r \in Frames,
         NEW d \in UploadOf(ms, ch, tg)!Outcomes(r)
  PROVE  Outcome(r, d)
<1>1. r.session \in Nat /\ r.part \in Nat /\ r.target \in Blobs \union {"none"} /\ r.cmd \in Steps
  BY FrameFields
<1>2. /\ device.state \in Statuses /\ device.target \in Blobs \union {"none"}
      /\ device.chunks \in Seq([session : Nat, part : Nat])
      /\ \A st \in Statuses : [device EXCEPT !.state = st] \in Devices
      /\ \A st : [device EXCEPT !.state = st].state = st /\ [device EXCEPT !.state = st].chunks = device.chunks
  BY DEF Devices
<1>3. CASE r.cmd = "begin"
  <2>1. d \in {[state |-> "receiving", target |-> r.target, chunks |-> <<>>], [device EXCEPT !.state = "failed"]}
    BY <1>3 DEF UploadOf!Outcomes, UploadOf!Begun
  <2>2. CASE d = [state |-> "receiving", target |-> r.target, chunks |-> <<>>]
    <3>1. <<>> \in Seq([session : Nat, part : Nat])
      OBVIOUS
    <3>2. d \in Devices /\ d.state = "receiving" /\ d.target = r.target /\ d.chunks = <<>>
      BY <1>1, <2>2, <3>1 DEF Devices, Statuses
    <3>. QED
      BY <1>3, <3>2 DEF Outcome
  <2>3. CASE d = [device EXCEPT !.state = "failed"]
    <3>1. d \in Devices /\ d.state = "failed"
      BY <1>2, <2>3 DEF Statuses
    <3>. QED
      BY <1>3, <3>1 DEF Outcome
  <2>. QED
    BY <2>1, <2>2, <2>3
<1>4. CASE r.cmd = "data"
  <2>. DEFINE e == [session |-> r.session, part |-> r.part]
  <2>1. \/ /\ device.state = "receiving" /\ device.target = r.target
           /\ d = [device EXCEPT !.chunks = Append(device.chunks, e)]
        \/ d = [device EXCEPT !.state = "failed"]
    BY <1>4 DEF UploadOf!Outcomes, UploadOf!Receiving
  <2>2. CASE /\ device.state = "receiving" /\ device.target = r.target
             /\ d = [device EXCEPT !.chunks = Append(device.chunks, e)]
    <3>1. Append(device.chunks, e) \in Seq([session : Nat, part : Nat])
      <4>1. e \in [session : Nat, part : Nat]
        BY <1>1
      <4>. HIDE DEF e
      <4>. QED
        BY <1>2, <4>1
    <3>. HIDE DEF e
    <3>2. d \in Devices /\ d.target = device.target /\ d.chunks = Append(device.chunks, e)
      BY <2>2, <3>1 DEF Devices
    <3>. QED
      BY <1>4, <2>2, <3>2 DEF Outcome, e
  <2>3. CASE d = [device EXCEPT !.state = "failed"]
    <3>1. d \in Devices /\ d.state = "failed"
      BY <1>2, <2>3 DEF Statuses
    <3>. QED
      BY <1>4, <3>1 DEF Outcome
  <2>. QED
    BY <2>1, <2>2, <2>3
<1>5. CASE r.cmd = "finalize"
  <2>1. PICK st \in {"success", "failed"} :
          /\ d = [device EXCEPT !.state = st]
          /\ st = "success" => device.state = "receiving" /\ device.target = r.target
    BY <1>5 DEF UploadOf!Outcomes, UploadOf!Receiving
  <2>2. d \in Devices /\ d.state = st /\ d.chunks = device.chunks
    BY <1>2, <2>1 DEF Statuses
  <2>. QED
    BY <1>5, <2>1, <2>2 DEF Outcome
<1>6. CASE r.cmd \in {"ping", "status"}
  <2>1. d = device
    BY <1>6 DEF UploadOf!Outcomes
  <2>. QED
    BY <1>6, <2>1 DEF Outcome
<1>. QED
  BY <1>1, <1>3, <1>4, <1>5, <1>6 DEF Steps

LEMMA UploadFirmwareStep ==
  ASSUME NEW ms, NEW ch, NEW tg, UploadTyped(ms, ch), UploadOf(ms, ch, tg)!Firmware
  PROVE  \E a : UploadServed(a)
<1>. DEFINE r == Head(inbox)
<1>1. inbox # <<>> /\ inbox[1] = r /\ r \in Frames /\ device \in Devices
  BY DEF UploadOf!Firmware, UploadTyped, Devices
<1>2. PICK d \in UploadOf(ms, ch, tg)!Outcomes(r) :
        /\ device' = d
        /\ stored' = IF r.cmd = "finalize" /\ d.state = "success"
                     THEN [stored EXCEPT ![r.target] = d.chunks] ELSE stored
        /\ wire' = wire \o UploadOf(ms, ch, tg)!Pieces([of |-> r, data |-> 0, state |-> d.state,
                                                       ok |-> d.state # "failed"])
  BY DEF UploadOf!Firmware
<1>. HIDE DEF r
<1>3. Outcome(r, d)
  BY <1>1, <1>2, OutcomeOf
<1>. DEFINE a == [of |-> r, data |-> 0, state |-> d.state, ok |-> d.state # "failed"]
<1>4. a \in Replies /\ a.of = r /\ a.state = d.state
  <2>1. d.state \in Statuses /\ (d.state # "failed") \in BOOLEAN
    BY <1>3 DEF Outcome, Devices
  <2>. QED
    BY <1>1, <2>1 DEF Replies
<1>5. UploadOf(ms, ch, tg)!Pieces(a) = PiecesOf(a)
  BY DEF UploadOf!Pieces, PiecesOf
<1>6. Answered(wire', inbox', wire, inbox, a)
  <2>1. inbox' = Tail(inbox)
    BY DEF UploadOf!Firmware
  <2>. HIDE DEF a
  <2>2. wire' = wire \o PiecesOf(a)
    BY <1>2, <1>5 DEF a
  <2>. QED
    BY <2>1, <2>2 DEF Answered
<1>7. UNCHANGED <<session, seq, phase, req, answered, asked, todo, step, sent, exit>>
  BY DEF UploadOf!Firmware, UploadOf!uvars
<1>. HIDE DEF a
<1>8. UploadServed(a)
  BY <1>1, <1>2, <1>3, <1>4, <1>6, <1>7 DEF UploadServed, StoredAs
<1>. QED
  BY <1>8

LEMMA LastOfTwo ==
  ASSUME NEW S, NEW s \in Seq(S), NEW t \in Seq(S), NEW u, u = s \o t
  PROVE  Len(t) = 2 => u[Len(u)] = t[2]
<1>1. Len(u) = Len(s) + Len(t)
  BY Concatenated
<1>2. \A i \in Len(s) + 1 .. Len(u) : u[i] = t[i - Len(s)]
  BY Concatenated
<1>. SUFFICES ASSUME Len(t) = 2 PROVE u[Len(u)] = t[2]
  OBVIOUS
<1>. DEFINE m == Len(s)
            k == Len(u)
<1>3. m \in Nat /\ k = m + 2
  BY <1>1
<1>4. \A i \in m + 1 .. k : u[i] = t[i - m]
  BY <1>2
<1>. HIDE DEF m, k
<1>5. k \in m + 1 .. k /\ k - m = 2
  BY <1>3
<1>6. u[k] = t[2]
  BY <1>4, <1>5
<1>. QED
  BY <1>6 DEF k

LEMMA ServedLast ==
  ASSUME NEW A, NEW w \in Seq(PiecesFor(A)), NEW a \in A, a.data = 0, NEW v, NEW d, NEW b,
         Answered(v, d, w, b, a)
  PROVE  v[Len(v)].of = a
<1>. DEFINE t == PiecesOf(a)
            S == PiecesFor(A)
<1>1. /\ t \in Seq(S) /\ Len(t) = 2 + a.data /\ t[2] = [half |-> 2, of |-> a]
  <2>1. a.data \in {0, 1}
    OBVIOUS
  <2>. QED
    BY <2>1, PiecesAre
<1>2. v = w \o t /\ w \in Seq(S)
  BY DEF Answered
<1>3. 2 + a.data = 2
  OBVIOUS
<1>. HIDE DEF t, S
<1>4. Len(t) = 2
  BY <1>1, <1>3
<1>5. v[Len(v)] = t[2]
  BY <1>1, <1>2, <1>4, LastOfTwo
<1>. QED
  BY <1>1, <1>5

LEMMA TailIs ==
  ASSUME NEW S, NEW s \in Seq(S), s # <<>>, NEW d, d = Tail(s)
  PROVE  /\ d \in Seq(S) /\ Len(s) \in Nat /\ Len(s) # 0 /\ Len(d) = Len(s) - 1
         /\ \A i \in 1 .. Len(d) : d[i] = s[i + 1]
<1>1. d \in Seq(S) /\ Len(d) = Len(s) - 1
  OBVIOUS
<1>2. \A i \in 1 .. Len(d) : d[i] = s[i + 1]
  OBVIOUS
<1>. QED
  BY <1>1, <1>2, Nonempty

LEMMA PartsAppend ==
  ASSUME NEW s \in Nat, NEW k \in Nat
  PROVE  /\ Append(Parts(s, k), [session |-> s, part |-> k + 1]) = Parts(s, k + 1)
         /\ Append(<<>>, [session |-> s, part |-> 1]) = Parts(s, 1)
<1>. DEFINE C == [session : Nat, part : Nat]
            e == [session |-> s, part |-> k + 1]
            q == Parts(s, k)
            r == Append(q, e)
<1>1. q \in Seq(C) /\ Len(q) = k /\ \A i \in 1 .. k : q[i] = [session |-> s, part |-> i]
  <2>1. q \in [1 .. k -> C] /\ \A i \in 1 .. k : q[i] = [session |-> s, part |-> i]
    BY DEF Parts
  <2>. HIDE DEF q, C
  <2>. QED
    BY <2>1
<1>2. e \in C
  OBVIOUS
<1>3. r \in Seq(C) /\ Len(r) = k + 1 /\ (\A i \in 1 .. k : r[i] = q[i]) /\ r[k + 1] = e
  <2>. HIDE DEF q, C, e
  <2>. QED
    BY <1>1, <1>2
<1>4. r = [i \in 1 .. k + 1 |-> r[i]]
  <2>. HIDE DEF r, C
  <2>. QED
    BY <1>3
<1>5. ASSUME NEW i \in 1 .. k + 1 PROVE r[i] = [session |-> s, part |-> i]
  <2>. HIDE DEF r, q, C
  <2>3. i = k + 1 \/ i \in 1 .. k
    OBVIOUS
  <2>1. CASE i = k + 1
    BY <1>3, <2>1
  <2>2. CASE i \in 1 .. k
    BY <1>1, <1>3, <2>2
  <2>. QED
    BY <2>1, <2>2, <2>3
<1>6. r = Parts(s, k + 1)
  <2>. HIDE DEF r
  <2>. QED
    BY <1>4, <1>5 DEF Parts
<1>7. Append(<<>>, [session |-> s, part |-> 1]) = Parts(s, 1)
  <2>. DEFINE z == Append(<<>>, [session |-> s, part |-> 1])
  <2>1. z = <<[session |-> s, part |-> 1]>>
    OBVIOUS
  <2>2. z \in [1 .. 1 -> C] /\ z[1] = [session |-> s, part |-> 1]
    BY <2>1
  <2>. HIDE DEF z
  <2>3. \A i \in 1 .. 1 : z[i] = [session |-> s, part |-> i]
    BY <2>2
  <2>4. z = [i \in 1 .. 1 |-> z[i]]
    BY <2>2
  <2>5. z = Parts(s, 1)
    BY <2>3, <2>4 DEF Parts
  <2>. QED
    BY <2>5 DEF z
<1>. QED
  BY <1>6, <1>7

\* Runs leave different uploads.
LEMMA PartsDiffer ==
  ASSUME NEW ch \in Nat, ch # 0, NEW s, NEW t
  PROVE  /\ Parts(s, ch) = Parts(t, ch) => s = t
         /\ Parts(s, ch) # <<>>
<1>1. 1 \in 1 .. ch
  OBVIOUS
<1>2. Parts(s, ch)[1].session = s /\ Parts(t, ch)[1].session = t
  BY <1>1 DEF Parts
<1>3. Parts(s, ch) # <<>>
  <2>1. 1 \in DOMAIN Parts(s, ch)
    BY <1>1 DEF Parts
  <2>2. DOMAIN <<>> = {}
    OBVIOUS
  <2>. QED
    BY <2>1, <2>2
<1>. QED
  BY <1>2, <1>3

LEMMA ServedFrame ==
  ASSUME NEW ms, NEW ch, UploadTyped(ms, ch), LineInv, NEW a, UploadServed(a)
  PROVE  /\ wire' \in Seq(PiecesFor(Replies)) /\ inbox' \in Seq(Frames) /\ LineInv'
         /\ Busy' /\ Busy /\ Newest' = Newest /\ Oldest' = Oldest
         /\ wire # <<>> => wire' # <<>> /\ wire'[1] = wire[1]
         /\ wire = <<>> => wire'[1].half = 1
         /\ wire' # <<>> /\ wire'[Len(wire')].of = a /\ inbox[1] \in Frames
<1>1. /\ inbox # <<>> /\ a \in Replies /\ a.of = inbox[1]
      /\ Answered(wire', inbox', wire, inbox, a) /\ LineOk(wire, inbox)
  BY DEF UploadServed, LineInv
<1>2. Sane(Frames, Replies) /\ inbox \in Seq(Frames) /\ wire \in Seq(PiecesFor(Replies))
  BY UploadSane
<1>3. wire' \in Seq(PiecesFor(Replies)) /\ inbox' \in Seq(Frames) /\ LineOk(wire', inbox')
  BY <1>1, <1>2, LineServe
<1>4. Pending(wire', inbox') /\ Pending(wire, inbox)
  BY <1>1, <1>2, LineServe
<1>5. wire' # <<>> /\ wire'[1] = IF wire # <<>> THEN wire[1] ELSE [half |-> 1, of |-> a]
  BY <1>1, <1>2, LineServe
<1>6. NewestOf(wire', inbox') = NewestOf(wire, inbox) /\ OldestOf(wire', inbox') = OldestOf(wire, inbox)
  <2>1. SameEnds(wire', inbox', wire, inbox)
    BY <1>1, <1>2, LineServe
  <2>. QED
    BY <2>1 DEF SameEnds
<1>7. wire'[Len(wire')].of = a
  <2>1. a.data = 0
    BY <1>1 DEF Replies
  <2>. QED
    BY <1>1, <1>2, <2>1, ServedLast
<1>8. inbox[1] \in Frames
  BY <1>1, <1>2, Nonempty
<1>. QED
  BY <1>3, <1>4, <1>5, <1>6, <1>7, <1>8 DEF LineInv, Busy, Newest, Oldest

\* The frame that is taken is the last one taken, and the others follow on it.
LEMMA ServedQueue ==
  ASSUME NEW ms, NEW ch, UploadTyped(ms, ch), LineInv, NEW l, NEW w, SentInv(ch, w), QueueInv(ch, l, w),
         NEW a, UploadServed(a), NEW r, r = inbox[1]
  PROVE  QueueInv(ch, r, w)' /\ r \in Frames /\ Link(l, r, ch) /\ l \in Frames
<1>1. inbox # <<>> /\ inbox' = Tail(inbox) /\ inbox \in Seq(Frames) /\ a.of = r /\ a.state = device'.state
  BY DEF UploadServed, Answered, UploadTyped
<1>. DEFINE m == Len(inbox)
<1>2. /\ inbox' \in Seq(Frames) /\ m \in Nat /\ m # 0 /\ Len(inbox') = m - 1
      /\ \A i \in 1 .. Len(inbox') : inbox'[i] = inbox[i + 1]
  BY <1>1, TailIs
<1>3. Newest = w /\ Newest = inbox[m]
  BY <1>1 DEF SentInv, Busy, Pending, Newest, NewestOf
<1>4. r \in Frames /\ Link(l, r, ch) /\ l \in Frames
  BY <1>1, ServedFrame DEF QueueInv
<1>5. \A i \in 1 .. m - 1 : Link(inbox[i], inbox[i + 1], ch) /\ Before(inbox[i], w)
  BY <1>3 DEF QueueInv, LineInv, LineOk, Newest
<1>6. wire' # <<>> => wire'[Len(wire')].of.of = r /\ wire'[Len(wire')].of.state = device'.state
  BY <1>1, ServedFrame
<1>. DEFINE d == inbox'
<1>7. d \in Seq(Frames) /\ Len(d) = m - 1 /\ (\A i \in 1 .. Len(d) : d[i] = inbox[i + 1])
  BY <1>2
<1>. HIDE DEF m, d
<1>8. r = w \/ Before(r, w)
  <2>1. CASE m = 1
    BY <1>3, <2>1
  <2>2. CASE m # 1
    <3>1. 1 \in 1 .. m - 1
      BY <1>2, <2>2
    <3>. QED
      BY <1>5, <3>1
  <2>. QED
    BY <2>1, <2>2
<1>9. d = <<>> => r = w
  <2>1. d = <<>> => m = 1
    <3>1. d = <<>> => Len(d) = 0
      BY <1>7, Nonempty
    <3>. QED
      BY <1>2, <1>7, <3>1
  <2>. QED
    BY <1>3, <2>1
<1>10. d # <<>> => Link(r, d[1], ch)
  <2>. SUFFICES ASSUME d # <<>> PROVE Link(r, d[1], ch)
    OBVIOUS
  <2>1. Len(d) # 0 /\ 1 \in 1 .. Len(d)
    BY <1>7, Nonempty
  <2>2. 1 \in 1 .. m - 1 /\ 1 + 1 = 2 /\ d[1] = inbox[1 + 1]
    BY <1>7, <2>1
  <2>3. Link(inbox[1], inbox[1 + 1], ch)
    BY <1>5, <2>2
  <2>. QED
    BY <2>2, <2>3
<1>11. \A i \in 1 .. Len(d) - 1 : Link(d[i], d[i + 1], ch)
  <2>. TAKE i \in 1 .. Len(d) - 1
  <2>1. i \in 1 .. Len(d) /\ i + 1 \in 1 .. Len(d) /\ i + 1 \in 1 .. m - 1
    BY <1>2, <1>7
  <2>2. d[i] = inbox[i + 1] /\ d[i + 1] = inbox[(i + 1) + 1]
    BY <1>7, <2>1
  <2>3. Link(inbox[i + 1], inbox[(i + 1) + 1], ch)
    BY <1>5, <2>1
  <2>. QED
    BY <2>2, <2>3
<1>. QED
  BY <1>4, <1>6, <1>8, <1>9, <1>10, <1>11 DEF QueueInv, d

\* What is stored is stored for the frame's run, after that run has sent it whole.
LEMMA ServedDevice ==
  ASSUME NEW ms, NEW ch \in Nat, ch # 0, UploadTyped(ms, ch), NEW l \in Frames, DeviceInv(ch, l),
         NEW r \in Frames, Link(l, r, ch), Outcome(r, device'), StoredAs(r, device')
  PROVE  /\ DeviceInv(ch, r)' /\ stored' \in [Blobs -> {<<>>} \union {Parts(s, ch) : s \in Nat}]
         /\ r.cmd = "finalize" /\ device'.state = "success" =>
              stored' = [stored EXCEPT ![r.target] = Parts(r.session, ch)]
         /\ ~(r.cmd = "finalize" /\ device'.state = "success") => stored' = stored
<1>1. /\ l.session \in Nat /\ l.seq \in Nat /\ l.part \in Nat /\ l.cmd \in Steps
      /\ r.session \in Nat /\ r.seq \in Nat /\ r.part \in Nat /\ r.cmd \in Steps
      /\ r.cmd # "status" => r.target \in Blobs /\ r.session # 0
  BY FrameFields
<1>2. stored \in [Blobs -> {<<>>} \union {Parts(s, ch) : s \in Nat}]
  BY DEF UploadTyped
<1>3. r.cmd # "ping" => r.session = l.session /\ r.seq = l.seq + 1 /\ InScript(l, r, ch)
  BY DEF Link
<1>4. l.session <= r.session /\ (l.session # r.session => r.cmd = "ping" /\ l.session < r.session)
  BY <1>1 DEF Link
<1>5. r.cmd = "ping" => l.session < r.session
  BY <1>1 DEF Link, InScript
<1>6. ASSUME r.cmd = "data", device'.state = "receiving"
      PROVE  device'.target = r.target /\ device'.chunks = Parts(r.session, r.part)
  <2>1. /\ device.state = "receiving" /\ device.target = r.target /\ device'.target = r.target
        /\ device'.chunks = Append(device.chunks, [session |-> r.session, part |-> r.part])
    BY <1>6 DEF Outcome
  <2>2. CASE l.cmd = "begin"
    <3>1. device.chunks = <<>> /\ r.part = 1
      BY <1>3, <1>6, <2>1, <2>2 DEF DeviceInv, InScript
    <3>2. device'.chunks = Append(<<>>, [session |-> r.session, part |-> 1])
      BY <2>1, <3>1
    <3>. QED
      BY <1>1, <2>1, <3>1, <3>2, PartsAppend
  <2>3. CASE l.cmd = "data"
    <3>1. device.chunks = Parts(r.session, l.part) /\ r.part = l.part + 1
      BY <1>3, <1>6, <2>1, <2>3 DEF DeviceInv, InScript
    <3>2. device'.chunks = Append(Parts(r.session, l.part), [session |-> r.session, part |-> l.part + 1])
      BY <2>1, <3>1
    <3>. QED
      BY <1>1, <2>1, <3>1, <3>2, PartsAppend
  <2>. QED
    BY <1>3, <1>6, <2>2, <2>3 DEF InScript
<1>7. ASSUME r.cmd = "finalize", device'.state = "success"
      PROVE  device'.chunks = Parts(r.session, ch) /\ l.target = r.target
  <2>1. l.cmd = "data" /\ l.part = ch /\ l.target = r.target /\ l.session = r.session
    BY <1>3, <1>7 DEF InScript
  <2>2. device.state = "receiving" /\ device'.chunks = device.chunks
    BY <1>7 DEF Outcome
  <2>. QED
    BY <2>1, <2>2 DEF DeviceInv
<1>8. /\ r.cmd = "finalize" /\ device'.state = "success" =>
           stored' = [stored EXCEPT ![r.target] = Parts(r.session, ch)]
      /\ ~(r.cmd = "finalize" /\ device'.state = "success") => stored' = stored
  BY <1>7 DEF StoredAs
<1>9. stored' \in [Blobs -> {<<>>} \union {Parts(s, ch) : s \in Nat}]
  BY <1>1, <1>2, <1>8
<1>10. r.cmd = "finalize" /\ device'.state = "success" => stored'[r.target] = Parts(r.session, ch)
  BY <1>1, <1>2, <1>8
<1>11. \A t \in Blobs : stored'[t] = stored[t]
                        \/ (t = r.target /\ r.cmd = "finalize" /\ stored'[t] = Parts(r.session, ch))
  BY <1>1, <1>2, <1>8
<1>12. \A t \in Blobs : stored'[t] = <<>> \/ \E s \in 1 .. r.session : stored'[t] = Parts(s, ch)
  <2>. TAKE t \in Blobs
  <2>1. CASE stored'[t] = stored[t]
    <3>1. stored[t] = <<>> \/ \E s \in 1 .. l.session : stored[t] = Parts(s, ch)
      BY DEF DeviceInv
    <3>2. \A s \in 1 .. l.session : s \in 1 .. r.session
      BY <1>1, <1>4
    <3>. QED
      BY <2>1, <3>1, <3>2
  <2>2. CASE r.cmd = "finalize" /\ stored'[t] = Parts(r.session, ch)
    <3>1. r.session \in 1 .. r.session
      BY <1>1, <2>2
    <3>. QED
      BY <2>2, <3>1
  <2>. QED
    BY <1>11, <2>1, <2>2
<1>13. ASSUME stored'["nn_info"] = Parts(r.session, ch) PROVE r.seq > 1 /\ r.target # "model"
  <2>1. CASE stored'["nn_info"] = stored["nn_info"]
    <3>1. \E s \in 1 .. l.session : stored["nn_info"] = Parts(s, ch)
      <4>1. stored["nn_info"] # <<>>
        BY <1>13, <2>1, PartsDiffer
      <4>2. "nn_info" \in Blobs
        BY DEF Blobs
      <4>. QED
        BY <4>1, <4>2 DEF DeviceInv
    <3>2. r.session \in 1 .. l.session
      BY <1>13, <2>1, <3>1, PartsDiffer
    <3>3. l.session = r.session /\ r.cmd # "ping"
      BY <1>1, <1>4, <1>5, <3>2
    <3>4. l.seq > 1 /\ l.target # "model"
      BY <1>13, <2>1, <3>3 DEF DeviceInv
    <3>5. r.target # "model"
      BY <1>3, <3>3, <3>4 DEF InScript
    <3>. QED
      BY <1>1, <1>3, <3>3, <3>4, <3>5
  <2>2. CASE "nn_info" = r.target /\ r.cmd = "finalize"
    <3>1. l.cmd = "data" /\ l.session = r.session /\ r.seq = l.seq + 1
      BY <1>3, <2>2 DEF InScript
    <3>2. l.seq # 0
      BY <3>1, FrameFields
    <3>. QED
      BY <1>1, <2>2, <3>1, <3>2
  <2>. QED
    BY <1>11, <2>1, <2>2 DEF Blobs
<1>14. ASSUME device'.state = "receiving"
       PROVE  \/ r.cmd = "ping"
              \/ r.cmd = "begin" /\ device'.target = r.target /\ device'.chunks = <<>>
              \/ r.cmd = "data" /\ device'.target = r.target /\ device'.chunks = Parts(r.session, r.part)
  <2>1. CASE r.cmd = "status"
    <3>1. l.cmd = "finalize"
      BY <1>3, <2>1 DEF InScript
    <3>2. device.state = "receiving"
      BY <1>14, <2>1 DEF Outcome
    <3>. QED
      BY <3>1, <3>2 DEF DeviceInv
  <2>2. CASE r.cmd \in {"begin", "finalize"}
    BY <1>14, <2>2 DEF Outcome
  <2>. QED
    BY <1>1, <1>6, <1>14, <2>1, <2>2 DEF Steps
<1>15. DeviceInv(ch, r)'
  BY <1>10, <1>12, <1>13, <1>14 DEF DeviceInv
<1>. QED
  BY <1>8, <1>9, <1>15

\* What the run has in flash, and what it had asked for when it ended well, stays.
LEMMA StoredStays ==
  ASSUME NEW ms, NEW ch, UploadTyped(ms, ch), NEW r \in Frames, r.session = session,
         \/ r.cmd # "status" /\ stored' = [stored EXCEPT ![r.target] = Parts(r.session, ch)]
         \/ stored' = stored,
         NEW t \in Blobs, stored[t] = Parts(session, ch)
  PROVE  stored'[t] = Parts(session, ch)
<1>1. stored \in [Blobs -> {<<>>} \union {Parts(s, ch) : s \in Nat}] /\ (r.cmd # "status" => r.target \in Blobs)
  BY FrameFields DEF UploadTyped
<1>. QED
  BY <1>1

LEMMA UploadServedAccepted ==
  ASSUME NEW ms, NEW ch \in Nat, ch # 0, NEW l, NEW w, UploadHolds(ms, ch, l, w),
         NEW a, UploadServed(a), NEW r, r = inbox[1]
  PROVE  AcceptedInv(ch, w)'
<1>1. /\ UploadTyped(ms, ch) /\ LineInv /\ SentInv(ch, w) /\ QueueInv(ch, l, w) /\ DeviceInv(ch, l)
      /\ AcceptedInv(ch, w)
  BY DEF UploadHolds
<1>2. UNCHANGED <<session, seq, phase, req, answered, asked, todo, step, sent, exit>>
  BY DEF UploadServed
<1>3. /\ Busy' /\ Busy /\ Newest' = Newest /\ Oldest' = Oldest
      /\ wire # <<>> => wire' # <<>> /\ wire'[1] = wire[1]
      /\ wire = <<>> => wire'[1].half = 1
  BY <1>1, ServedFrame
<1>4. r \in Frames /\ Link(l, r, ch) /\ l \in Frames
  BY <1>1, ServedQueue
<1>5. /\ r.cmd = "finalize" /\ device'.state = "success" =>
           stored' = [stored EXCEPT ![r.target] = Parts(r.session, ch)]
      /\ ~(r.cmd = "finalize" /\ device'.state = "success") => stored' = stored
  BY <1>1, <1>4, ServedDevice DEF UploadServed
<1>6. CASE NoneAccepted(w)
  BY <1>2, <1>6 DEF NoneAccepted, AcceptedInv
<1>7. CASE OwnAccepted(ch, w)
  <2>1. Oldest = w /\ phase # "send" /\ exit # "ok" /\ Newest = w
    BY <1>1, <1>3, <1>7 DEF OwnAccepted, SentInv
  <2>2. inbox # <<>>
    BY DEF UploadServed
  <2>3. r = w
    <3>1. wire = <<>>
      BY <1>1, <1>3, <2>1, <2>2, UploadEnds
    <3>. QED
      BY <2>1, <3>1 DEF Oldest, OldestOf
  <2>4. \A t \in Blobs : stored[t] = Parts(session, ch) => stored'[t] = Parts(session', ch)
    <3>1. r.session = session
      BY <1>7, <2>3 DEF OwnAccepted
    <3>. QED
      BY <1>1, <1>2, <1>4, <1>5, <3>1, StoredStays
  <2>5. AlignedIn(wire) => AlignedIn(wire')
    BY <1>3 DEF AlignedIn
  <2>6. asked[1] \in Blobs /\ "model" \in Blobs
    BY <1>7, TargetFacts DEF OwnAccepted, Blobs
  <2>7. /\ asked' = Both /\ todo' # asked' => stored'["model"] = Parts(session', ch)
        /\ step' = "status" => stored'[asked'[1]] = Parts(session', ch)
    BY <1>2, <1>7, <2>4, <2>6 DEF OwnAccepted
  <2>8. OwnAccepted(ch, w)'
    BY <1>2, <1>3, <1>7, <2>1, <2>5, <2>7 DEF OwnAccepted
  <2>. QED
    BY <2>8 DEF AcceptedInv
<1>8. CASE ForeignAccepted
  <2>1. PICK t \in Nat :
          /\ t < session /\ answered # {} /\ \A b \in answered : b.from = t
          /\ phase # "closed" =>
               /\ Busy /\ seq # 1 /\ Oldest.session >= t /\ Oldest.seq <= seq
               /\ Oldest.session # t => Oldest.seq < seq
    BY <1>8 DEF ForeignAccepted
  <2>2. ForeignAccepted'
    BY <1>2, <1>3, <2>1 DEF ForeignAccepted
  <2>. QED
    BY <2>2 DEF AcceptedInv
<1>. QED
  BY <1>1, <1>6, <1>7, <1>8 DEF AcceptedInv

LEMMA UploadServes ==
  ASSUME NEW ms, NEW ch \in Nat, ch # 0, UploadInv(ms, ch), NEW a, UploadServed(a)
  PROVE  UploadInv(ms, ch)'
<1>1. PICK l, w : UploadHolds(ms, ch, l, w)
  BY DEF UploadInv
<1>2. PICK r : r = inbox[1]
  OBVIOUS
<1>3. /\ UploadTyped(ms, ch) /\ LineInv /\ ScriptInv(ch) /\ SentInv(ch, w) /\ QueueInv(ch, l, w)
      /\ DeviceInv(ch, l)
  BY <1>1 DEF UploadHolds
<1>4. UNCHANGED <<session, seq, phase, req, answered, asked, todo, step, sent, exit>>
      /\ device' \in Devices
  BY DEF UploadServed, Outcome
<1>5. /\ wire' \in Seq(PiecesFor(Replies)) /\ inbox' \in Seq(Frames) /\ LineInv'
      /\ Busy' /\ Busy /\ Newest' = Newest
  BY <1>3, ServedFrame
<1>6. QueueInv(ch, r, w)' /\ r \in Frames /\ Link(l, r, ch) /\ l \in Frames
  BY <1>2, <1>3, ServedQueue
<1>7. /\ DeviceInv(ch, r)' /\ stored' \in [Blobs -> {<<>>} \union {Parts(s, ch) : s \in Nat}]
  BY <1>2, <1>3, <1>6, ServedDevice DEF UploadServed
<1>8. UploadTyped(ms, ch)'
  BY <1>3, <1>4, <1>5, <1>7 DEF UploadTyped, Devices
<1>9. ScriptInv(ch)'
  BY <1>3, <1>4 DEF ScriptInv
<1>10. SentInv(ch, w)'
  BY <1>3, <1>4, <1>5 DEF SentInv, Asking
<1>11. AcceptedInv(ch, w)'
  BY <1>1, <1>2, UploadServedAccepted
<1>12. UploadHolds(ms, ch, r, w)'
  BY <1>5, <1>6, <1>7, <1>8, <1>9, <1>10, <1>11 DEF UploadHolds
<1>. QED
  BY <1>12 DEF UploadInv

-----------------------------------------------------------------------------
(* The upload: the program is run, stopped, and sends                       *)

LEMMA UploadRuns ==
  ASSUME NEW ms, NEW ch, NEW tg, ms \in Nat, tg \subseteq AllTargets, UploadInv(ms, ch), UploadOf(ms, ch, tg)!Run
  PROVE  UploadInv(ms, ch)'
<1>1. PICK l, w : UploadHolds(ms, ch, l, w)
  BY DEF UploadInv
<1>2. /\ UploadTyped(ms, ch) /\ LineInv /\ ScriptInv(ch) /\ SentInv(ch, w) /\ QueueInv(ch, l, w)
      /\ DeviceInv(ch, l)
  BY <1>1 DEF UploadHolds
<1>3. /\ phase = "closed" /\ session < ms /\ session' = session + 1 /\ seq' = 1 /\ answered' = {}
      /\ phase' = "send" /\ step' = "ping" /\ exit' = "none" /\ sent' = 0
      /\ asked' \in AllTargets /\ todo' = asked' /\ device' = device /\ stored' = stored
  BY DEF UploadOf!Run
<1>4. PICK n : Takes(n)
  BY DEF UploadOf!Run, UploadOf!ResetInput, UploadOf!Take, Takes, Dropped
<1>5. /\ wire' \in Seq(PiecesFor(Replies)) /\ inbox' = inbox /\ LineInv'
      /\ Busy' => Busy /\ Newest' = Newest
      /\ wire' # <<>> => wire # <<>> /\ wire'[Len(wire')] = wire[Len(wire)]
  BY <1>2, <1>4, UploadTakes
<1>6. session \in Nat /\ w.session \in Nat /\ w.session <= session /\ w \in Frames
  BY <1>2, <1>3, FrameFields DEF UploadTyped, SentInv
<1>7. session' \in Nat /\ session' # 0 /\ session' <= ms /\ w.session < session'
  BY <1>3, <1>6
<1>8. UploadTyped(ms, ch)'
  BY <1>2, <1>3, <1>5, <1>7 DEF UploadTyped, Steps
<1>9. ScriptInv(ch)'
  BY <1>3, <1>7 DEF ScriptInv
<1>10. SentInv(ch, w)'
  BY <1>2, <1>3, <1>5, <1>6, <1>7 DEF SentInv
<1>11. QueueInv(ch, l, w)'
  BY <1>2, <1>3, <1>5 DEF QueueInv
<1>12. DeviceInv(ch, l)'
  BY <1>2, <1>3 DEF DeviceInv
<1>13. AcceptedInv(ch, w)'
  <2>1. w.session # session'
    BY <1>6, <1>7
  <2>. QED
    BY <1>3, <2>1 DEF AcceptedInv, NoneAccepted
<1>14. UploadHolds(ms, ch, l, w)'
  BY <1>5, <1>8, <1>9, <1>10, <1>11, <1>12, <1>13 DEF UploadHolds
<1>. QED
  BY <1>14 DEF UploadInv

LEMMA UploadKilled ==
  ASSUME NEW ms, NEW ch, NEW tg, UploadInv(ms, ch), UploadOf(ms, ch, tg)!Killed
  PROVE  UploadInv(ms, ch)'
<1>1. PICK l, w : UploadHolds(ms, ch, l, w)
  BY DEF UploadInv
<1>2. /\ UploadTyped(ms, ch) /\ LineInv /\ ScriptInv(ch) /\ SentInv(ch, w) /\ QueueInv(ch, l, w)
      /\ DeviceInv(ch, l) /\ AcceptedInv(ch, w)
  BY <1>1 DEF UploadHolds
<1>3. /\ phase # "closed" /\ phase' = "closed" /\ exit' = "killed"
      /\ inbox' = inbox /\ wire' = wire
      /\ UNCHANGED <<session, seq, answered, asked, todo, step, sent, device, stored>>
  BY DEF UploadOf!Killed, UploadOf!pipe
<1>4. LineInv' /\ (Busy' <=> Busy) /\ Newest' = Newest /\ Oldest' = Oldest
  BY <1>2, <1>3 DEF LineInv, Busy, Newest, Oldest
<1>5. UploadTyped(ms, ch)'
  BY <1>2, <1>3 DEF UploadTyped
<1>6. ScriptInv(ch)'
  BY <1>3 DEF ScriptInv
<1>7. SentInv(ch, w)'
  <2>1. w.session = session \/ w.session < session
    BY <1>2, <1>3 DEF SentInv, Asking, UploadTyped
  <2>2. w.session \in Nat /\ session \in Nat
    BY <1>2, FrameFields DEF UploadTyped, SentInv
  <2>3. w.session <= session
    BY <2>1, <2>2
  <2>. QED
    BY <1>2, <1>3, <1>4, <2>3 DEF SentInv
<1>8. QueueInv(ch, l, w)'
  BY <1>2, <1>3 DEF QueueInv
<1>9. DeviceInv(ch, l)'
  BY <1>2, <1>3 DEF DeviceInv
<1>10. AcceptedInv(ch, w)'
  <2>1. NoneAccepted(w) => NoneAccepted(w)'
    BY <1>3 DEF NoneAccepted
  <2>2. OwnAccepted(ch, w) => OwnAccepted(ch, w)'
    BY <1>3, <1>4 DEF OwnAccepted
  <2>3. ForeignAccepted => ForeignAccepted'
    BY <1>3 DEF ForeignAccepted
  <2>. QED
    BY <1>2, <2>1, <2>2, <2>3 DEF AcceptedInv
<1>11. UploadHolds(ms, ch, l, w)'
  BY <1>4, <1>5, <1>6, <1>7, <1>8, <1>9, <1>10 DEF UploadHolds
<1>. QED
  BY <1>11 DEF UploadInv

LEMMA UploadSends ==
  ASSUME NEW ms, NEW ch, NEW tg, UploadInv(ms, ch), UploadOf(ms, ch, tg)!SendFrame
  PROVE  UploadInv(ms, ch)'
<1>1. PICK l, w : UploadHolds(ms, ch, l, w)
  BY DEF UploadInv
<1>2. /\ UploadTyped(ms, ch) /\ LineInv /\ ScriptInv(ch) /\ SentInv(ch, w) /\ QueueInv(ch, l, w)
      /\ DeviceInv(ch, l) /\ AcceptedInv(ch, w)
  BY <1>1 DEF UploadHolds
<1>3. PICK r : r = Asking
  OBVIOUS
<1>4. /\ phase = "send" /\ req' = r /\ phase' = "wait" /\ wire' = wire
      /\ UNCHANGED <<session, seq, answered, asked, todo, step, sent, exit, device, stored>>
  BY <1>3 DEF UploadOf!SendFrame, UploadOf!Write, Asking
<1>5. Queued(inbox', inbox, r)
  BY <1>4 DEF UploadOf!SendFrame, UploadOf!Write, Queued
<1>6. /\ r \in Frames /\ r.session = session /\ r.seq = seq /\ r.cmd = step
      /\ todo = JustInfo => r.target = "nn_info"
      /\ todo \in {JustModel, Both} => r.target = "model"
  BY <1>2, <1>3, <1>4, AskingFacts
<1>7. w \in Frames /\ l \in Frames /\ (Busy => Newest = w) /\ session \in Nat /\ seq \in Nat
  BY <1>2 DEF SentInv, QueueInv, UploadTyped
<1>8. Link(w, r, ch)
  <2>1. CASE seq = 1
    <3>1. w.session < session /\ step = "ping"
      BY <1>2, <1>4, <2>1 DEF SentInv, ScriptInv
    <3>2. r.session > w.session
      <4>1. w.session \in Nat
        BY <1>7, FrameFields
      <4>. QED
        BY <1>6, <1>7, <3>1, <4>1
    <3>. QED
      BY <1>6, <2>1, <3>1, <3>2 DEF Link
  <2>2. CASE seq # 1
    <3>1. w.session = session /\ w.seq = seq - 1 /\ InScript(w, r, ch)
      BY <1>2, <1>3, <1>4, <2>2 DEF SentInv
    <3>2. r.seq = w.seq + 1
      BY <1>6, <1>7, <3>1
    <3>. QED
      BY <1>6, <3>1, <3>2 DEF Link
  <2>. QED
    BY <2>1, <2>2
<1>9. Busy => Follows(Newest, r)
  BY <1>7, <1>8, LinkFollows
<1>10. /\ inbox' \in Seq(Frames) /\ LineInv' /\ Busy' /\ Newest' = r
       /\ Oldest' = IF Busy THEN Oldest ELSE r
  <2>1. Pending(wire, inbox) => Follows(NewestOf(wire, inbox), r)
    BY <1>9 DEF Busy, Newest
  <2>2. Sane(Frames, Replies) /\ inbox \in Seq(Frames) /\ wire \in Seq(PiecesFor(Replies)) /\ LineOk(wire, inbox)
    BY <1>2, UploadSane DEF LineInv
  <2>3. /\ inbox' \in Seq(Frames) /\ LineOk(wire, inbox') /\ Pending(wire, inbox')
        /\ WrittenEnds(inbox', wire, inbox, r)
    BY <1>5, <1>6, <2>1, <2>2, LineWrite
  <2>. QED
    BY <1>4, <2>3 DEF WrittenEnds, LineInv, Busy, Newest, Oldest
<1>11. UploadTyped(ms, ch)'
  BY <1>2, <1>4, <1>10 DEF UploadTyped
<1>12. ScriptInv(ch)'
  BY <1>2, <1>4 DEF ScriptInv
<1>13. SentInv(ch, r)'
  BY <1>3, <1>4, <1>6, <1>10 DEF SentInv, Asking
<1>14. QueueInv(ch, l, r)'
  <2>. DEFINE m == Len(inbox)
              d == inbox'
  <2>1. /\ m \in Nat /\ Len(d) = m + 1 /\ d[m + 1] = r
        /\ \A i \in 1 .. m : d[i] = inbox[i]
        /\ d # <<>>
    <3>1. inbox \in Seq(Frames) /\ d = Append(inbox, r) /\ r \in Frames
      BY <1>2, <1>5, <1>6 DEF Queued, UploadTyped
    <3>. HIDE DEF m, d
    <3>2. /\ Len(inbox) \in Nat /\ d \in Seq(Frames) /\ Len(d) = Len(inbox) + 1
          /\ d[Len(inbox) + 1] = r /\ \A i \in 1 .. Len(inbox) : d[i] = inbox[i]
      BY <3>1, Appended
    <3>3. d # <<>>
      <4>1. Len(d) # 0
        BY <3>2
      <4>. QED
        BY <3>2, <4>1, Nonempty
    <3>. QED
      BY <3>2, <3>3 DEF m
  <2>2. inbox # <<>> => m # 0 /\ inbox[m] = w
    BY <1>2, <1>7, Nonempty DEF Busy, Pending, Newest, NewestOf, UploadTyped
  <2>3. inbox = <<>> => m = 0 /\ l = w
    BY <1>2 DEF QueueInv
  <2>4. \A i \in 1 .. m - 1 : Link(inbox[i], inbox[i + 1], ch)
    BY <1>2 DEF QueueInv
  <2>5. l = w \/ Before(l, w)
    BY <1>2 DEF QueueInv
  <2>6. Before(l, r)
    <3>1. Before(w, r)
      BY <1>6, <1>7, <1>8, LinkFollows, FollowsBefore
    <3>2. /\ l.session \in Nat /\ l.seq \in Nat /\ w.session \in Nat /\ w.seq \in Nat
          /\ r.session \in Nat /\ r.seq \in Nat
      BY <1>6, <1>7, FrameFields
    <3>. QED
      BY <2>5, <3>1, <3>2 DEF Before
  <2>7. wire' # <<>> => wire'[Len(wire')].of.of = l /\ wire'[Len(wire')].of.state = device'.state
    BY <1>2, <1>4 DEF QueueInv
  <2>8. inbox # <<>> => Link(l, inbox[1], ch)
    BY <1>2 DEF QueueInv
  <2>. HIDE DEF m, d
  <2>9. Link(l, d[1], ch)
    <3>1. CASE inbox = <<>>
      <4>1. d[1] = r
        BY <2>1, <2>3, <3>1
      <4>. QED
        BY <1>8, <2>3, <3>1, <4>1
    <3>2. CASE inbox # <<>>
      <4>1. 1 \in 1 .. m
        BY <2>1, <2>2, <3>2
      <4>. QED
        BY <2>1, <2>8, <3>2, <4>1
    <3>. QED
      BY <3>1, <3>2
  <2>10. \A i \in 1 .. Len(d) - 1 : Link(d[i], d[i + 1], ch)
    <3>. TAKE i \in 1 .. Len(d) - 1
    <3>1. i \in 1 .. m /\ d[i] = inbox[i]
      BY <2>1
    <3>2. CASE i = m
      <4>1. inbox # <<>>
        BY <2>1, <2>3, <3>1
      <4>2. d[i] = w /\ d[i + 1] = r
        BY <2>1, <2>2, <3>1, <3>2, <4>1
      <4>. QED
        BY <1>8, <4>2
    <3>3. CASE i # m
      <4>1. i \in 1 .. m - 1 /\ i + 1 \in 1 .. m
        BY <2>1, <3>1, <3>3
      <4>2. d[i + 1] = inbox[i + 1]
        BY <2>1, <4>1
      <4>. QED
        BY <2>4, <3>1, <4>1, <4>2
    <3>. QED
      BY <3>2, <3>3
  <2>. QED
    BY <1>7, <2>1, <2>6, <2>7, <2>9, <2>10 DEF QueueInv, d
<1>15. DeviceInv(ch, l)'
  BY <1>2, <1>4 DEF DeviceInv
<1>16. AcceptedInv(ch, r)'
  <2>1. CASE NoneAccepted(w)
    <3>1. NoneAccepted(r)'
      BY <1>4, <1>6, <2>1 DEF NoneAccepted
    <3>. QED
      BY <3>1 DEF AcceptedInv
  <2>2. CASE OwnAccepted(ch, w)
    <3>1. ~Busy /\ Oldest' = r /\ wire = <<>>
      BY <1>4, <1>10, <2>2 DEF OwnAccepted, Busy, Pending
    <3>2. asked = Both /\ todo = asked => r.target = "model"
      BY <1>6
    <3>3. AlignedIn(wire') /\ exit # "ok" /\ seq # 1
      BY <1>4, <2>2, <3>1 DEF AlignedIn, OwnAccepted
    <3>4. OwnAccepted(ch, r)'
      BY <1>4, <1>6, <2>2, <3>1, <3>2, <3>3 DEF OwnAccepted
    <3>. QED
      BY <3>4 DEF AcceptedInv
  <2>3. CASE ForeignAccepted
    <3>1. PICK t \in Nat :
            /\ t < session /\ answered # {} /\ \A b \in answered : b.from = t
            /\ Busy /\ seq # 1 /\ Oldest.session >= t /\ Oldest.seq <= seq
            /\ Oldest.session # t => Oldest.seq < seq
      BY <1>4, <2>3 DEF ForeignAccepted
    <3>2. ForeignAccepted'
      BY <1>4, <1>10, <3>1 DEF ForeignAccepted
    <3>. QED
      BY <3>2 DEF AcceptedInv
  <2>. QED
    BY <1>2, <2>1, <2>2, <2>3 DEF AcceptedInv
<1>17. UploadHolds(ms, ch, l, r)'
  BY <1>10, <1>11, <1>12, <1>13, <1>14, <1>15, <1>16 DEF UploadHolds
<1>. QED
  BY <1>17 DEF UploadInv

-----------------------------------------------------------------------------
(* The upload: the program reads                                            *)

\* A read that brings too little, or what is not the answer
UploadMisses(n) ==
  /\ phase = "wait" /\ Takes(n) /\ (n = 2 => ~HeaderFits) /\ n <= 2
  /\ phase' = "closed" /\ exit' = "failed"
  /\ UNCHANGED <<session, seq, req, answered, asked, todo, step, sent, device, stored>>

\* A read that brings the answer
UploadReads ==
  /\ phase = "wait" /\ wire # <<>> /\ AlignedIn(wire) /\ HeaderFits /\ Takes(2) /\ Oldest.seq = seq
  /\ answered' = answered \union {[seq |-> seq, from |-> Oldest.session]}
  /\ UNCHANGED <<session, req, asked, device, stored>>

\* The answer is an error.
UploadGivesUp ==
  /\ UploadReads /\ step # "ping" /\ phase' = "closed" /\ exit' = "failed" /\ UNCHANGED <<seq, todo, step, sent>>

\* The answer is what it should be.
UploadGoesOn(ch) ==
  /\ UploadReads /\ seq' = seq + 1
  /\ step = "finalize" => wire[1].of.state = "success"
  /\ \/ /\ step = "ping" /\ step' = "begin" /\ phase' = "send" /\ UNCHANGED <<todo, sent, exit>>
     \/ /\ step = "begin" /\ step' = "data" /\ phase' = "send" /\ UNCHANGED <<todo, sent, exit>>
     \/ /\ step = "data" /\ step' = IF sent + 1 = ch THEN "finalize" ELSE "data"
        /\ sent' = sent + 1 /\ phase' = "send" /\ UNCHANGED <<todo, exit>>
     \/ /\ step = "finalize" /\ todo = Both /\ step' = "begin" /\ sent' = 0 /\ todo' = JustInfo
        /\ phase' = "send" /\ UNCHANGED exit
     \/ /\ step = "finalize" /\ asked # Both /\ step' = "status" /\ todo' = <<>>
        /\ phase' = "send" /\ UNCHANGED <<sent, exit>>
     \/ /\ step = "status" \/ (step = "finalize" /\ asked = Both /\ todo = JustInfo)
        /\ phase' = "closed" /\ exit' = "ok" /\ UNCHANGED <<todo, step, sent>>

LEMMA UploadHeaderRead ==
  ASSUME NEW ms, NEW ch, UploadTyped(ms, ch), Len(wire) >= 2
  PROVE  /\ 2 \in 0 .. Len(wire) /\ wire # <<>>
         /\ SubSeq(wire, 1, 2)[1] = wire[1] /\ SubSeq(wire, 1, 2)[2] = wire[2]
<1>. DEFINE m == Len(wire)
<1>1. m \in Nat /\ wire \in Seq(PiecesFor(Replies))
  BY DEF UploadTyped
<1>2. 2 \in 0 .. m /\ m # 0
  <2>1. m >= 2
    OBVIOUS
  <2>. HIDE DEF m
  <2>. QED
    BY <1>1, <2>1
<1>3. wire # <<>>
  BY <1>1, <1>2, Nonempty
<1>4. SubSeq(wire, 1, 2)[1] = wire[1] /\ SubSeq(wire, 1, 2)[2] = wire[2]
  BY <1>1
<1>. QED
  BY <1>2, <1>3, <1>4

LEMMA UploadTimedOutMisses ==
  ASSUME NEW ms, NEW ch, NEW tg, UploadTyped(ms, ch), UploadOf(ms, ch, tg)!TimedOut
  PROVE  \E n : UploadMisses(n)
<1>1. PICK n \in 0 .. 2 - 1 : n <= Len(wire) /\ UploadOf(ms, ch, tg)!Take(n)
  BY DEF UploadOf!TimedOut, UploadOf!TakeShort
<1>2. n \in 0 .. Len(wire) /\ n <= 2 /\ n # 2
  BY <1>1 DEF UploadTyped
<1>. QED
  BY <1>1, <1>2 DEF UploadOf!TimedOut, UploadOf!Take, UploadOf!Fail, UploadMisses, Takes, Dropped

LEMMA UploadReadStep ==
  ASSUME NEW ms, NEW ch, NEW tg, UploadTyped(ms, ch), LineInv, ScriptInv(ch), NEW w, SentInv(ch, w),
         UploadOf(ms, ch, tg)!ReadStatus
  PROVE  (\E n : UploadMisses(n)) \/ UploadGivesUp \/ UploadGoesOn(ch)
<1>. DEFINE h == SubSeq(wire, 1, 2)
<1>1. 2 \in 0 .. Len(wire) /\ wire # <<>> /\ h[1] = wire[1] /\ h[2] = wire[2]
  BY UploadHeaderRead DEF UploadOf!ReadStatus
<1>2. UploadOf(ms, ch, tg)!Matches(h) <=> HeaderFits
  BY <1>1 DEF UploadOf!Matches, UploadOf!IsHeader, HeaderFits
<1>3. phase = "wait" /\ Takes(2) /\ UNCHANGED <<session, req, asked, device, stored>>
  BY <1>1 DEF UploadOf!ReadStatus, UploadOf!Take, Takes, Dropped
<1>. HIDE DEF h
<1>4. CASE ~HeaderFits
  <2>1. UploadOf(ms, ch, tg)!Fail /\ answered' = answered
    BY <1>2, <1>4 DEF UploadOf!ReadStatus, h
  <2>2. UploadMisses(2)
    BY <1>3, <1>4, <2>1 DEF UploadMisses, UploadOf!Fail
  <2>. QED
    BY <2>2
<1>5. CASE HeaderFits
  <2>1. AlignedIn(wire)
    BY <1>5 DEF HeaderFits, AlignedIn
  <2>2. wire[1].of.of = Oldest /\ req.seq = seq /\ req = Asking
    BY <1>1, <1>3, <2>1, UploadHeader DEF SentInv, Asking
  <2>3. Oldest.seq = seq
    BY <1>5, <2>2 DEF HeaderFits
  <2>4. /\ answered' = answered \union {[seq |-> seq, from |-> Oldest.session]}
        /\ \/ ~UploadOf(ms, ch, tg)!Acceptable(wire[1].of) /\ UploadOf(ms, ch, tg)!Fail
           \/ UploadOf(ms, ch, tg)!Acceptable(wire[1].of) /\ UploadOf(ms, ch, tg)!Advance(wire[1].of)
    BY <1>1, <1>2, <1>5, <2>2 DEF UploadOf!ReadStatus, h
  <2>5. UploadReads
    BY <1>1, <1>3, <1>5, <2>1, <2>3, <2>4 DEF UploadReads
  <2>6. CASE ~UploadOf(ms, ch, tg)!Acceptable(wire[1].of) /\ UploadOf(ms, ch, tg)!Fail
    <3>1. step # "ping"
      BY <2>6 DEF UploadOf!Acceptable
    <3>2. UploadGivesUp
      BY <2>5, <2>6, <3>1 DEF UploadGivesUp, UploadOf!Fail
    <3>. QED
      BY <3>2
  <2>7. CASE UploadOf(ms, ch, tg)!Acceptable(wire[1].of) /\ UploadOf(ms, ch, tg)!Advance(wire[1].of)
    <3>1. step = "finalize" => wire[1].of.state = "success"
      BY <2>7 DEF UploadOf!Acceptable
    <3>2. /\ Len(todo) > 1 /\ step = "finalize" => todo = Both
          /\ Len(asked) = 1 => asked # Both
          /\ Len(todo) = 1 /\ Len(asked) > 1 /\ step = "finalize" => asked = Both /\ todo = JustInfo
          /\ todo = Both => Tail(todo) = JustInfo
      <4>1. phase # "closed"
        BY <1>3
      <4>2. /\ todo \in {<<>>, JustModel, JustInfo, Both} /\ asked \in {JustModel, JustInfo, Both}
            /\ step = "finalize" /\ asked # Both => todo = asked
            /\ step = "finalize" => todo # <<>>
        BY <4>1, TargetFacts DEF ScriptInv
      <4>3. Len(JustModel) = 1 /\ Len(JustInfo) = 1 /\ Len(Both) = 2 /\ Tail(Both) = JustInfo
        BY TargetFacts
      <4>4. /\ step = "finalize" => Len(todo) = IF todo = Both THEN 2 ELSE 1
            /\ Len(asked) = IF asked = Both THEN 2 ELSE 1
        BY <4>2, <4>3
      <4>5. step = "finalize" /\ todo # Both /\ asked = Both => todo = JustInfo
        BY <4>1, <4>2 DEF ScriptInv
      <4>. DEFINE lt == Len(todo)
                  la == Len(asked)
      <4>6. /\ step = "finalize" => lt = IF todo = Both THEN 2 ELSE 1
            /\ la = IF asked = Both THEN 2 ELSE 1
        BY <4>4
      <4>7. todo = Both => Tail(todo) = JustInfo
        BY <4>3
      <4>. HIDE DEF lt, la
      <4>8. lt > 1 /\ step = "finalize" => todo = Both
        BY <4>6
      <4>9. la = 1 => asked # Both
        BY <4>6
      <4>10. lt = 1 /\ step = "finalize" => todo # Both
        BY <4>6
      <4>11. la > 1 => asked = Both
        BY <4>6
      <4>. QED
        BY <4>5, <4>7, <4>8, <4>9, <4>10, <4>11 DEF lt, la
    <3>3. UploadOf(ms, ch, tg)!Advance(wire[1].of)
      BY <2>7
    <3>4. UploadGoesOn(ch)
      BY <2>5, <3>1, <3>2, <3>3 DEF UploadGoesOn, UploadOf!Advance, UploadOf!AfterData
    <3>. QED
      BY <3>4
  <2>. QED
    BY <2>4, <2>6, <2>7
<1>. QED
  BY <1>4, <1>5

LEMMA UploadMissesKeeps ==
  ASSUME NEW ms, NEW ch, UploadInv(ms, ch), NEW n, UploadMisses(n)
  PROVE  UploadInv(ms, ch)'
<1>1. PICK l, w : UploadHolds(ms, ch, l, w)
  BY DEF UploadInv
<1>2. /\ UploadTyped(ms, ch) /\ LineInv /\ ScriptInv(ch) /\ SentInv(ch, w) /\ QueueInv(ch, l, w)
      /\ DeviceInv(ch, l) /\ AcceptedInv(ch, w)
  BY <1>1 DEF UploadHolds
<1>3. /\ phase = "wait" /\ Takes(n) /\ phase' = "closed" /\ exit' = "failed"
      /\ UNCHANGED <<session, seq, req, answered, asked, todo, step, sent, device, stored>>
  BY DEF UploadMisses
<1>4. /\ wire' \in Seq(PiecesFor(Replies)) /\ inbox' = inbox /\ LineInv'
      /\ Busy' => Busy /\ Newest' = Newest
      /\ wire' # <<>> => wire # <<>> /\ wire'[Len(wire')] = wire[Len(wire)]
  BY <1>2, <1>3, UploadTakes
<1>5. Busy /\ Newest = w /\ w = req /\ req = Asking /\ w.session = session /\ session \in Nat
      /\ w.seq = seq /\ w.cmd = step
  BY <1>2, <1>3 DEF SentInv, Asking, UploadTyped
<1>6. UploadTyped(ms, ch)'
  BY <1>2, <1>3, <1>4 DEF UploadTyped
<1>7. ScriptInv(ch)'
  BY <1>3 DEF ScriptInv
<1>8. SentInv(ch, w)'
  BY <1>2, <1>3, <1>4, <1>5 DEF SentInv
<1>9. QueueInv(ch, l, w)'
  BY <1>2, <1>3, <1>4 DEF QueueInv
<1>10. DeviceInv(ch, l)'
  BY <1>2, <1>3 DEF DeviceInv
<1>11. AcceptedInv(ch, w)'
  <2>1. CASE NoneAccepted(w)
    <3>1. NoneAccepted(w)'
      BY <1>3, <2>1 DEF NoneAccepted
    <3>. QED
      BY <3>1 DEF AcceptedInv
  <2>2. CASE OwnAccepted(ch, w)
    <3>1. Oldest = w /\ AlignedIn(wire)
      BY <1>3, <1>5, <2>2 DEF OwnAccepted
    <3>2. n \in 0 .. Len(wire) /\ Dropped(wire', wire, n) /\ Len(wire) \in Nat
      BY <1>2, <1>3 DEF Takes, UploadTyped
    <3>3. Oldest' = w
      <4>1. CASE n = 0
        <5>1. wire' = wire
          BY <1>2, <3>2, <4>1, UploadSane, NoneDropped
        <5>. QED
          BY <1>4, <3>1, <5>1 DEF Oldest
      <4>2. CASE n # 0
        <5>1. wire # <<>>
          <6>1. Len(wire) # 0
            BY <3>2, <4>2
          <6>. QED
            BY <1>2, <6>1, UploadSane, Nonempty
        <5>2. /\ wire[1].half = 1 /\ wire[2].half = 2 /\ wire[2].of = wire[1].of /\ wire[1].of.of = Oldest
          BY <1>2, <3>1, <5>1, UploadHeader
        <5>3. HeaderFits
          BY <1>5, <3>1, <5>2 DEF HeaderFits
        <5>4. n = 1
          <6>1. n # 2 /\ n <= 2
            BY <5>3 DEF UploadMisses
          <6>. QED
            BY <3>2, <4>2, <6>1
        <5>5. 1 \in 1 .. Len(wire) /\ ~Ends(wire[1])
          BY <1>2, <5>1, <5>2, UploadSane, Nonempty DEF Ends
        <5>6. wire' # <<>> /\ OldestOf(wire', inbox) = OldestOf(wire, inbox)
          BY <1>2, <3>2, <5>2, <5>4, <5>5, UploadSane, LineWithin DEF LineInv, Oldest
        <5>. QED
          BY <1>4, <3>1, <5>6 DEF Oldest
      <4>. QED
        BY <4>1, <4>2
    <3>4. OwnAccepted(ch, w)'
      BY <1>3, <2>2, <3>3 DEF OwnAccepted
    <3>. QED
      BY <3>4 DEF AcceptedInv
  <2>3. CASE ForeignAccepted
    <3>1. ForeignAccepted'
      BY <1>3, <2>3 DEF ForeignAccepted
    <3>. QED
      BY <3>1 DEF AcceptedInv
  <2>. QED
    BY <1>2, <2>1, <2>2, <2>3 DEF AcceptedInv
<1>12. UploadHolds(ms, ch, l, w)'
  BY <1>4, <1>6, <1>7, <1>8, <1>9, <1>10, <1>11 DEF UploadHolds
<1>. QED
  BY <1>12 DEF UploadInv

\* What a whole answer leaves on the line, and what the firmware has made of the frame
LEMMA UploadReadsFacts ==
  ASSUME NEW ms, NEW ch, NEW l, NEW w, UploadHolds(ms, ch, l, w), UploadReads
  PROVE  /\ wire' \in Seq(PiecesFor(Replies)) /\ inbox' = inbox /\ LineInv' /\ (Busy' => Newest' = w)
         /\ QueueInv(ch, l, w)' /\ DeviceInv(ch, l)'
         /\ Busy /\ Newest = w /\ w = Asking /\ w.session = session /\ w.seq = seq /\ w \in Frames
         /\ session \in Nat /\ seq \in Nat /\ Oldest.session \in Nat /\ Oldest.seq = seq
         /\ (Busy' <=> Oldest # w)
         /\ Oldest # w => Oldest.session < session
         /\ Busy' => /\ Follows(Oldest, Oldest') /\ Oldest'.session \in Nat /\ Oldest'.seq \in Nat
         /\ Oldest = w => l = w /\ wire[1].of.state = device.state
<1>1. /\ UploadTyped(ms, ch) /\ LineInv /\ ScriptInv(ch) /\ SentInv(ch, w) /\ QueueInv(ch, l, w)
      /\ DeviceInv(ch, l)
  BY DEF UploadHolds
<1>2. /\ phase = "wait" /\ wire # <<>> /\ AlignedIn(wire) /\ Takes(2) /\ Oldest.seq = seq
      /\ UNCHANGED <<session, req, asked, device, stored>>
  BY DEF UploadReads
<1>3. /\ wire' \in Seq(PiecesFor(Replies)) /\ inbox' = inbox /\ LineInv'
      /\ Busy' => Busy /\ Newest' = Newest
      /\ wire' # <<>> => wire # <<>> /\ wire'[Len(wire')] = wire[Len(wire)]
  BY <1>1, <1>2, UploadTakes
<1>4. /\ Busy /\ Newest = w /\ w = Asking /\ w.session = session /\ w.seq = seq /\ w \in Frames
      /\ session \in Nat /\ seq \in Nat
  BY <1>1, <1>2 DEF SentInv, Asking, UploadTyped
<1>5. /\ (Busy' <=> Oldest # w)
      /\ Busy' => Follows(Oldest, Oldest') /\ Oldest'.session \in Nat /\ Oldest'.seq \in Nat
  BY <1>1, <1>2, <1>4, UploadTakesHeader
<1>6. /\ Oldest.session \in Nat /\ (Before(Oldest, w) \/ Oldest = w)
      /\ Oldest = w => inbox = <<>>
  BY <1>1, <1>2, <1>4, UploadEnds
<1>7. Oldest # w => Oldest.session < session
  BY <1>2, <1>4, <1>6 DEF Before
<1>8. QueueInv(ch, l, w)'
  BY <1>1, <1>2, <1>3 DEF QueueInv
<1>9. DeviceInv(ch, l)'
  BY <1>1, <1>2 DEF DeviceInv
<1>10. ASSUME Oldest = w PROVE l = w /\ wire[1].of.state = device.state
  <2>1. inbox = <<>> /\ l = w /\ wire[Len(wire)].of.state = device.state
    BY <1>1, <1>2, <1>6, <1>10 DEF QueueInv
  <2>2. 1 \in 1 .. Len(wire)
    BY <1>1, <1>2, UploadSane, Nonempty
  <2>3. ~Before(w, w)
    BY <1>4 DEF Before
  <2>4. wire[1].of.of = w
    BY <1>2, <1>10 DEF Oldest, OldestOf
  <2>5. wire[1].of = wire[Len(wire)].of
    BY <1>1, <1>4, <2>2, <2>3, <2>4 DEF LineInv, LineOk, Newest
  <2>. QED
    BY <2>1, <2>5
<1>. QED
  BY <1>2, <1>3, <1>4, <1>5, <1>6, <1>7, <1>8, <1>9, <1>10

LEMMA UploadGivesUpKeeps ==
  ASSUME NEW ms, NEW ch, UploadInv(ms, ch), UploadGivesUp
  PROVE  UploadInv(ms, ch)'
<1>1. PICK l, w : UploadHolds(ms, ch, l, w)
  BY DEF UploadInv
<1>2. /\ UploadTyped(ms, ch) /\ ScriptInv(ch) /\ SentInv(ch, w) /\ AcceptedInv(ch, w)
  BY <1>1 DEF UploadHolds
<1>3. /\ UploadReads /\ step # "ping" /\ phase' = "closed" /\ exit' = "failed" /\ phase = "wait"
      /\ UNCHANGED <<session, seq, req, asked, todo, step, sent, device, stored>>
      /\ answered' = answered \union {[seq |-> seq, from |-> Oldest.session]}
  BY DEF UploadGivesUp, UploadReads
<1>4. /\ wire' \in Seq(PiecesFor(Replies)) /\ inbox' = inbox /\ LineInv' /\ (Busy' => Newest' = w)
      /\ QueueInv(ch, l, w)' /\ DeviceInv(ch, l)'
      /\ Busy /\ w.session = session /\ session \in Nat /\ w \in Frames
      /\ (Busy' <=> Oldest # w) /\ Oldest.seq = seq
  BY <1>1, <1>3, UploadReadsFacts
<1>5. UploadTyped(ms, ch)'
  BY <1>2, <1>3, <1>4 DEF UploadTyped
<1>6. ScriptInv(ch)'
  BY <1>3 DEF ScriptInv
<1>7. SentInv(ch, w)'
  BY <1>3, <1>4 DEF SentInv
<1>8. AcceptedInv(ch, w)'
  <2>1. seq # 1 /\ ~NoneAccepted(w)
    BY <1>2, <1>3 DEF ScriptInv, NoneAccepted
  <2>2. CASE OwnAccepted(ch, w)
    <3>1. Oldest = w /\ ~Busy'
      BY <1>4, <2>2 DEF OwnAccepted
    <3>2. answered' # {} /\ \A a \in answered' : a.from = session'
      BY <1>3, <1>4, <2>2, <3>1 DEF OwnAccepted
    <3>3. OwnAccepted(ch, w)'
      BY <1>3, <1>4, <2>2, <3>1, <3>2 DEF OwnAccepted
    <3>. QED
      BY <3>3 DEF AcceptedInv
  <2>3. CASE ForeignAccepted
    <3>1. PICK t \in Nat :
            /\ t < session /\ answered # {} /\ \A b \in answered : b.from = t
            /\ Oldest.session # t => Oldest.seq < seq
      BY <1>3, <2>3 DEF ForeignAccepted
    <3>2. Oldest.session = t
      <4>1. ~(seq < seq)
        BY <1>2 DEF UploadTyped
      <4>. QED
        BY <1>4, <3>1, <4>1
    <3>3. answered' # {} /\ \A a \in answered' : a.from = t
      BY <1>3, <3>1, <3>2
    <3>4. ForeignAccepted'
      BY <1>3, <3>1, <3>3 DEF ForeignAccepted
    <3>. QED
      BY <3>4 DEF AcceptedInv
  <2>. QED
    BY <1>2, <2>1, <2>2, <2>3 DEF AcceptedInv
<1>9. UploadHolds(ms, ch, l, w)'
  BY <1>4, <1>5, <1>6, <1>7, <1>8 DEF UploadHolds
<1>. QED
  BY <1>9 DEF UploadInv

\* The program takes the next step of its script.
LEMMA GoesOnScript ==
  ASSUME NEW ms, NEW ch \in Nat, ch # 0, UploadTyped(ms, ch), ScriptInv(ch), UploadGoesOn(ch)
  PROVE  /\ phase' \in {"send", "closed"} /\ step' \in Steps /\ sent' \in Nat
         /\ phase' = "send" => exit' = exit
         /\ ScriptInv(ch)'
         /\ phase' = "send" => InScript(Asking, Asking', ch)
         /\ asked = Both /\ todo' # asked => todo # asked \/ step = "finalize"
         /\ asked = Both /\ todo' = asked => todo = asked
         /\ step' = "status" => step = "status" \/ (step = "finalize" /\ asked # Both /\ todo = asked)
         /\ phase' = "closed" => (step = "status" /\ asked # Both)
                                 \/ (step = "finalize" /\ asked = Both /\ todo = JustInfo)
<1>1. /\ phase = "wait" /\ seq' = seq + 1 /\ seq \in Nat /\ seq # 0 /\ sent \in Nat /\ step \in Steps
      /\ UNCHANGED <<session, asked>>
  BY DEF UploadGoesOn, UploadReads, UploadTyped
<1>2. /\ session # 0 /\ asked \in AllTargets /\ (step = "ping" <=> seq = 1)
      /\ \/ step # "status" /\ todo = asked
         \/ step \notin {"ping", "status"} /\ asked = Both /\ todo = JustInfo
         \/ step = "status" /\ asked # Both /\ todo = <<>>
      /\ step \in {"ping", "begin"} => sent = 0
      /\ step = "data" => sent < ch
      /\ step = "finalize" => sent = ch
  BY <1>1 DEF ScriptInv
<1>3. seq' # 1 /\ session' # 0 /\ asked' \in AllTargets
  BY <1>1, <1>2
<1>. DEFINE target == IF todo = <<>> THEN "none" ELSE Head(todo)
<1>4. /\ Asking.cmd = step /\ Asking.part = sent + 1 /\ Asking.target = target
      /\ Asking'.cmd = step' /\ Asking'.part = sent' + 1 /\ Asking'.target = target'
  BY DEF Asking
<1>5. /\ todo = Both => target = "model"
      /\ todo' = JustInfo => target' = "nn_info"
      /\ todo' = <<>> => target' = "none"
      /\ todo' = todo => target' = target
  BY TargetFacts
<1>6. JustInfo # Both /\ <<>> # Both /\ JustInfo # <<>>
  BY TargetFacts
<1>. HIDE DEF target
<1>7. CASE step = "ping" /\ step' = "begin" /\ phase' = "send" /\ UNCHANGED <<todo, sent, exit>>
  <2>1. ScriptInv(ch)'
    BY <1>1, <1>2, <1>3, <1>7 DEF ScriptInv
  <2>2. InScript(Asking, Asking', ch)
    <3>1. sent' + 1 = 1
      BY <1>2, <1>7
    <3>. QED
      BY <1>4, <1>5, <1>7, <3>1 DEF InScript
  <2>. QED
    BY <1>1, <1>7, <2>1, <2>2 DEF Steps
<1>8. CASE step = "begin" /\ step' = "data" /\ phase' = "send" /\ UNCHANGED <<todo, sent, exit>>
  <2>1. sent' = 0 /\ sent' < ch /\ sent' + 1 = 1
    BY <1>2, <1>8
  <2>2. ScriptInv(ch)'
    BY <1>1, <1>2, <1>3, <1>8, <2>1 DEF ScriptInv
  <2>3. InScript(Asking, Asking', ch)
    BY <1>4, <1>5, <1>8, <2>1 DEF InScript
  <2>. QED
    BY <1>1, <1>8, <2>2, <2>3 DEF Steps
<1>9. CASE /\ step = "data" /\ step' = IF sent + 1 = ch THEN "finalize" ELSE "data"
           /\ sent' = sent + 1 /\ phase' = "send" /\ UNCHANGED <<todo, exit>>
  <2>1. sent' \in Nat /\ (sent + 1 = ch => sent' = ch) /\ (sent + 1 # ch => sent' < ch)
    BY <1>1, <1>2, <1>9
  <2>2. ScriptInv(ch)'
    BY <1>1, <1>2, <1>3, <1>9, <2>1 DEF ScriptInv
  <2>3. InScript(Asking, Asking', ch)
    BY <1>4, <1>5, <1>9 DEF InScript
  <2>. QED
    BY <1>1, <1>9, <2>1, <2>2, <2>3 DEF Steps
<1>10. CASE /\ step = "finalize" /\ todo = Both /\ step' = "begin" /\ sent' = 0 /\ todo' = JustInfo
            /\ phase' = "send" /\ UNCHANGED exit
  <2>1. asked = Both
    BY <1>2, <1>6, <1>10
  <2>2. ScriptInv(ch)'
    BY <1>1, <1>2, <1>3, <1>10, <2>1 DEF ScriptInv
  <2>3. InScript(Asking, Asking', ch)
    <3>1. sent' + 1 = 1
      BY <1>10
    <3>. QED
      BY <1>4, <1>5, <1>10, <3>1 DEF InScript
  <2>. QED
    BY <1>1, <1>6, <1>10, <2>1, <2>2, <2>3 DEF Steps
<1>11. CASE /\ step = "finalize" /\ asked # Both /\ step' = "status" /\ todo' = <<>>
            /\ phase' = "send" /\ UNCHANGED <<sent, exit>>
  <2>1. ScriptInv(ch)'
    BY <1>1, <1>2, <1>3, <1>11 DEF ScriptInv
  <2>2. InScript(Asking, Asking', ch)
    BY <1>4, <1>5, <1>11 DEF InScript
  <2>. QED
    BY <1>1, <1>2, <1>6, <1>11, <2>1, <2>2 DEF Steps
<1>12. CASE /\ step = "status" \/ (step = "finalize" /\ asked = Both /\ todo = JustInfo)
            /\ phase' = "closed" /\ exit' = "ok" /\ UNCHANGED <<todo, step, sent>>
  <2>1. ScriptInv(ch)'
    BY <1>12 DEF ScriptInv
  <2>. QED
    BY <1>1, <1>2, <1>6, <1>12, <2>1
<1>. QED
  BY <1>7, <1>8, <1>9, <1>10, <1>11, <1>12 DEF UploadGoesOn

LEMMA OneMore ==
  ASSUME NEW S, NEW n, NEW t, \A a \in S : a.from = t
  PROVE  LET T == S \union {[seq |-> n, from |-> t]} IN T # {} /\ \A a \in T : a.from = t
<1>. DEFINE b == [seq |-> n, from |-> t]
<1>1. b.from = t
  OBVIOUS
<1>. HIDE DEF b
<1>2. S \union {b} # {} /\ \A a \in S \union {b} : a.from = t
  BY <1>1
<1>. QED
  BY <1>2 DEF b

\* The run goes on with an answer of its own.
LEMMA OwnGoesOn ==
  ASSUME NEW ms, NEW ch \in Nat, ch # 0, NEW l, NEW w, UploadHolds(ms, ch, l, w), UploadGoesOn(ch),
         Oldest = w, NoneAccepted(w) \/ OwnAccepted(ch, w)
  PROVE  OwnAccepted(ch, w)'
<1>1. UploadTyped(ms, ch) /\ ScriptInv(ch) /\ DeviceInv(ch, l)
  BY DEF UploadHolds
<1>2. /\ phase = "wait" /\ seq' = seq + 1 /\ session' = session /\ asked' = asked /\ stored' = stored
      /\ answered' = answered \union {[seq |-> seq, from |-> Oldest.session]}
      /\ step = "finalize" => wire[1].of.state = "success"
      /\ UploadReads
  BY DEF UploadGoesOn, UploadReads
<1>3. /\ w = Asking /\ w.session = session /\ seq \in Nat /\ ~Busy'
      /\ l = w /\ wire[1].of.state = device.state
  BY <1>2, UploadReadsFacts
<1>4. /\ phase' \in {"send", "closed"}
      /\ phase' = "send" => exit' = exit
      /\ asked = Both /\ todo' # asked => todo # asked \/ step = "finalize"
      /\ asked = Both /\ todo' = asked => todo = asked
      /\ step' = "status" => step = "status" \/ (step = "finalize" /\ asked # Both /\ todo = asked)
      /\ phase' = "closed" => (step = "status" /\ asked # Both)
                              \/ (step = "finalize" /\ asked = Both /\ todo = JustInfo)
  BY <1>1, GoesOnScript
<1>5. /\ w.cmd = step
      /\ todo = JustInfo => w.target = "nn_info"
      /\ todo \in {JustModel, Both} => w.target = "model"
      /\ asked \in {JustModel, JustInfo, Both}
  BY <1>1, <1>2, <1>3, AskingFacts, TargetFacts DEF ScriptInv
<1>6. step = "finalize" => stored[w.target] = Parts(session, ch)
  BY <1>1, <1>2, <1>3, <1>5 DEF DeviceInv
<1>7. seq = 1 => step = "ping" /\ todo = asked
  BY <1>1, <1>2 DEF ScriptInv
<1>8. /\ exit # "ok"
      /\ asked = Both /\ todo # asked => stored["model"] = Parts(session, ch)
      /\ step = "status" => stored[asked[1]] = Parts(session, ch)
  <2>1. CASE NoneAccepted(w)
    BY <1>2, <1>7, <2>1 DEF NoneAccepted
  <2>2. CASE OwnAccepted(ch, w)
    BY <1>2, <2>2 DEF OwnAccepted
  <2>. QED
    BY <2>1, <2>2
<1>9. \A a \in answered : a.from = session
  BY DEF NoneAccepted, OwnAccepted
<1>10. answered' # {} /\ \A a \in answered' : a.from = session'
  <2>1. answered' = answered \union {[seq |-> seq, from |-> session]} /\ session' = session
    BY <1>2, <1>3
  <2>. QED
    BY <1>9, <2>1, OneMore
<1>11. seq' # 1
  <2>1. seq # 0
    BY <1>1 DEF UploadTyped
  <2>. QED
    BY <1>2, <1>3, <2>1
<1>12. JustModel[1] = "model" /\ JustInfo[1] = "nn_info" /\ Both[1] = "model" /\ Both[2] = "nn_info"
       /\ Len(JustModel) = 1 /\ Len(JustInfo) = 1 /\ Len(Both) = 2 /\ JustInfo # Both
       /\ asked' \in AllTargets
  BY <1>2, <1>5, TargetFacts
<1>13. asked = Both /\ todo' # asked => stored["model"] = Parts(session, ch)
  <2>1. CASE todo # asked
    BY <1>8, <2>1
  <2>2. CASE todo = asked
    BY <1>4, <1>5, <1>6, <2>2
  <2>. QED
    BY <2>1, <2>2
<1>14. asked = Both /\ todo' = asked => w.target = "model"
  BY <1>4, <1>5
<1>15. step' = "status" => stored[asked[1]] = Parts(session, ch)
  BY <1>4, <1>5, <1>6, <1>8, <1>12
<1>16. ASSUME exit' = "ok"
       PROVE  phase' = "closed" /\ \A i \in 1 .. Len(asked) : stored[asked[i]] = Parts(session, ch)
  <2>1. phase' = "closed"
    BY <1>4, <1>8, <1>16
  <2>2. CASE step = "status" /\ asked # Both
    <3>1. Len(asked) = 1 /\ stored[asked[1]] = Parts(session, ch)
      BY <1>5, <1>8, <1>12, <2>2
    <3>2. \A i \in 1 .. Len(asked) : i = 1
      BY <3>1
    <3>. QED
      BY <2>1, <3>1, <3>2
  <2>3. CASE step = "finalize" /\ asked = Both /\ todo = JustInfo
    <3>1. stored["model"] = Parts(session, ch) /\ stored["nn_info"] = Parts(session, ch)
      BY <1>5, <1>6, <1>8, <1>12, <2>3
    <3>2. \A i \in 1 .. Len(asked) : i = 1 \/ i = 2
      <4>1. Len(asked) = 2
        BY <1>12, <2>3
      <4>. DEFINE m == Len(asked)
      <4>. HIDE DEF m
      <4>2. m = 2
        BY <4>1 DEF m
      <4>3. \A i \in 1 .. m : i = 1 \/ i = 2
        BY <4>2
      <4>. QED
        BY <4>3 DEF m
    <3>3. asked[1] = "model" /\ asked[2] = "nn_info"
      BY <1>12, <2>3
    <3>. QED
      BY <2>1, <3>1, <3>2, <3>3
  <2>. QED
    BY <1>4, <2>1, <2>2, <2>3
<1>. QED
  BY <1>2, <1>3, <1>4, <1>10, <1>11, <1>12, <1>13, <1>14, <1>15, <1>16 DEF OwnAccepted

\* The run goes on with an answer to an earlier one.
LEMMA ForeignGoesOn ==
  ASSUME NEW ms, NEW ch \in Nat, ch # 0, NEW l, NEW w, UploadHolds(ms, ch, l, w), UploadGoesOn(ch),
         Oldest # w, NoneAccepted(w) \/ ForeignAccepted
  PROVE  ForeignAccepted'
<1>1. /\ phase = "wait" /\ seq' = seq + 1 /\ session' = session /\ UploadReads
      /\ answered' = answered \union {[seq |-> seq, from |-> Oldest.session]}
  BY DEF UploadGoesOn, UploadReads
<1>2. /\ seq \in Nat /\ seq # 0 /\ Oldest.session \in Nat /\ Oldest.seq = seq /\ Oldest.session < session
      /\ Busy' /\ Follows(Oldest, Oldest') /\ Oldest'.session \in Nat /\ Oldest'.seq \in Nat
  BY <1>1, UploadReadsFacts DEF UploadHolds, UploadTyped
<1>3. \A a \in answered : a.from = Oldest.session
  <2>1. CASE NoneAccepted(w)
    BY <2>1 DEF NoneAccepted
  <2>2. CASE ForeignAccepted
    <3>1. PICK t \in Nat :
            (\A b \in answered : b.from = t) /\ (Oldest.session # t => Oldest.seq < seq)
      BY <1>1, <2>2 DEF ForeignAccepted
    <3>2. ~(seq < seq)
      BY <1>2
    <3>. QED
      BY <1>2, <3>1, <3>2
  <2>. QED
    BY <2>1, <2>2
<1>4. answered' # {} /\ \A a \in answered' : a.from = Oldest.session
  BY <1>1, <1>3, OneMore
<1>5. /\ Oldest'.session >= Oldest.session /\ Oldest'.seq <= seq + 1
      /\ Oldest'.session # Oldest.session => Oldest'.seq < seq + 1
  <2>. DEFINE a == Oldest
              b == Oldest'
  <2>1. /\ a.session \in Nat /\ a.seq \in Nat /\ b.session \in Nat /\ b.seq \in Nat /\ Follows(a, b)
        /\ a.session >= a.session /\ a.seq <= seq
    BY <1>2
  <2>. HIDE DEF a, b
  <2>2. b.session >= a.session /\ b.seq <= seq + 1 /\ (b.session # a.session => b.seq < seq + 1)
    BY <1>2, <2>1, FollowsBehind
  <2>. QED
    BY <2>2 DEF a, b
<1>6. seq' # 1
  BY <1>1, <1>2
<1>. QED
  BY <1>1, <1>2, <1>4, <1>5, <1>6 DEF ForeignAccepted

LEMMA UploadGoesOnKeeps ==
  ASSUME NEW ms, NEW ch \in Nat, ch # 0, UploadInv(ms, ch), UploadGoesOn(ch)
  PROVE  UploadInv(ms, ch)'
<1>1. PICK l, w : UploadHolds(ms, ch, l, w)
  BY DEF UploadInv
<1>2. UploadTyped(ms, ch) /\ ScriptInv(ch) /\ AcceptedInv(ch, w)
  BY <1>1 DEF UploadHolds
<1>3. /\ UploadReads /\ phase = "wait" /\ seq' = seq + 1
      /\ UNCHANGED <<session, req, asked, device, stored>>
  BY DEF UploadGoesOn, UploadReads
<1>4. /\ wire' \in Seq(PiecesFor(Replies)) /\ inbox' = inbox /\ LineInv' /\ (Busy' => Newest' = w)
      /\ QueueInv(ch, l, w)' /\ DeviceInv(ch, l)'
      /\ w = Asking /\ w.session = session /\ w.seq = seq /\ w \in Frames
      /\ session \in Nat /\ seq \in Nat
  BY <1>1, <1>3, UploadReadsFacts
<1>5. /\ phase' \in {"send", "closed"} /\ step' \in Steps /\ sent' \in Nat
      /\ ScriptInv(ch)'
      /\ phase' = "send" => InScript(w, Asking', ch)
  BY <1>2, <1>4, GoesOnScript
<1>6. seq' \in Nat /\ seq' # 0 /\ w.seq = seq' - 1 /\ seq' # 1
  <2>1. seq # 0
    BY <1>2 DEF UploadTyped
  <2>. QED
    BY <1>3, <1>4, <2>1
<1>7. UploadTyped(ms, ch)'
  BY <1>2, <1>3, <1>4, <1>5, <1>6 DEF UploadTyped
<1>8. SentInv(ch, w)'
  BY <1>3, <1>4, <1>5, <1>6 DEF SentInv
<1>9. AcceptedInv(ch, w)'
  <2>1. CASE Oldest = w
    <3>1. ~ForeignAccepted
      <4>1. ~(session < session) /\ ~(seq < seq)
        BY <1>4
      <4>2. ASSUME NEW t \in Nat, t < session, Oldest.session # t => Oldest.seq < seq PROVE FALSE
        <5>1. Oldest.session # t
          BY <1>4, <2>1, <4>1, <4>2
        <5>. QED
          BY <1>4, <2>1, <4>1, <4>2, <5>1
      <4>. QED
        BY <1>3, <4>2 DEF ForeignAccepted
    <3>2. OwnAccepted(ch, w)'
      BY <1>1, <1>2, <2>1, <3>1, OwnGoesOn DEF AcceptedInv
    <3>. QED
      BY <3>2 DEF AcceptedInv
  <2>2. CASE Oldest # w
    <3>1. ~OwnAccepted(ch, w)
      <4>1. Busy
        BY <1>1, <1>3, UploadReadsFacts
      <4>. QED
        BY <2>2, <4>1 DEF OwnAccepted
    <3>2. ForeignAccepted'
      BY <1>1, <1>2, <2>2, <3>1, ForeignGoesOn DEF AcceptedInv
    <3>. QED
      BY <3>2 DEF AcceptedInv
  <2>. QED
    BY <2>1, <2>2
<1>10. UploadHolds(ms, ch, l, w)'
  BY <1>4, <1>5, <1>7, <1>8, <1>9 DEF UploadHolds
<1>. QED
  BY <1>10 DEF UploadInv

-----------------------------------------------------------------------------
(* What the upload promises                                                 *)

LEMMA UploadInit ==
  ASSUME NEW ms \in Nat, NEW ch \in Nat, ch # 0, NEW tg, UploadOf(ms, ch, tg)!Init
  PROVE  UploadInv(ms, ch)
<1>. DEFINE w == [session |-> 0, seq |-> 0, cmd |-> "status", target |-> "none", part |-> 0]
<1>1. /\ inbox = <<>> /\ wire = <<>> /\ session = 0 /\ seq = 1 /\ phase = "closed" /\ answered = {}
      /\ step = "ping" /\ sent = 0 /\ exit = "none"
      /\ device = [state |-> "idle", target |-> "none", chunks |-> <<>>]
      /\ stored = [t \in Blobs |-> <<>>]
  BY DEF UploadOf!Init, UploadOf!Target, Blobs
<1>2. /\ w \in Frames /\ w.session = 0 /\ w.seq = 0 /\ w.cmd = "status"
  BY DEF Frames, Steps
<1>. HIDE DEF w
<1>3. ~Busy
  BY <1>1 DEF Busy, Pending
<1>4. UploadTyped(ms, ch)
  BY <1>1 DEF UploadTyped, Steps, Statuses
<1>5. LineInv
  BY <1>1 DEF LineInv, LineOk
<1>6. ScriptInv(ch)
  BY <1>1 DEF ScriptInv
<1>7. SentInv(ch, w)
  <2>1. w.session <= session
    BY <1>1, <1>2
  <2>. QED
    BY <1>1, <1>2, <1>3, <2>1 DEF SentInv
<1>8. QueueInv(ch, w, w)
  BY <1>1, <1>2 DEF QueueInv
<1>9. DeviceInv(ch, w)
  <2>1. \A t \in Blobs : stored[t] = <<>>
    BY <1>1
  <2>2. "nn_info" \in Blobs
    BY DEF Blobs
  <2>3. Parts(w.session, ch) # <<>>
    BY <1>2, PartsDiffer
  <2>. QED
    BY <1>1, <1>2, <2>1, <2>2, <2>3 DEF DeviceInv
<1>10. AcceptedInv(ch, w)
  <2>1. w.seq <= 1
    BY <1>2
  <2>. QED
    BY <1>1, <2>1 DEF AcceptedInv, NoneAccepted
<1>11. UploadHolds(ms, ch, w, w)
  BY <1>4, <1>5, <1>6, <1>7, <1>8, <1>9, <1>10 DEF UploadHolds
<1>. QED
  BY <1>11 DEF UploadInv

LEMMA UploadUnmoved ==
  ASSUME NEW ms, NEW ch, UploadInv(ms, ch), UNCHANGED uploadVars
  PROVE  UploadInv(ms, ch)'
<1>1. PICK l, w : UploadHolds(ms, ch, l, w)
  BY DEF UploadInv
<1>2. /\ inbox' = inbox /\ wire' = wire
      /\ UNCHANGED <<session, seq, phase, req, answered, asked, todo, step, sent, exit, device, stored>>
  BY DEF uploadVars
<1>3. /\ Busy' = Busy /\ Oldest' = Oldest /\ Newest' = Newest /\ Asking' = Asking
  BY <1>2 DEF Busy, Oldest, Newest, Asking
<1>4. UploadTyped(ms, ch)' /\ LineInv' /\ ScriptInv(ch)'
  BY <1>1, <1>2 DEF UploadHolds, UploadTyped, LineInv, ScriptInv
<1>5. SentInv(ch, w)' /\ QueueInv(ch, l, w)' /\ DeviceInv(ch, l)'
  BY <1>1, <1>2, <1>3 DEF UploadHolds, SentInv, QueueInv, DeviceInv
<1>6. AcceptedInv(ch, w)'
  BY <1>1, <1>2, <1>3 DEF UploadHolds, AcceptedInv, NoneAccepted, OwnAccepted, ForeignAccepted
<1>7. UploadHolds(ms, ch, l, w)'
  BY <1>4, <1>5, <1>6 DEF UploadHolds
<1>. QED
  BY <1>7 DEF UploadInv

LEMMA UploadStep ==
  ASSUME NEW ms \in Nat, NEW ch \in Nat, ch # 0, NEW tg, tg \subseteq AllTargets, UploadInv(ms, ch),
         [UploadOf(ms, ch, tg)!Next]_uploadVars
  PROVE  UploadInv(ms, ch)'
<1>1. PICK l, w : UploadHolds(ms, ch, l, w)
  BY DEF UploadInv
<1>2. UploadTyped(ms, ch) /\ LineInv /\ ScriptInv(ch) /\ SentInv(ch, w)
  BY <1>1 DEF UploadHolds
<1>3. CASE UploadOf(ms, ch, tg)!Firmware
  BY <1>2, <1>3, UploadFirmwareStep, UploadServes
<1>4. CASE UploadOf(ms, ch, tg)!Run
  BY <1>4, UploadRuns
<1>5. CASE UploadOf(ms, ch, tg)!Killed
  BY <1>5, UploadKilled
<1>6. CASE UploadOf(ms, ch, tg)!SendFrame
  BY <1>6, UploadSends
<1>7. CASE UploadOf(ms, ch, tg)!ReadStatus
  BY <1>2, <1>7, UploadReadStep, UploadMissesKeeps, UploadGivesUpKeeps, UploadGoesOnKeeps
<1>8. CASE UploadOf(ms, ch, tg)!TimedOut
  BY <1>2, <1>8, UploadTimedOutMisses, UploadMissesKeeps
<1>9. CASE UNCHANGED uploadVars
  BY <1>9, UploadUnmoved
<1>. QED
  BY <1>3, <1>4, <1>5, <1>6, <1>7, <1>8, <1>9 DEF UploadOf!Next

\* No frame is of a later run than the last one.
LEMMA FramesOfRuns ==
  ASSUME NEW ms, NEW ch, NEW l, NEW w, UploadHolds(ms, ch, l, w)
  PROVE  /\ l \in Frames /\ w \in Frames /\ session \in Nat /\ session <= ms
         /\ l.session <= w.session /\ w.session <= session
         /\ l.session = w.session => l = w \/ l.seq < w.seq
<1>1. UploadTyped(ms, ch) /\ SentInv(ch, w) /\ QueueInv(ch, l, w)
  BY DEF UploadHolds
<1>2. /\ l \in Frames /\ w \in Frames /\ session \in Nat /\ session <= ms
      /\ l = w \/ Before(l, w)
  BY <1>1 DEF UploadTyped, SentInv, QueueInv
<1>3. /\ l.session \in Nat /\ w.session \in Nat /\ l.seq \in Nat /\ w.seq \in Nat
  BY <1>2, FrameFields
<1>4. w.session = session \/ w.session < session \/ w.session <= session
  BY <1>1 DEF SentInv, Asking, UploadTyped
<1>. QED
  BY <1>2, <1>3, <1>4 DEF Before

LEMMA UploadOneRun ==
  ASSUME NEW ms, NEW ch, NEW tg, UploadInv(ms, ch)
  PROVE  UploadOf(ms, ch, tg)!AnswersOfOneRun
BY DEF UploadInv, UploadHolds, AcceptedInv, NoneAccepted, OwnAccepted, ForeignAccepted,
  UploadOf!AnswersOfOneRun

\* Answers that are the run's own are not those of another.
LEMMA NotForeign ==
  ASSUME NEW ms, NEW ch, UploadTyped(ms, ch), \A a \in answered : a.from = session
  PROVE  ~ForeignAccepted
<1>1. ~(session < session)
  BY DEF UploadTyped
<1>. QED
  BY <1>1 DEF ForeignAccepted

LEMMA UploadStored ==
  ASSUME NEW ms, NEW ch, NEW tg, UploadInv(ms, ch)
  PROVE  UploadOf(ms, ch, tg)!UploadedIsStored
<1>. SUFFICES ASSUME exit = "ok", \A a \in answered : a.from = session
              PROVE  \A i \in 1 .. Len(asked) : stored[asked[i]] = Parts(session, ch)
  BY DEF UploadOf!UploadedIsStored, UploadOf!Own, UploadOf!Whole, Parts
<1>1. PICK l, w : UploadHolds(ms, ch, l, w)
  BY DEF UploadInv
<1>2. ~NoneAccepted(w) /\ ~ForeignAccepted
  BY <1>1, NotForeign DEF UploadHolds, NoneAccepted
<1>. QED
  BY <1>1, <1>2 DEF UploadHolds, AcceptedInv, OwnAccepted

LEMMA UploadInOrder ==
  ASSUME NEW ms, NEW ch \in Nat, ch # 0, NEW tg, UploadInv(ms, ch)
  PROVE  UploadOf(ms, ch, tg)!InfoFollowsModel
<1>. SUFFICES ASSUME \A a \in answered : a.from = session, Len(asked) = 2,
                     stored["nn_info"] = Parts(session, ch)
              PROVE  stored["model"] = Parts(session, ch)
  BY DEF UploadOf!InfoFollowsModel, UploadOf!Own, UploadOf!Whole, Parts
<1>1. PICK l, w : UploadHolds(ms, ch, l, w)
  BY DEF UploadInv
<1>2. UploadTyped(ms, ch) /\ LineInv /\ SentInv(ch, w) /\ QueueInv(ch, l, w) /\ DeviceInv(ch, l)
  BY <1>1 DEF UploadHolds
<1>3. /\ l \in Frames /\ w \in Frames /\ session \in Nat
      /\ l.session <= w.session /\ w.session <= session
      /\ l.session = w.session => l = w \/ l.seq < w.seq
  BY <1>1, FramesOfRuns
<1>4. /\ l.session \in Nat /\ w.session \in Nat /\ l.seq \in Nat /\ w.seq \in Nat
  BY <1>3, FrameFields
<1>5. l.session = session
  <2>1. "nn_info" \in Blobs
    BY DEF Blobs
  <2>2. stored["nn_info"] # <<>>
    BY <1>3, PartsDiffer
  <2>3. PICK s \in 1 .. l.session : stored["nn_info"] = Parts(s, ch)
    BY <1>2, <2>1, <2>2 DEF DeviceInv
  <2>4. s = session
    BY <1>3, <2>3, PartsDiffer
  <2>. QED
    BY <1>3, <1>4, <2>3, <2>4
<1>6. w.session = session
  BY <1>3, <1>4, <1>5
<1>7. l.seq > 1 /\ l.target # "model" /\ (l = w \/ l.seq < w.seq)
  BY <1>2, <1>3, <1>5, <1>6 DEF DeviceInv
<1>8. ~NoneAccepted(w)
  <2>1. ~(w.seq <= 1)
    BY <1>4, <1>7
  <2>. QED
    BY <1>6, <2>1 DEF NoneAccepted
<1>9. OwnAccepted(ch, w)
  BY <1>1, <1>2, <1>8, NotForeign DEF UploadHolds, AcceptedInv
<1>10. asked = Both
  BY <1>9, TargetFacts DEF OwnAccepted
<1>11. ASSUME todo = asked PROVE FALSE
  <2>1. w.target = "model" /\ l # w
    BY <1>7, <1>9, <1>10, <1>11 DEF OwnAccepted
  <2>2. inbox # <<>> /\ Busy
    BY <1>2, <2>1 DEF QueueInv, Busy, Pending
  <2>3. Oldest = w /\ Newest = w
    BY <1>2, <1>9, <2>2 DEF OwnAccepted, SentInv
  <2>4. wire = <<>>
    BY <1>2, <2>2, <2>3, UploadEnds
  <2>5. Link(l, w, ch)
    BY <1>2, <2>2, <2>3, <2>4 DEF QueueInv, Oldest, OldestOf
  <2>6. ~(w.session > l.session)
    BY <1>4, <1>5, <1>6
  <2>. QED
    BY <1>7, <2>1, <2>5, <2>6 DEF Link, InScript
<1>. QED
  BY <1>9, <1>10, <1>11 DEF OwnAccepted

LEMMA UploadOfOne ==
  ASSUME NEW ms \in Nat, NEW ch, NEW tg, UploadInv(ms, ch)
  PROVE  UploadOf(ms, ch, tg)!StoredIsOneUpload
<1>1. PICK l, w : UploadHolds(ms, ch, l, w)
  BY DEF UploadInv
<1>2. /\ l \in Frames /\ w \in Frames /\ session \in Nat /\ session <= ms
      /\ l.session <= w.session /\ w.session <= session
  BY <1>1, FramesOfRuns
<1>3. l.session \in Nat /\ l.session <= ms
  <2>1. l.session \in Nat /\ w.session \in Nat
    BY <1>2, FrameFields
  <2>. QED
    BY <1>2, <2>1
<1>4. \A t \in Blobs : stored[t] = <<>> \/ \E s \in 1 .. l.session : stored[t] = Parts(s, ch)
  BY <1>1 DEF UploadHolds, DeviceInv
<1>5. 1 .. l.session \subseteq 1 .. ms
  BY <1>3
<1>6. \A t \in Blobs : stored[t] = <<>> \/ \E s \in 1 .. ms : stored[t] = Parts(s, ch)
  BY <1>4, <1>5
<1>. QED
  BY <1>6 DEF UploadOf!StoredIsOneUpload, UploadOf!Target, UploadOf!Whole, Parts, Blobs

\* For every number of runs and of chunks, whichever blobs they bring: what a run accepts is all
\* from one run; one that ends well by its own answers has its blobs in flash, whole; network
\* information goes in after its model; and nothing in flash is made of two uploads.
THEOREM UploadIsWhole ==
  ASSUME NEW ms \in Nat \ {0}, NEW ch \in Nat \ {0}, NEW tg, tg \subseteq AllTargets
  PROVE  UploadOf(ms, ch, tg)!Spec =>
           [](/\ UploadOf(ms, ch, tg)!AnswersOfOneRun /\ UploadOf(ms, ch, tg)!UploadedIsStored
              /\ UploadOf(ms, ch, tg)!InfoFollowsModel /\ UploadOf(ms, ch, tg)!StoredIsOneUpload)
<1>1. UploadOf(ms, ch, tg)!Init => UploadInv(ms, ch)
  BY UploadInit
<1>2. UploadInv(ms, ch) /\ [UploadOf(ms, ch, tg)!Next]_uploadVars => UploadInv(ms, ch)'
  BY UploadStep
<1>3. UploadInv(ms, ch) /\ [UploadOf(ms, ch, tg)!Next]_(UploadOf(ms, ch, tg)!vars) => UploadInv(ms, ch)'
  <2>1. UNCHANGED UploadOf(ms, ch, tg)!vars => UNCHANGED uploadVars
    BY DEF uploadVars, UploadOf!vars, UploadOf!pipe, UploadOf!uvars
  <2>. QED
    BY <1>2, <2>1
<1>4. UploadInv(ms, ch) =>
        /\ UploadOf(ms, ch, tg)!AnswersOfOneRun /\ UploadOf(ms, ch, tg)!UploadedIsStored
        /\ UploadOf(ms, ch, tg)!InfoFollowsModel /\ UploadOf(ms, ch, tg)!StoredIsOneUpload
  BY UploadOneRun, UploadStored, UploadInOrder, UploadOfOne
<1>. QED
  BY <1>1, <1>3, <1>4, PTL DEF UploadOf!Spec

-----------------------------------------------------------------------------
(* The programs as the run sets them up                                     *)

LEMMA BridgeSame ==
  /\ Bridge!Init <=> BridgeOf(2, 3, 2)!Init
  /\ Bridge!Next <=> BridgeOf(2, 3, 2)!Next
<1>1. Bridge!Init <=> BridgeOf(2, 3, 2)!Init
  BY DEF Bridge!Init, Bridge!NoReq, Bridge!NoCall, BridgeOf!Init, BridgeOf!NoReq, BridgeOf!NoCall
<1>2. Bridge!Next <=> BridgeOf(2, 3, 2)!Next
  BY DEF
    Bridge!Next, Bridge!Firmware, Bridge!Open, Bridge!Close, Bridge!Callback, Bridge!Request,
    Bridge!ReadHeader, Bridge!ReadPayload, Bridge!TimedOut, Bridge!Raised, Bridge!Returned,
    Bridge!Matches, Bridge!AnswersTo, Bridge!Reads, Bridge!Writes, Bridge!NoReq, Bridge!NoCall,
    Bridge!Serve, Bridge!Pieces, Bridge!Write, Bridge!Take, Bridge!TakeShort, Bridge!ResetInput,
    Bridge!IsHeader, Bridge!pipe, Bridge!bvars,
    BridgeOf!Next, BridgeOf!Firmware, BridgeOf!Open, BridgeOf!Close, BridgeOf!Callback,
    BridgeOf!Request, BridgeOf!ReadHeader, BridgeOf!ReadPayload, BridgeOf!TimedOut,
    BridgeOf!Raised, BridgeOf!Returned, BridgeOf!Matches, BridgeOf!AnswersTo, BridgeOf!Reads,
    BridgeOf!Writes, BridgeOf!NoReq, BridgeOf!NoCall, BridgeOf!Serve, BridgeOf!Pieces,
    BridgeOf!Write, BridgeOf!Take, BridgeOf!TakeShort, BridgeOf!ResetInput, BridgeOf!IsHeader,
    BridgeOf!pipe, BridgeOf!bvars
<1>. QED
  BY <1>1, <1>2

LEMMA ReopenedSame ==
  /\ Reopened!Init <=> BridgeOf(3, 2, 1)!Init
  /\ Reopened!Next <=> BridgeOf(3, 2, 1)!Next
<1>1. Reopened!Init <=> BridgeOf(3, 2, 1)!Init
  BY DEF Reopened!Init, Reopened!NoReq, Reopened!NoCall, BridgeOf!Init, BridgeOf!NoReq, BridgeOf!NoCall
<1>2. Reopened!Next <=> BridgeOf(3, 2, 1)!Next
  BY DEF
    Reopened!Next, Reopened!Firmware, Reopened!Open, Reopened!Close, Reopened!Callback,
    Reopened!Request, Reopened!ReadHeader, Reopened!ReadPayload, Reopened!TimedOut,
    Reopened!Raised, Reopened!Returned, Reopened!Matches, Reopened!AnswersTo, Reopened!Reads,
    Reopened!Writes, Reopened!NoReq, Reopened!NoCall, Reopened!Serve, Reopened!Pieces,
    Reopened!Write, Reopened!Take, Reopened!TakeShort, Reopened!ResetInput, Reopened!IsHeader,
    Reopened!pipe, Reopened!bvars,
    BridgeOf!Next, BridgeOf!Firmware, BridgeOf!Open, BridgeOf!Close, BridgeOf!Callback,
    BridgeOf!Request, BridgeOf!ReadHeader, BridgeOf!ReadPayload, BridgeOf!TimedOut,
    BridgeOf!Raised, BridgeOf!Returned, BridgeOf!Matches, BridgeOf!AnswersTo, BridgeOf!Reads,
    BridgeOf!Writes, BridgeOf!NoReq, BridgeOf!NoCall, BridgeOf!Serve, BridgeOf!Pieces,
    BridgeOf!Write, BridgeOf!Take, BridgeOf!TakeShort, BridgeOf!ResetInput, BridgeOf!IsHeader,
    BridgeOf!pipe, BridgeOf!bvars
<1>. QED
  BY <1>1, <1>2

LEMMA UploadSame ==
  /\ Upload!Init <=> UploadOf(4, 2, AllTargets)!Init
  /\ Upload!Next <=> UploadOf(4, 2, AllTargets)!Next
<1>1. Upload!Init <=> UploadOf(4, 2, AllTargets)!Init
  BY DEF Upload!Init, Upload!NoReq, Upload!Target, UploadOf!Init, UploadOf!NoReq, UploadOf!Target
<1>2. Upload!Next <=> UploadOf(4, 2, AllTargets)!Next
  BY DEF
    Upload!Next, Upload!Firmware, Upload!Run, Upload!Killed, Upload!SendFrame, Upload!ReadStatus,
    Upload!TimedOut, Upload!Fail, Upload!Acceptable, Upload!AfterData, Upload!Advance,
    Upload!Matches, Upload!Outcomes, Upload!Begun, Upload!Receiving, Upload!NoReq,
    Upload!Pieces, Upload!Write, Upload!Take, Upload!TakeShort, Upload!ResetInput,
    Upload!IsHeader, Upload!pipe, Upload!uvars,
    UploadOf!Next, UploadOf!Firmware, UploadOf!Run, UploadOf!Killed, UploadOf!SendFrame,
    UploadOf!ReadStatus, UploadOf!TimedOut, UploadOf!Fail, UploadOf!Acceptable,
    UploadOf!AfterData, UploadOf!Advance, UploadOf!Matches, UploadOf!Outcomes, UploadOf!Begun,
    UploadOf!Receiving, UploadOf!NoReq, UploadOf!Pieces, UploadOf!Write, UploadOf!Take,
    UploadOf!TakeShort, UploadOf!ResetInput, UploadOf!IsHeader, UploadOf!pipe, UploadOf!uvars
<1>. QED
  BY <1>1, <1>2

RunInv ==
  /\ program \in {"bridge", "reopened"} => BridgeInv
  /\ program = "upload" => UploadInv(4, 2)

LEMMA Instances == 1 \in Nat /\ 2 \in Nat /\ 4 \in Nat /\ 2 # 0 /\ AllTargets \subseteq AllTargets
OBVIOUS

LEMMA RunInit == Init => RunInv
<1>1. Bridge!Init => BridgeInv
  BY BridgeSame, BridgeInit, Zenon
<1>2. Reopened!Init => BridgeInv
  BY ReopenedSame, BridgeInit, Zenon
<1>3. Upload!Init => UploadInv(4, 2)
  BY UploadSame, UploadInit, Instances, Zenon
<1>4. "bridge" # "upload" /\ "reopened" # "upload"
  OBVIOUS
<1>. QED
  BY <1>1, <1>2, <1>3, <1>4 DEF Init, RunInv

LEMMA RunStep ==
  ASSUME RunInv, [Next]_vars
  PROVE  RunInv'
<1>1. UNCHANGED program
  BY DEF Next, vars
<1>2. /\ program = "bridge" => [Bridge!Next]_bridgeVars
      /\ program = "reopened" => [Reopened!Next]_bridgeVars
      /\ program = "upload" => [Upload!Next]_uploadVars
  BY DEF Next, vars, OfUpload, OfBridge, bridgeVars, uploadVars
<1>3. program = "bridge" => BridgeInv'
  BY <1>2, BridgeSame, BridgeStep, Instances, Zenon DEF RunInv
<1>4. program = "reopened" => BridgeInv'
  BY <1>2, ReopenedSame, BridgeStep, Instances, Zenon DEF RunInv
<1>5. program = "upload" => UploadInv(4, 2)'
  BY <1>2, UploadSame, UploadStep, Instances, Zenon DEF RunInv
<1>. QED
  BY <1>1, <1>3, <1>4, <1>5 DEF RunInv

LEMMA Inductive == Spec => []RunInv
BY RunInit, RunStep, PTL DEF Spec

\* Of the programs as the run sets them up, a bridge opened two and three times and an upload run
\* four times: what is accepted is all from one run, and what is told of a write is what was
\* written.
THEOREM AcceptedStaysOwn == Spec => []AcceptedIsOwn
<1>1. program \in {"bridge", "reopened"} /\ RunInv =>
        Bridge!AnswersOfOneTransport /\ Bridge!OutOfStepStaysSo /\ Bridge!TotalIsWritten
  <2>. SUFFICES ASSUME BridgeInv
                PROVE  Bridge!AnswersOfOneTransport /\ Bridge!OutOfStepStaysSo /\ Bridge!TotalIsWritten
    BY DEF RunInv
  <2>1. /\ BridgeOf(2, 3, 2)!AnswersOfOneTransport /\ BridgeOf(2, 3, 2)!OutOfStepStaysSo
        /\ BridgeOf(2, 3, 2)!TotalIsWritten
    BY BridgeOneTransport, BridgeStaysOut, BridgeTotal
  <2>2. \A S : Bridge!Cardinality(S) = BridgeOf(2, 3, 2)!Cardinality(S)
    BY DEF Bridge!Cardinality, BridgeOf!Cardinality
  <2>3. Bridge!AnswersOfOneTransport
    BY <2>1 DEF Bridge!AnswersOfOneTransport, BridgeOf!AnswersOfOneTransport
  <2>4. Bridge!OutOfStepStaysSo
    BY <2>1, <2>2 DEF Bridge!OutOfStepStaysSo, Bridge!Own, BridgeOf!OutOfStepStaysSo, BridgeOf!Own
  <2>5. Bridge!TotalIsWritten
    BY <2>1, <2>2 DEF Bridge!TotalIsWritten, Bridge!Own, Bridge!Written,
      BridgeOf!TotalIsWritten, BridgeOf!Own, BridgeOf!Written
  <2>. QED
    BY <2>3, <2>4, <2>5
<1>2. program = "upload" /\ RunInv => Upload!AnswersOfOneRun
  <2>1. program = "upload" /\ RunInv => UploadOf(4, 2, AllTargets)!AnswersOfOneRun
    BY UploadOneRun DEF RunInv
  <2>. QED
    BY <2>1 DEF UploadOf!AnswersOfOneRun, Upload!AnswersOfOneRun
<1>3. RunInv => AcceptedIsOwn
  BY <1>1, <1>2 DEF AcceptedIsOwn
<1>. QED
  BY <1>3, Inductive, PTL

\* Of the upload as the run sets it up, run four times with either blob or both, of two chunks:
\* what ends well is in flash, whole and in order.
THEOREM UploadedStaysStored == Spec => []UploadedIsStored
<1>1. program = "upload" /\ RunInv =>
        /\ UploadOf(4, 2, AllTargets)!UploadedIsStored /\ UploadOf(4, 2, AllTargets)!InfoFollowsModel
        /\ UploadOf(4, 2, AllTargets)!StoredIsOneUpload
  BY UploadStored, UploadInOrder, UploadOfOne, Instances DEF RunInv
<1>2. program = "upload" /\ RunInv =>
        Upload!UploadedIsStored /\ Upload!InfoFollowsModel /\ Upload!StoredIsOneUpload
  BY <1>1 DEF Upload!UploadedIsStored, Upload!InfoFollowsModel, Upload!StoredIsOneUpload,
    Upload!Own, Upload!Whole, Upload!Target,
    UploadOf!UploadedIsStored, UploadOf!InfoFollowsModel, UploadOf!StoredIsOneUpload,
    UploadOf!Own, UploadOf!Whole, UploadOf!Target
<1>3. RunInv => UploadedIsStored
  BY <1>2 DEF UploadedIsStored
<1>. QED
  BY <1>3, Inductive, PTL

=============================================================================
