------------------------------ MODULE UsbPipe ------------------------------
(***************************************************************************)
(* The USB serial line between a host program and the bridge firmware.     *)
(* The firmware is not in the repository; from the way the host programs   *)
(* use it, it takes framed requests in the order they were written and     *)
(* answers each once, when it pleases.  Nothing is lost or reordered, but  *)
(* an answer may come after the host has stopped waiting for it, and only  *)
(* a part of it may have come when the host stops.  Answers travel in      *)
(* pieces: two halves of the header, then the payload.                     *)
(***************************************************************************)
EXTENDS Naturals, Sequences

VARIABLES
  inbox,     \* requests written by the host, not yet taken by the firmware
  wire,      \* pieces of answers the host has not read; some prefix has arrived
  executed   \* the requests the firmware has carried out, with their effect

pipe == <<inbox, wire, executed>>

Pieces(a) ==
  <<[half |-> 1, of |-> a], [half |-> 2, of |-> a]>>
    \o [i \in 1 .. a.data |-> [half |-> 0, of |-> a]]

\* The firmware takes the oldest request and answers it with one of these.
Serve(answers) ==
  /\ \E a \in answers :
       /\ wire' = wire \o Pieces(a)
       /\ executed' = Append(executed, a)
  /\ inbox' = Tail(inbox)

Write(r) == inbox' = Append(inbox, r) /\ UNCHANGED <<wire, executed>>

Take(n) ==
  /\ wire' = SubSeq(wire, n + 1, Len(wire))
  /\ UNCHANGED <<inbox, executed>>

\* Opening the port drops what has arrived, and nothing else.
ResetInput == \E n \in 0 .. Len(wire) : Take(n)

\* The two pieces a header was read from are a header.
IsHeader(s) == s[1].half = 1 /\ s[2].half = 2 /\ s[1].of = s[2].of

\* A read of n pieces ends with fewer: the rest had not arrived in time.
TakeShort(n) == \E k \in 0 .. n - 1 : k <= Len(wire) /\ Take(k)
=============================================================================
