------------------------------ MODULE SerialStream ------------------------------
(***************************************************************************)
(* The Pico 2 streaming example: the board writes log lines and packets to *)
(* one USB serial line, and the host finds the packets among the text.  A  *)
(* byte is a pair of a kind and a value: "I" and "M" are the magic, "v"    *)
(* stands for version and header length, "n" for sequence, length and      *)
(* checksum; "b" is a byte of a payload, "t" one of a text.  The board's   *)
(* output is cut short when the host does not read for long.               *)
(***************************************************************************)
EXTENDS Integers, Sequences, FiniteSets, SequencesExt, FiniteSetsExt

CONSTANTS
  Payloads,      \* payloads, as sequences of bytes
  Texts,         \* log lines, some of which hold the magic
  MaxPayload,    \* --max-payload
  MaxChunk,      \* what one read returns, at most
  MaxItems, MaxLosses, LineSize  \* bounds: packets and lines, cuts, bytes on their way

StreamAssumption == MaxPayload \in Nat \ {0} /\ MaxChunk \in Nat \ {0}

VARIABLES
  line,       \* bytes on their way
  sequence,   \* the board's next sequence number
  items,      \* packets and lines written
  stopped,    \* the board has given up
  losses,
  distance,   \* bytes written since the last cut
  sent,       \* the frames written: number and payload, and how far behind a cut (0: cut itself)
  phase,      \* the host: banner, read or extract
  buf,        \* its buffer
  delivered   \* what extract_packet() returned, in order

vars == <<line, sequence, items, stopped, losses, distance, sent, phase, buf, delivered>>

Magic == <<<<"I", 73>>, <<"M", 77>>>>
HeaderSize == 4

Values(bytes) == [i \in DOMAIN bytes |-> IF bytes[i][1] = "n" THEN 1 ELSE bytes[i][2]]

\* checksum32()
Checksum(bytes) == FoldSeq(LAMBDA a, b : a + b, 0, Values(bytes))

Init ==
  /\ line = <<>> /\ sequence = 0 /\ items = 0 /\ stopped = FALSE /\ losses = 0
  /\ distance = HeaderSize + MaxPayload /\ sent = <<>>
  /\ phase = "banner" /\ buf = <<>> /\ delivered = <<>>

----------------------------------------------------------------------------
Header(len, sum) == Magic \o <<<<"v", 1>>, <<"n", [seq |-> sequence, len |-> len, sum |-> sum]>>>>

\* The checksum of what was not read is the one of nothing.
Packet(payload) == Header(Len(payload), Checksum(payload)) \o payload
FailedPacket == Header(-1, 0)

HostUnchanged == UNCHANGED <<phase, buf, delivered>>

\* The board writes these bytes, or all but a run of them.
Write(bytes) ==
  /\ ~stopped /\ items < MaxItems /\ Len(line) < LineSize
  /\ items' = items + 1
  /\ \/ line' = line \o bytes /\ UNCHANGED losses
        /\ distance' = distance + Len(bytes)
     \/ /\ losses < MaxLosses /\ losses' = losses + 1
        /\ \E i, k \in DOMAIN bytes :
             i <= k /\ line' = line \o SubSeq(bytes, 1, i - 1) \o SubSeq(bytes, k + 1, Len(bytes))
        /\ distance' = 0
  /\ HostUnchanged

\* A frame was read: send_packet().
SendFrame ==
  \E payload \in Payloads :
    /\ Write(Packet(payload))
    /\ sequence' = sequence + 1 /\ UNCHANGED stopped
    /\ sent' = Append(sent, [frame |-> <<sequence, payload>>,
                             from_cut |-> IF losses' = losses THEN distance ELSE 0])

\* The read failed.
SendFailed == Write(FailedPacket) /\ sequence' = sequence + 1 /\ UNCHANGED <<stopped, sent>>

\* The stream could not be opened.
GiveUp == sequence = 0 /\ Write(FailedPacket) /\ stopped' = TRUE /\ UNCHANGED <<sequence, sent>>

\* What the functions of the SDK print.
Log == \E text \in Texts : Write(text) /\ UNCHANGED <<sequence, stopped, sent>>

Board == SendFrame \/ SendFailed \/ GiveUp \/ Log

----------------------------------------------------------------------------
BoardUnchanged == UNCHANGED <<sequence, items, stopped, losses, distance, sent>>

MagicAt(bytes) == {i \in 1 .. Len(bytes) - 1 : SubSeq(bytes, i, i + 1) = Magic}

FromMagic(bytes) == SubSeq(bytes, Min(MagicAt(bytes)), Len(bytes))

\* What may be the beginning of the magic is kept.
Tail1(bytes) == IF bytes = <<>> THEN <<>> ELSE <<Last(bytes)>>

\* port.read(): some bytes of those that have come.
Chunk(n) == n \in 1 .. Min({MaxChunk, Len(line)})

\* read_startup_banner() reads until the magic comes.
ReadBanner ==
  /\ phase = "banner"
  /\ \E n \in 1 .. MaxChunk :
       LET bytes == buf \o SubSeq(line, 1, n)
       IN /\ Chunk(n) /\ line' = SubSeq(line, n + 1, Len(line))
          /\ IF MagicAt(bytes) # {} THEN buf' = FromMagic(bytes) /\ phase' = "read"
             ELSE buf' = Tail1(bytes) /\ phase' = phase
  /\ BoardUnchanged /\ UNCHANGED delivered

\* A read that times out ends the banner, if there was one; what is kept is text.  The line
\* is idle between packets and lines only.
BannerEnds ==
  /\ phase = "banner" /\ line = <<>> /\ buf # <<>>
  /\ buf' = <<>> /\ phase' = "read"
  /\ BoardUnchanged /\ UNCHANGED <<line, delivered>>

Read ==
  /\ phase = "read"
  /\ \E n \in 1 .. MaxChunk :
       Chunk(n) /\ buf' = buf \o SubSeq(line, 1, n) /\ line' = SubSeq(line, n + 1, Len(line))
  /\ phase' = "extract" /\ BoardUnchanged /\ UNCHANGED delivered

\* _flush_idle_text_tail()
AfterIdle(bytes) == IF MagicAt(bytes) = {} THEN <<>> ELSE bytes

\* A read that times out, the text being dropped if nothing came for long.  What is in the
\* buffer is looked at again.
ReadNothing ==
  /\ phase = "read" /\ line = <<>>
  /\ buf' \in {buf, AfterIdle(buf)}
  /\ phase' = "extract" /\ BoardUnchanged /\ UNCHANGED <<line, delivered>>

----------------------------------------------------------------------------
\* The fields of a header, as read from bytes that may not be one.
Fields(b) == IF b[4][1] = "n" THEN b[4][2] ELSE [seq |-> -1, len |-> b[4][2], sum |-> -1]

Leave(bytes) == buf' = bytes /\ phase' = "read" /\ UNCHANGED delivered
Again(bytes) == buf' = bytes /\ phase' = "extract" /\ UNCHANGED delivered

Drop(bytes, n) == SubSeq(bytes, n + 1, Len(bytes))

\* The packet is not skipped: what its length says may be wrong.
AfterTooLarge(b) == Drop(b, 1)

\* The checksum is not looked at.
Trusted(payload, f) == TRUE

Sound(payload, f) == Checksum(payload) = f.sum

\* _consume_device_log_prefix() and extract_packet(), once around the inner loop or once
\* into the recursion.
Extract ==
  /\ phase = "extract"
  /\ IF MagicAt(buf) = {} THEN Leave(Tail1(buf))
     ELSE LET b == FromMagic(buf)
              f == Fields(b)
          IN \/ Len(b) < HeaderSize /\ Leave(b)
             \/ Len(b) >= HeaderSize /\ b[3][1] # "v" /\ Again(Drop(b, 1))
             \/ /\ Len(b) >= HeaderSize /\ b[3][1] = "v"
                /\ \/ f.len < 0 /\ Leave(Drop(b, HeaderSize))
                   \/ f.len > MaxPayload /\ Again(AfterTooLarge(b))
                   \/ f.len \in 0 .. MaxPayload /\ Len(b) < HeaderSize + f.len /\ Leave(b)
                   \/ /\ f.len \in 0 .. MaxPayload /\ Len(b) >= HeaderSize + f.len
                      /\ LET payload == SubSeq(b, HeaderSize + 1, HeaderSize + f.len)
                         IN IF ~Sound(payload, f) THEN Leave(Drop(b, HeaderSize + f.len))
                            ELSE /\ delivered' = Append(delivered, <<f.seq, payload>>)
                                 /\ buf' = Drop(b, HeaderSize + f.len) /\ phase' = phase
  /\ BoardUnchanged /\ UNCHANGED line

Host == ReadBanner \/ BannerEnds \/ Read \/ ReadNothing \/ Extract

Next == Board \/ Host

Spec == Init /\ [][Next]_vars /\ WF_vars(ReadBanner) /\ WF_vars(Read) /\ WF_vars(ReadNothing) /\ WF_vars(Extract)

----------------------------------------------------------------------------
Fits(s) == Len(s.frame[2]) <= MaxPayload
Frames == [i \in DOMAIN SelectSeq(sent, Fits) |-> SelectSeq(sent, Fits)[i].frame]

\* While nothing is cut, the host takes the board's frames and nothing else, in order,
\* however the bytes come in and whatever the log lines hold.
InOrder == losses = 0 => IsPrefix(delivered, Frames)

\* Whatever a cut makes of headers, payloads and texts, the host delivers only what the board
\* has sent.
OnlySent == \A i \in DOMAIN delivered : \E k \in DOMAIN sent : delivered[i] = sent[k].frame

\* A frame written whole, and far enough behind a cut, comes to the host: a cut costs no
\* more than what a header with a wrong length can claim.
Arrived ==
  \A i \in DOMAIN sent :
    (Fits(sent[i]) /\ sent[i].from_cut >= HeaderSize + MaxPayload) =>
      \E k \in DOMAIN delivered : delivered[k] = sent[i].frame

Recovers == <>[]Arrived
=============================================================================
