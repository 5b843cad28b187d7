------------------------------- MODULE UartPackets -------------------------------
(***************************************************************************)
(* The packets of the MicroPython metadata service: how requests are found *)
(* in what comes over the UART, and how answers are written to it.  A byte *)
(* is a pair of a kind and a value: "I" and "X" are the magic, "h" the     *)
(* rest of a header, "j" a byte of JSON, "t" one of something else.  The   *)
(* host may stop in the middle of a request and begin another.             *)
(***************************************************************************)
EXTENDS Integers, Sequences, SequencesExt, FiniteSetsExt

CONSTANTS
  Commands,      \* JSON texts of requests, as sequences of values
  MaxJson,       \* UART_MAX_COMMAND_JSON_BYTES
  Chunk,         \* UART_WRITE_CHUNK
  AnswerSize,    \* bytes of an answer
  MaxRequests, MaxCuts, MaxNoise   \* bounds

PacketAssumption ==
  /\ Commands \subseteq Seq(Nat) /\ {MaxJson, Chunk, AnswerSize} \subseteq Nat \ {0}

VARIABLES
  sending,    \* what the host has yet to send of its request
  whole,      \* requests sent whole, to a module at rest: sequence and JSON
  sequence,   \* of the host's last request
  cuts, noise,
  line,       \* bytes on their way to the module
  pc,         \* idle, magic, header, json, write
  early,      \* the search for the magic began before the request being sent
  held,       \* the window, or the bytes of the header or JSON so far
  header,     \* the header that was read
  read,       \* requests and errors read, in order
  out,        \* what is to be written of an answer
  written     \* bytes written, each the answer's number and its place there

host_vars == <<sending, whole, sequence, cuts, noise>>
vars == <<host_vars, line, pc, early, held, header, read, out, written>>

Magic == <<<<"I", 0>>, <<"X", 0>>>>

NoHeader == [sequence |-> 0, len |-> 0, sum |-> 0]

\* _checksum32()
Checksum(bytes) == FoldSeq(LAMBDA b, sum : sum + b[2], 0, bytes)

Json(command) == [i \in DOMAIN command |-> <<"j", command[i]>>]

Packet(n, command) ==
  Magic \o <<<<"h", [sequence |-> n, len |-> Len(command), sum |-> Checksum(Json(command))]>>>> \o Json(command)

Init ==
  /\ sending = <<>> /\ whole = <<>> /\ sequence = 0 /\ cuts = 0 /\ noise = 0
  /\ line = <<>> /\ pc = "idle" /\ early = FALSE /\ held = <<>> /\ header = NoHeader
  /\ read = <<>> /\ out = <<>> /\ written = <<>>

----------------------------------------------------------------------------
(* The host, and the line.                                                 *)
module_vars == <<pc, held, header, read, out, written>>

SendByte ==
  /\ sending # <<>>
  /\ line' = Append(line, Head(sending)) /\ sending' = Tail(sending)
  /\ UNCHANGED <<whole, sequence, cuts, noise, early, module_vars>>

Cut ==
  /\ sending # <<>> /\ cuts < MaxCuts
  /\ cuts' = cuts + 1 /\ sending' = <<>>
  /\ whole' = SelectSeq(whole, LAMBDA w : w.sequence # sequence)
  /\ UNCHANGED <<sequence, noise, line, early, module_vars>>

Noise ==
  /\ sending = <<>> /\ noise < MaxNoise
  /\ noise' = noise + 1
  /\ \E byte \in {<<"t", 1>>, <<"I", 0>>} : line' = Append(line, byte)
  /\ UNCHANGED <<sending, whole, sequence, cuts, early, module_vars>>

----------------------------------------------------------------------------
(* _read_uart_packet().  Time passes while nothing comes; the host does    *)
(* not stop for long within a request that it goes on with.                *)
Begin ==
  /\ pc = "idle" /\ line # <<>>
  /\ pc' = "magic" /\ held' = <<>>
  /\ UNCHANGED <<host_vars, line, early, header, read, out, written>>

\* As many of the last bytes as the magic has.
Window(bytes) == SubSeq(bytes, Max({1, Len(bytes) - Len(Magic) + 1}), Len(bytes))

FindMagic ==
  /\ pc = "magic" /\ line # <<>>
  /\ line' = Tail(line)
  /\ held' = IF Window(Append(held, Head(line))) = Magic THEN <<>> ELSE Window(Append(held, Head(line)))
  /\ pc' = IF Window(Append(held, Head(line))) = Magic THEN "header" ELSE "magic"
  /\ UNCHANGED <<host_vars, early, header, read, out, written>>

NoMagic ==
  /\ pc = "magic" /\ line = <<>> /\ (sending = <<>> \/ early)
  /\ pc' = "idle" /\ held' = <<>>
  /\ UNCHANGED <<host_vars, line, early, header, read, out, written>>

\* What was read is answered, an error as well as a request.
Answer(packet) ==
  /\ read' = Append(read, packet)
  /\ out' = [i \in 1 .. AnswerSize |-> <<Len(read'), i>>]
  /\ pc' = "write" /\ held' = <<>>

ErrorPacket(n) == [error |-> TRUE, sequence |-> n, json |-> <<>>]

\* Other bytes taken for a header have another version, or lengths that are refused.
ReadHeader ==
  /\ pc = "header" /\ line # <<>>
  /\ line' = Tail(line)
  /\ LET kind == Head(line)[1]
         h == Head(line)[2]
     IN IF kind # "h" \/ (kind = "h" /\ h.len > MaxJson)
        THEN Answer(ErrorPacket(IF kind = "h" THEN h.sequence ELSE 0)) /\ UNCHANGED header
        ELSE header' = h /\ pc' = "json" /\ UNCHANGED <<read, out, held>>
  /\ UNCHANGED <<host_vars, early, written>>

IsSound(bytes) ==
  (\A i \in DOMAIN bytes : bytes[i][1] = "j") /\ Checksum(bytes) = header.sum

ReadJson ==
  /\ pc = "json"
  /\ \/ /\ Len(held) < header.len /\ line # <<>>
        /\ held' = Append(held, Head(line)) /\ line' = Tail(line)
        /\ UNCHANGED <<pc, read, out>>
     \/ /\ Len(held) = header.len
        /\ Answer(IF IsSound(held) THEN [error |-> FALSE, sequence |-> header.sequence, json |-> held]
                  ELSE ErrorPacket(header.sequence))
        /\ UNCHANGED line
  /\ UNCHANGED <<host_vars, early, header, written>>

GivesUp == pc = "header" \/ (pc = "json" /\ Len(held) < header.len)

\* _uart_read_exact() gives up.
Incomplete ==
  /\ line = <<>> /\ sending = <<>> /\ GivesUp
  /\ Answer(ErrorPacket(IF pc = "json" THEN header.sequence ELSE 0))
  /\ UNCHANGED <<host_vars, line, early, header, written>>

----------------------------------------------------------------------------

Accepted(n) == n

\* _uart_write_all(): the UART takes some of a chunk, or nothing.
Write ==
  /\ pc = "write" /\ out # <<>>
  /\ \E n \in 0 .. Min({Chunk, Len(out)}) :
       /\ written' = written \o SubSeq(out, 1, n)
       /\ out' = SubSeq(out, Accepted(n) + 1, Len(out))
  /\ UNCHANGED <<host_vars, line, pc, early, held, header, read>>

Written ==
  /\ pc = "write" /\ out = <<>>
  /\ pc' = "idle"
  /\ UNCHANGED <<host_vars, line, early, held, header, read, out, written>>

Module == Begin \/ FindMagic \/ NoMagic \/ ReadHeader \/ ReadJson \/ Incomplete \/ Write \/ Written

\* Nothing goes on in the module, nor will before the host sends something.
Settled == line = <<>> /\ pc = "idle"

\* A request is begun when the one before was answered, or given up.
Request ==
  /\ sending = <<>> /\ sequence < MaxRequests
  /\ sequence' = sequence + 1
  /\ \E command \in Commands :
       /\ sending' = Packet(sequence', command)
       /\ whole' = IF Settled /\ Len(command) <= MaxJson THEN Append(whole, [sequence |-> sequence', json |-> Json(command)]) ELSE whole
  /\ early' = ~Settled
  /\ UNCHANGED <<cuts, noise, line, module_vars>>

Host == Request \/ SendByte \/ Cut \/ Noise

Next == Host \/ Module

\* The UART takes something in the end, the host's bytes come, and the loop goes on.
Spec ==
  /\ Init /\ [][Next]_vars
  /\ WF_vars(SendByte) /\ WF_vars(Module) /\ SF_vars(Write /\ out' # out)

----------------------------------------------------------------------------
Read == {read[i] : i \in DOMAIN read}

\* A request that is begun when the module has come to rest, and not cut, is read, whatever came
\* before it: no byte of it is lost to something that was cut off.
EveryWholeIsRead ==
  \A i \in DOMAIN whole : \E r \in Read : ~r.error /\ r.sequence = whole[i].sequence

\* What is read without an error is what the host has sent under this sequence.
ReadAsSent ==
  \A r \in Read : ~r.error => \E command \in Commands : r.json = Json(command) /\ r.sequence <= sequence

\* The host gets whole answers, one after the other, and not a byte twice.
AnswersWhole ==
  \A i \in DOMAIN written :
    /\ written[i][2] = ((i - 1) % AnswerSize) + 1
    /\ written[i][1] = ((i - 1) \div AnswerSize) + 1
=============================================================================
