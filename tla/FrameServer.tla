------------------------------ MODULE FrameServer ------------------------------
(***************************************************************************)
(* The person-detection example of the Pico W.  The worker on core 1 reads *)
(* a metadata frame, stores it with its picture, and sets the warning      *)
(* outputs; the HTTP server, in the callbacks of the TCP stack on core 0,  *)
(* answers with the picture or the status.  The stored frame has a mutex   *)
(* that neither side waits for, and that a picture holds until all of it   *)
(* has been handed to TCP.  A browser may stall, close or reset at any     *)
(* time.                                                                   *)
(*                                                                         *)
(* A picture is the frame numbers of its parts.  A response is counted in  *)
(* units: one for the header, Parts for a picture, one for any other body. *)
(***************************************************************************)
EXTENDS Integers, FiniteSets, Sequences

CONSTANTS
  Connections,  \* connections made
  Slots,        \* s_http_clients
  Parts,        \* parts of a picture
  PollWidth,    \* 2^8 of poll_count
  MaxPolls,     \* polls without progress before the server gives up
  MaxFrame      \* bound on the frames read

ServerAssumption ==
  /\ Parts \in Nat \ {0} /\ MaxPolls \in Nat /\ PollWidth \in Nat \ 0 .. MaxPolls + 1
  /\ MaxFrame \in Nat
  /\ IsFiniteSet(Slots) /\ "none" \notin Slots

VARIABLES
  mutex,            \* s_latest_frame_mutex: "free", or who has it
  latest,           \* s_latest_frame
  wpc, frame,       \* the worker: its step and the frame it has read
  shown, picture,   \* the frames that show a person, and whether this one has a picture
  part,             \* parts of the picture copied
  outputs,          \* the warning outputs
  pcb,              \* each connection: "new", "open" or "ended"
  slot,             \* its callback argument, None for the null pointer
  client,           \* s_http_clients
  unacked,          \* units given to TCP and not yet acknowledged
  got,              \* what the browser was sent of a picture
  status            \* the last status answered

worker == <<latest, wpc, frame, shown, picture, part, outputs>>
server == <<pcb, slot, client, unacked, got, status>>
vars   == <<mutex, worker, server>>

None == "none"

\* A slot that is not in use, all zero.
Blank == [in_use |-> FALSE, handled |-> FALSE, locked |-> FALSE, body |-> None,
          sent |-> 0, polls |-> 0]

NoFrame == [valid |-> FALSE, sequence |-> 0, persons |-> FALSE, picture |-> FALSE,
            parts |-> [i \in 1 .. Parts |-> 0]]

\* What an answer to /status.json says of the frame.
NoStatus == [valid |-> FALSE, sequence |-> 0, warning |-> FALSE]

Init ==
  /\ mutex = "free" /\ latest = NoFrame
  /\ shown \in SUBSET (1 .. MaxFrame)
  /\ wpc = "read" /\ frame = 0 /\ picture = FALSE /\ part = 0 /\ outputs = FALSE
  /\ pcb = [c \in Connections |-> "new"] /\ slot = [c \in Connections |-> None]
  /\ client = [s \in Slots |-> Blank]
  /\ unacked = [c \in Connections |-> 0] /\ got = [c \in Connections |-> <<>>] /\ status = NoStatus

----------------------------------------------------------------------------
(* metadata_worker_core1()                                                  *)
Read ==
  /\ wpc = "read" /\ frame < MaxFrame /\ frame' = frame + 1
  /\ \/ wpc' = "store" /\ picture' \in BOOLEAN
     \/ wpc' = "read" /\ UNCHANGED picture
  /\ part' = 0 /\ UNCHANGED <<mutex, latest, shown, outputs, server>>

\* store_latest_frame(): without the mutex, the frame is not stored.
TryStore ==
  /\ wpc = "store"
  /\ IF mutex = "free" THEN mutex' = "worker" /\ wpc' = "fields"
     ELSE UNCHANGED mutex /\ wpc' = "outputs"
  /\ UNCHANGED <<latest, frame, shown, picture, part, outputs, server>>

StoreFields ==
  /\ wpc = "fields" /\ wpc' = "detections"
  /\ latest' = [latest EXCEPT !.valid = TRUE, !.sequence = frame, !.picture = picture]
  /\ UNCHANGED <<mutex, frame, shown, picture, part, outputs, server>>

StoreDetections ==
  /\ wpc = "detections" /\ wpc' = "picture"
  /\ latest' = [latest EXCEPT !.persons = frame \in shown]
  /\ UNCHANGED <<mutex, frame, shown, picture, part, outputs, server>>

MorePicture == picture /\ part < Parts

StorePicture ==
  /\ wpc = "picture"
  /\ IF MorePicture
     THEN /\ latest' = [latest EXCEPT !.parts[part + 1] = frame] /\ part' = part + 1
          /\ UNCHANGED <<mutex, wpc>>
     ELSE mutex' = "free" /\ wpc' = "outputs" /\ UNCHANGED <<latest, part>>
  /\ UNCHANGED <<frame, shown, picture, outputs, server>>

SetOutputs ==
  /\ wpc = "outputs" /\ wpc' = "read" /\ outputs' = (frame \in shown)
  /\ UNCHANGED <<mutex, latest, frame, shown, picture, part, server>>

Worker == Read \/ TryStore \/ StoreFields \/ StoreDetections \/ StorePicture \/ SetOutputs

----------------------------------------------------------------------------
(* The callbacks                                                            *)

\* http_accept_callback()
Accept(c) ==
  /\ pcb[c] = "new"
  /\ \/ \E s \in Slots :
          /\ ~client[s].in_use
          /\ client' = [client EXCEPT ![s] = [Blank EXCEPT !.in_use = TRUE]]
          /\ slot' = [slot EXCEPT ![c] = s] /\ pcb' = [pcb EXCEPT ![c] = "open"]
     \/ /\ \A s \in Slots : client[s].in_use
        /\ pcb' = [pcb EXCEPT ![c] = "ended"] /\ UNCHANGED <<client, slot>>
  /\ UNCHANGED <<mutex, worker, unacked, got, status>>

\* The mutex once the client whose state is st has given it back.
Released(st, m) == IF st.locked THEN "free" ELSE m

Cleared(st) == Blank

\* close_http_client(), or http_error_callback() after the stack has dropped the
\* connection, for a client whose state is st.
Close(c, st, m) ==
  /\ client' = [client EXCEPT ![slot[c]] = Cleared(st)] /\ mutex' = Released(st, m)
  /\ pcb' = [pcb EXCEPT ![c] = "ended"] /\ slot' = [slot EXCEPT ![c] = None]
  /\ unacked' = [unacked EXCEPT ![c] = 0]

Units(body) == IF body = "picture" THEN 1 + Parts ELSE 2

\* The parts of the picture among the units after the first ones, up to last.
PartsSent(st, upto) ==
  IF st.body = "picture" THEN SubSeq(latest.parts, IF st.sent = 0 THEN 1 ELSE st.sent, upto - 1) ELSE <<>>

\* send_http_chunks(): TCP takes some of the units that are left, or all; owed are still
\* to be acknowledged.
Send(c, st, m, owed) ==
  \E upto \in st.sent .. Units(st.body) :
    /\ got' = [got EXCEPT ![c] = @ \o PartsSent(st, upto)]
    /\ IF upto = Units(st.body) THEN Close(c, st, m)
       ELSE /\ client' = [client EXCEPT ![slot[c]] = [st EXCEPT !.sent = upto]] /\ mutex' = m
            /\ unacked' = [unacked EXCEPT ![c] = owed + upto - st.sent]
            /\ UNCHANGED <<pcb, slot>>

\* The mutex is given back when the response has been prepared.
Borrowed(st) == [st EXCEPT !.body = "picture"]

Locked(st) == [st EXCEPT !.body = "picture", !.locked = TRUE]

\* lock_latest_jpeg_for_response(): the picture, or the text of a 503.
AnswerPicture(c, st) ==
  IF mutex = "free" /\ latest.valid /\ latest.picture
  THEN Send(c, Locked(st), IF Locked(st).locked THEN "server" ELSE "free", 0)
  ELSE Send(c, [st EXCEPT !.body = "text"], mutex, 0)

\* build_status_json(): what is read of the stored frame.  The home page tells the same of it.
Seen == IF mutex = "free" THEN latest ELSE NoFrame

AnswerStatus(c, st) ==
  /\ Send(c, [st EXCEPT !.body = "text"], mutex, 0)
  /\ status' = [valid |-> Seen.valid, sequence |-> Seen.sequence, warning |-> Seen.persons]

\* http_recv_callback(), for the first bytes of a request; later ones change nothing.
Request(c) ==
  /\ pcb[c] = "open"
  /\ LET st == client[slot[c]]
     IN /\ ~st.handled
        /\ \/ AnswerPicture(c, [st EXCEPT !.handled = TRUE]) /\ UNCHANGED status
           \/ AnswerStatus(c, [st EXCEPT !.handled = TRUE])
  /\ UNCHANGED worker

\* http_sent_callback()
Acked(c) ==
  /\ pcb[c] = "open"
  /\ \E owed \in 0 .. unacked[c] - 1 : Send(c, [client[slot[c]] EXCEPT !.polls = 0], mutex, owed)
  /\ UNCHANGED <<status, worker>>

\* A client whose request has been answered is not given up.
GivesUpAsked(st) == st.polls > MaxPolls /\ ~st.handled

GivesUp(st) == st.polls > MaxPolls

\* http_poll_callback()
Poll(c) ==
  /\ pcb[c] = "open"
  /\ LET st == [client[slot[c]] EXCEPT !.polls = (@ + 1) % PollWidth]
     IN \/ GivesUp(st) /\ Close(c, st, mutex) /\ UNCHANGED got
        \/ ~GivesUp(st) /\ st.handled /\ Send(c, st, mutex, unacked[c])
        \/ /\ ~GivesUp(st) /\ ~st.handled /\ client' = [client EXCEPT ![slot[c]] = st]
           /\ UNCHANGED <<mutex, pcb, slot, unacked, got>>
  /\ UNCHANGED <<status, worker>>

\* The browser closes its side, or the connection is reset.
Ends(c) ==
  /\ pcb[c] = "open" /\ Close(c, client[slot[c]], mutex)
  /\ UNCHANGED <<got, status, worker>>

Next == Worker \/ \E c \in Connections : Accept(c) \/ Request(c) \/ Acked(c) \/ Poll(c) \/ Ends(c)

Spec == Init /\ [][Next]_vars

----------------------------------------------------------------------------
\* The server has the mutex as long as one of its clients does, and never for two: it is
\* neither lost nor given back twice, whichever way a response ends.
LockAccounted ==
  /\ mutex = "server" <=> \E s \in Slots : client[s].locked
  /\ Cardinality({s \in Slots : client[s].locked}) <= 1
  /\ mutex = "worker" <=> wpc \in {"fields", "detections", "picture"}

\* Every open connection has a slot of its own, and no slot is kept by a connection that
\* has ended.
SlotsOwned ==
  /\ {s \in Slots : client[s].in_use} = {slot[c] : c \in {d \in Connections : pcb[d] = "open"}}
  /\ \A c, d \in Connections : c # d /\ slot[c] # None => slot[c] # slot[d]

\* A picture that is sent over many callbacks is of one frame.
FrameWhole == \A c \in Connections : \A i, j \in DOMAIN got[c] : got[c][i] = got[c][j]

\* A status that says it is valid tells of one frame as it was stored, number and persons.
StatusOfOneFrame == status.valid => (status.warning <=> status.sequence \in shown)

\* The four together.
FramesWhole == LockAccounted /\ SlotsOwned /\ FrameWhole /\ StatusOfOneFrame
=============================================================================
