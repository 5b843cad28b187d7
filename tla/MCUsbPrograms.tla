--------------------------- MODULE MCUsbPrograms ---------------------------
(***************************************************************************)
(* The programs at the host's end of the USB line, for TLC.  A behaviour   *)
(* is one of them: program says which, and the variables the others have   *)
(* stay Off.                                                               *)
(***************************************************************************)
EXTENDS Naturals, Sequences

VARIABLES
  program,
  inbox, wire, executed, session, seq, phase, req, call, answered, asked, todo, step, sent,
  exit, device, stored

\* --model, --network-info, or both.
AllTargets == {<<"model">>, <<"nn_info">>, <<"model", "nn_info">>}

Bridge   == INSTANCE UsbBridge WITH MaxSession <- 2, MaxSeq <- 3, MaxChunks <- 2
Reopened == INSTANCE UsbBridge WITH MaxSession <- 3, MaxSeq <- 2, MaxChunks <- 1
Upload   == INSTANCE UsbUpload WITH MaxSession <- 4, Chunks <- 2, Targets <- AllTargets

ASSUME Bridge!BridgeAssumption /\ Reopened!BridgeAssumption /\ Upload!UploadAssumption

Off == "off"

OfUpload == <<asked, todo, step, sent, exit, device, stored>>
OfBridge == <<call>>

vars == <<program, inbox, wire, executed, session, seq, phase, req, answered, OfUpload, OfBridge>>

Init ==
  \/ /\ \/ program = "bridge" /\ Bridge!Init
        \/ program = "reopened" /\ Reopened!Init
     /\ asked = Off /\ todo = Off /\ step = Off /\ sent = Off
     /\ exit = Off /\ device = Off /\ stored = Off
  \/ program = "upload" /\ Upload!Init /\ call = Off

Next ==
  \/ program = "bridge" /\ Bridge!Next /\ UNCHANGED <<program, OfUpload>>
  \/ program = "reopened" /\ Reopened!Next /\ UNCHANGED <<program, OfUpload>>
  \/ program = "upload" /\ Upload!Next /\ UNCHANGED <<program, OfBridge>>

Spec == Init /\ [][Next]_vars

\* A late answer to an earlier run of a program is never taken for the answer to a request
\* of this one: what a run accepts is all of one run, a bridge that gets its own answers and
\* whose line is out of step gets errors until the port is opened again, and the bytes
\* spi_write() reports are those the firmware wrote of this call.
AcceptedIsOwn ==
  /\ program \in {"bridge", "reopened"} =>
       Bridge!AnswersOfOneTransport /\ Bridge!OutOfStepStaysSo /\ Bridge!TotalIsWritten
  /\ program = "upload" => Upload!AnswersOfOneRun

\* An upload that ends with success has left each of its blobs in flash whole; what is in
\* flash is never made of two uploads, and network information goes in after its model.
UploadedIsStored ==
  program = "upload" =>
    Upload!UploadedIsStored /\ Upload!InfoFollowsModel /\ Upload!StoredIsOneUpload
=============================================================================
