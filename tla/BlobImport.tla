----------------------------- MODULE BlobImport -----------------------------
(***************************************************************************)
(* What the blob transfer functions of ArducamIMX500SDK.h promise, without *)
(* registers, chunks or waits.  A caller offers a blob for an operation;   *)
(* the module imports some of what was offered, for the operation it was   *)
(* offered for, at any moment - also after the caller was told "false";    *)
(* and only a call whose own blob was imported while it ran returns true.  *)
(***************************************************************************)
CONSTANTS Ops, Blobs, NoBlob

VARIABLES
  offer,     \* <<operation, blob>> of the call in progress, or <<>>
  offered,   \* every pair offered so far
  store,     \* store[o]: the blob last imported by operation o
  imported,  \* pairs imported since the last call began
  ret        \* what the last call returned: "none" until it does

vars == <<offer, offered, store, imported, ret>>

Init ==
  /\ offer = <<>>
  /\ offered = {}
  /\ store = [o \in Ops |-> NoBlob]
  /\ imported = {}
  /\ ret = "none"

Offer(o, b) ==
  /\ offer = <<>>
  /\ offer' = <<o, b>>
  /\ offered' = offered \cup {<<o, b>>}
  /\ imported' = {}
  /\ ret' = "none"
  /\ UNCHANGED store

Import(o, b) ==
  /\ <<o, b>> \in offered
  /\ store' = [store EXCEPT ![o] = b]
  /\ imported' = imported \cup {<<o, b>>}
  /\ UNCHANGED <<offer, offered, ret>>

Return(value) ==
  /\ offer # <<>>
  /\ value = "true" => offer \in imported
  /\ ret' = value
  /\ offer' = <<>>
  /\ UNCHANGED <<offered, store, imported>>

Next ==
  \/ \E o \in Ops, b \in Blobs : Offer(o, b) \/ Import(o, b)
  \/ Return("true") \/ Return("false")

Spec == Init /\ [][Next]_vars
=============================================================================
