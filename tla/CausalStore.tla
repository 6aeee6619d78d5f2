---------------------------- MODULE CausalStore ----------------------------
(***************************************************************************)
(* What a document server promises, whatever its protocol: its document is *)
(* always a causally closed set of changes, it only loses what was never   *)
(* made durable, and it acknowledges only what is durable.  SyncServer     *)
(* implements this specification.                                          *)
(***************************************************************************)
CONSTANT Change

VARIABLES
  deps,      \* the dependencies of each change that exists
  doc,       \* the document in memory
  image,     \* the document in storage
  promised   \* the changes acknowledged to their senders

vars == <<deps, doc, image, promised>>

IsClosed(S) == \A x \in S : deps[x] \subseteq S

Init ==
  /\ deps = [x \in Change |-> {}]
  /\ doc = {} /\ image = {} /\ promised = {}

\* A client makes a change that the document does not hold yet.
Create(x, D) ==
  /\ x \notin doc
  /\ deps' = [deps EXCEPT ![x] = D]
  /\ UNCHANGED <<doc, image, promised>>

\* The server merges some changes; the new document may or may not reach storage.
Merge(S) ==
  /\ IsClosed(doc \cup S)
  /\ doc' = doc \cup S
  /\ image' = doc' \/ image' = image
  /\ UNCHANGED <<deps, promised>>

Promise(S) ==
  /\ S \subseteq image
  /\ promised' = promised \cup S
  /\ UNCHANGED <<deps, doc, image>>

Crash ==
  /\ doc' = image
  /\ UNCHANGED <<deps, image, promised>>

Next ==
  \/ \E x \in Change, D \in SUBSET Change : Create(x, D)
  \/ \E S \in SUBSET Change : Merge(S) \/ Promise(S)
  \/ Crash

Spec == Init /\ [][Next]_vars
=============================================================================
