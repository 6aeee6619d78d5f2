------------------------------ MODULE Document ------------------------------
(***************************************************************************)
(* A SwirlDB document as its application sees it (swirldb-core: core.rs,   *)
(* paths/registry.rs): values read and written by path, observers of a     *)
(* path, and the registry of the objects' paths.  Changes of other         *)
(* replicas come in by apply_changes, which may fail in the middle.        *)
(*                                                                         *)
(* A document is a function from the paths that have a value to the value: *)
(* a scalar or an object.  Automerge itself is external.                   *)
(***************************************************************************)
EXTENDS Naturals, Sequences, FiniteSets, SequencesExt

CONSTANTS
  Segment,     \* segments of paths
  Index,       \* the segments that are numbers, and may index a list
  MaxDepth,    \* bound: segments of a path
  Scalar,      \* scalar values that scalar_values_equal compares
  Opaque,      \* the others: bytes, timestamps, counters
  None,        \* no value
  Bad,         \* a change that cannot be parsed
  MaxObjects,  \* bound: objects made
  MaxWatched   \* bound: observers

ASSUME DocumentConstantsOK ==
  /\ Index \subseteq Segment
  /\ Scalar \cap Opaque = {} /\ None \notin Scalar \cup Opaque
  /\ {MaxDepth, MaxObjects, MaxWatched} \subseteq Nat

VARIABLES
  tree,      \* the document
  made,      \* how many objects there have been
  watched,   \* the observers: path to last_value
  registry,  \* path_registry: pairs of a path and an object
  halted,    \* history: apply_changes stopped in the middle, and no call came after it
  unlisted   \* history: the objects that came, since the registry was last rebuilt, inside
             \* values given to set_value or with an apply_changes that stopped

documentVars == <<tree, made, watched, registry, halted, unlisted>>

DocPath == UNION {[1..n -> Segment] : n \in 1..MaxDepth}
Root == <<>>
Object(type, n) == [type |-> type, n |-> n]
IsObject(v) == v \notin Scalar \cup Opaque
IsMap(v) == IsObject(v) /\ v.type = "map"

Empty == [p \in {Root} |-> Object("map", 0)]

\* f, with v at x.
With(f, x, v) == [y \in DOMAIN f \cup {x} |-> IF y = x THEN v ELSE f[y]]

-----------------------------------------------------------------------------
(* Reading and writing by path. *)

\* get_path: resolve_path_read, then a scalar or nothing.
Get(t, p) == IF p \in DOMAIN t /\ ~IsObject(t[p]) THEN t[p] ELSE None

\* resolve_path: how deep the path exists, short of its last segment.
Deepest(t, p) == CHOOSE i \in 0..Len(p) - 1 :
                   /\ SubSeq(p, 1, i) \in DOMAIN t
                   /\ \A j \in i + 1..Len(p) - 1 : SubSeq(p, 1, j) \notin DOMAIN t

\* What is missing can be made, and the value put, in a map only: a scalar has no
\* members, and a list takes no string for a key.
Writable(t, p) == IsMap(t[SubSeq(p, 1, Deepest(t, p))])

\* The intermediate maps that resolve_path creates.
Created(t, p) == {SubSeq(p, 1, i) : i \in 1..Len(p) - 1} \ DOMAIN t

\* put: the value replaces what was there, with all its members.
Put(t, p, v) ==
  LET kept == {q \in DOMAIN t : ~IsPrefix(p, q)} IN
  [q \in kept \cup Created(t, p) \cup {p} |->
     IF q = p THEN v
     ELSE IF q \in kept THEN t[q]
     ELSE Object("map", made + Len(q) - Deepest(t, p))]

\* The objects that Put numbers, before those of the value itself.
Steps(t, p) == Cardinality(Created(t, p))

-----------------------------------------------------------------------------
(* Observers. *)

\* scalar_values_equal
SameScalar(a, b) == a = b /\ a \in Scalar

Changed(last, now) == IF None \in {last, now} THEN last # now ELSE ~SameScalar(last, now)

\* Without changed paths every observer fires.
Fires(o, t, paths) ==
  \/ Changed(watched[o], Get(t, o))
  \/ paths = {}
  \/ \E p \in paths : IsPrefix(o, p)

\* Mutant: observers that the changed paths do not concern are left out at once.
NotifyByPath(t, paths) ==
  watched' = [o \in DOMAIN watched |->
                IF paths = {} \/ \E p \in paths : IsPrefix(o, p) THEN Get(t, o) ELSE watched[o]]

\* check_observers_with_paths
Notify(t, paths) ==
  watched' = [o \in DOMAIN watched |-> IF Fires(o, t, paths) THEN Get(t, o) ELSE watched[o]]

\* observe: the observer knows the value of now.
Observe(p) ==
  /\ p \notin DOMAIN watched /\ Cardinality(DOMAIN watched) < MaxWatched
  /\ watched' = With(watched, p, Get(tree, p))
  /\ UNCHANGED <<tree, made, registry, halted, unlisted>>

CheckObservers ==
  /\ Notify(tree, {})
  /\ halted' = FALSE
  /\ UNCHANGED <<tree, made, registry, unlisted>>

-----------------------------------------------------------------------------
(* The registry. *)

\* PathRegistry::from_document
Registry(t) == {<<p, t[p]>> : p \in {q \in DOMAIN t : IsObject(t[q])}}

\* Mutant: intermediate objects are not registered.
RegisterNone(t, p) == UNCHANGED registry

\* register, for each object that resolve_path created: a path leads to one object,
\* though an object once known by the path is still known.
Register(t, p) == registry' = registry \cup {<<q, t[q]>> : q \in Created(tree, p)}

-----------------------------------------------------------------------------
(* Writing. *)

SetPath(p, v) ==
  /\ Writable(tree, p)
  /\ made + Steps(tree, p) <= MaxObjects
  /\ tree' = Put(tree, p, v)
  /\ made' = made + Steps(tree, p)
  /\ Register(tree', p)
  /\ Notify(tree', {p})
  /\ halted' = FALSE
  /\ UNCHANGED unlisted

\* insert_value: a list or a map with one member, which is a scalar.
SetValue(p, type, k, v) ==
  LET top == Object(type, made + Steps(tree, p) + 1) IN
  /\ Writable(tree, p)
  /\ Len(p) < MaxDepth /\ (type = "list" => k \in Index)
  /\ top.n <= MaxObjects
  /\ tree' = With(Put(tree, p, top), Append(p, k), v)
  /\ made' = top.n
  /\ Register(tree', p)
  /\ unlisted' = unlisted \cup {top}
  /\ Notify(tree', {})
  /\ halted' = FALSE

\* Parts of the results of a call that replaces the registry.
Rebuilt(t) ==
  /\ registry' = Registry(t)
  /\ unlisted' = {}
  /\ Notify(t, {})
  /\ halted' = FALSE

\* load_state, of the document that another replica saved after one write.
LoadState(p, v) ==
  LET t == Put(Empty, p, v) IN
  /\ made + Steps(Empty, p) <= MaxObjects
  /\ tree' = t
  /\ made' = made + Steps(Empty, p)
  /\ Rebuilt(t)

\* The change of another replica writes a value; it may win or lose against what was
\* written here.
Merged(t, p, v) == IF Writable(t, p) THEN {t, Put(t, p, v)} ELSE {t}

\* apply_changes, with one change, then possibly one that cannot be parsed: `?' returns
\* before the registry is rebuilt and the observers are told.
ApplyChanges(p, v, next) ==
  \E t \in Merged(tree, p, v) :
    /\ made + Steps(tree, p) <= MaxObjects
    /\ tree' = t
    /\ made' = made + Steps(tree, p)
    /\ \/ next # Bad /\ Rebuilt(t)
       \/ /\ next = Bad
          /\ halted' = TRUE
          /\ unlisted' = unlisted \cup {t[q] : q \in DOMAIN t \ DOMAIN tree}
          /\ UNCHANGED <<watched, registry>>

-----------------------------------------------------------------------------

DocumentInit ==
  /\ tree = Empty /\ made = 0
  /\ watched = <<>>
  /\ registry = Registry(Empty)
  /\ halted = FALSE
  /\ unlisted = {}

DocumentNext ==
  \/ \E p \in DocPath : Observe(p)
  \/ CheckObservers
  \/ \E p \in DocPath, v \in Scalar \cup Opaque : SetPath(p, v)
  \/ \E p \in DocPath, v \in Scalar, type \in {"map", "list"}, k \in Segment : SetValue(p, type, k, v)
  \/ \E p \in DocPath, v \in Scalar, next \in {None, Bad} : ApplyChanges(p, v, next)
  \/ \E p \in DocPath, v \in Scalar : LoadState(p, v)

DocumentSpec == DocumentInit /\ [][DocumentNext]_documentVars

-----------------------------------------------------------------------------
(* Properties. *)

\* Every observer knows the present value of its path, whichever call changed it and
\* however far from the path it wrote; only an apply_changes that stopped in the middle
\* leaves observers behind, and the next call makes up for it.
ObserversKnow == halted \/ \A o \in DOMAIN watched : watched[o] = Get(tree, o)

\* Every object of the document is in the registry by its path, but for those inside a
\* value given to set_value and those that came with a failed apply_changes.
RegistryKnows == Registry(tree) \subseteq registry \cup (DocPath \X unlisted)
=============================================================================
