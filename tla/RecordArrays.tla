---------------------------- MODULE RecordArrays ----------------------------
(***************************************************************************)
(* Arrays of records (swirldb-core: core.rs, insert_value,                 *)
(* update_array_as_map, automerge_to_json).  An array whose items have an  *)
(* id or a timestamp is stored as a map from keys to items, assigned by    *)
(* difference, and sorted when it is read; the replicas merge the maps.    *)
(*                                                                         *)
(* Automerge is external: a document is the set of operations seen.  One   *)
(* assignment is one transaction; its operations share a stamp.  An        *)
(* operation replaces the operations for the same key that its replica saw *)
(* (over); what is replaced by none is live, and the newest live one wins. *)
(***************************************************************************)
EXTENDS Naturals, Sequences, FiniteSets, FiniteSetsExt, Functions

CONSTANTS
  NumReplicas, \* replicas are numbered from 0
  Key,         \* the strings that items are stored under, numbered in their order
  Item,        \* what is in the arrays
  Time,        \* their timestamps; 0 without one
  KeysOf,      \* the keys an item may get: its id; without one its timestamp and the
               \* clock's nanoseconds, which may be the same for two items
  Nothing,     \* no item
  Here,        \* the key of the array in the document
  MaxItems,    \* bound: items of an array
  MaxAssigns   \* bound: assignments

ASSUME ArrayConstantsOK ==
  /\ NumReplicas \in Nat \ {0}
  /\ {MaxItems, MaxAssigns} \subseteq Nat
  /\ Key \subseteq Nat /\ Here \notin Key
  /\ Time \in [Item -> Nat] /\ KeysOf \in [Item -> SUBSET Key]
  /\ Nothing \notin Item \cup {"list", "map"}

VARIABLES
  seen,    \* the operations each replica has
  latest,  \* history: what each replica assigned last, and the keys that its items got,
           \* if it has not merged since
  dropped  \* history: the operations whose item some replica saw, and then assigned an
           \* array in which it was changed or missing

arrayVars == <<seen, latest, dropped>>

Replica == 0..NumReplicas - 1
Top == 0  \* the object that holds the array; an array's map has the stamp of its making

Op(stamp, obj, key, body, over, was) ==
  [stamp |-> stamp, obj |-> obj, key |-> key, body |-> body, over |-> over, was |-> was]

-----------------------------------------------------------------------------
(* Automerge's maps. *)

At(S, obj, key) == {o \in S : o.obj = obj /\ o.key = key}

\* A delete (of body Nothing) only replaces.
Live(S, obj, key) ==
  LET ops == At(S, obj, key) IN {o \in ops : o.body # Nothing /\ \A q \in ops : o.stamp \notin q.over}

Stamps(S) == {o.stamp : o \in S}
Newest(S) == CHOOSE o \in S : \A q \in S : q.stamp <= o.stamp

\* The value that wins, if any.
Value(S, obj, key) == LET live == Live(S, obj, key) IN IF live = {} THEN Nothing ELSE Newest(live).body

\* A later Lamport counter than any the replica saw, and its own number.
NewStamp(r) == LET last == Max(Stamps(seen[r]) \cup {0}) \div NumReplicas
               IN  (last + 1) * NumReplicas + r

-----------------------------------------------------------------------------
(* Reading: automerge_to_json. *)

Array(S) == LET live == Live(S, Top, Here) IN
            IF live = {} THEN Op(0, Top, Here, Nothing, {}, Nothing) ELSE Newest(live)
IsStored(S) == Array(S).body = "map"

\* The stored items by key.
Items(S) == LET m == Array(S).stamp
                keys == {k \in {o.key : o \in S} : Live(S, m, k) # {}}
            IN  IF IsStored(S) THEN [k \in keys |-> Value(S, m, k)] ELSE <<>>

\* Item x under key p comes before y under q: a stable sort by timestamp of what is by key.
ComesBefore(x, p, y, q) == Time[x] < Time[y] \/ (Time[x] = Time[y] /\ p < q)

\* How many of the items stored come before the one of key k.
RankOf(items, k) == Cardinality({q \in DOMAIN items : ComesBefore(items[q], q, items[k], k)})

Sorted(items) ==
  [i \in 1..Cardinality(DOMAIN items) |-> items[CHOOSE k \in DOMAIN items : RankOf(items, k) = i - 1]]

Read(S) == Sorted(Items(S))

-----------------------------------------------------------------------------
(* Assigning an array. *)

\* The items by key; of those with the same key the last one is written.
Keyed(arr, keys) == [k \in Range(keys) |-> arr[Max({i \in DOMAIN keys : keys[i] = k})]]

Write(S, stamp, obj, k, body) ==
  Op(stamp, obj, k, body, Stamps(Live(S, obj, k)), Value(S, obj, k))

\* needs_update: the items that are not stored so already.
NeedUpdate(S, items) == LET stored == Items(S) IN
  {k \in DOMAIN items : k \notin DOMAIN stored \/ stored[k] # items[k]}

\* Mutant: items that are no longer in the array stay.
RemoveNone(S, items) == {}

Removed(S, items) == DOMAIN Items(S) \ DOMAIN items

\* update_array_as_map
Difference(S, stamp, items) ==
  LET m == Array(S).stamp IN
  {Write(S, stamp, m, k, Nothing) : k \in Removed(S, items)}
    \cup {Write(S, stamp, m, k, items[k]) : k \in NeedUpdate(S, items)}

\* insert_value of an array that is not stored as a map there yet, or is empty.
Fresh(S, stamp, items) ==
  {Write(S, stamp, Top, Here, IF DOMAIN items = {} THEN "list" ELSE "map")}
    \cup {Write({}, stamp, stamp, k, items[k]) : k \in DOMAIN items}

\* Mutant: the array is always written anew.
WriteAnew(S, stamp, items) == Fresh(S, stamp, items)

Assigned(S, stamp, items) ==
  IF IsStored(S) /\ DOMAIN items # {} THEN Difference(S, stamp, items) ELSE Fresh(S, stamp, items)

\* The live operations that an assignment is to replace.
Meant(S, items) == LET stored == Items(S)  m == Array(S).stamp IN
  {o \in UNION {Live(S, m, k) : k \in DOMAIN stored} :
     o.key \notin DOMAIN items \/ items[o.key] # stored[o.key]}

\* The keys that the items of an array may get.
KeyChoices(arr) == {keys \in [DOMAIN arr -> Key] : \A i \in DOMAIN arr : keys[i] \in KeysOf[arr[i]]}

Assignments == UNION {Stamps(seen[r]) : r \in Replica}

Assign(r, arr, keys) ==
  LET S == seen[r]
      stamp == NewStamp(r)
      items == Keyed(arr, keys)
  IN  /\ seen' = [seen EXCEPT ![r] = @ \cup Assigned(S, stamp, items)]
      /\ latest' = [latest EXCEPT ![r] = [items |-> arr, keys |-> keys]]
      /\ dropped' = dropped \cup Meant(S, items)

\* What another replica has comes in, by way of the server.
Merge(r, q) ==
  /\ ~(seen[q] \subseteq seen[r])
  /\ seen' = [seen EXCEPT ![r] = @ \cup seen[q]]
  /\ latest' = [latest EXCEPT ![r] = Nothing]
  /\ UNCHANGED dropped

ArrayInit ==
  /\ seen = [r \in Replica |-> {}]
  /\ latest = [r \in Replica |-> Nothing]
  /\ dropped = {}

ArrayNext ==
  \/ /\ Cardinality(Assignments) < MaxAssigns
     /\ \E r \in Replica, n \in 0..MaxItems : \E arr \in [1..n -> Item] :
          \E keys \in KeyChoices(arr) : Assign(r, arr, keys)
  \/ \E r, q \in Replica : Merge(r, q)

ArraySpec == ArrayInit /\ [][ArrayNext]_arrayVars

-----------------------------------------------------------------------------
(* Properties. *)

\* The positions of an array whose key does not come again.
Kept(keys) == {i \in DOMAIN keys : \A j \in DOMAIN keys : keys[j] = keys[i] => j <= i}

\* What was assigned is read back, whatever was stored there before: each item once, in the
\* order of timestamps and keys (not, without timestamps, in that of the array, as the comment
\* at core.rs:730 has it), and nothing else; but of several items with the same id, or that
\* got the same key from the clock, only the last.
ReadsBack ==
  \A r \in Replica : latest[r] # Nothing =>
    LET arr == latest[r].items
        keys == latest[r].keys
        read == Read(seen[r])
        Before(i) == {j \in Kept(keys) : ComesBefore(arr[j], keys[j], arr[i], keys[i])}
    IN  /\ Len(read) = Cardinality(Kept(keys))
        /\ \A i \in Kept(keys) : read[1 + Cardinality(Before(i))] = arr[i]

\* The array that o is in lost against one that was made by a replica which saw no
\* array of records, or which emptied it.
ArrayLost(S, o) ==
  /\ Array(S).stamp # o.obj
  /\ Array(S).body = "list" \/ Array(S).was # "map"

\* Another replica changed the item, too, or gave another the same key, and won.
Outdone(S, o) ==
  LET w == Newest(Live(S, o.obj, o.key)) IN Live(S, o.obj, o.key) # {} /\ w # o /\ w.was # w.body

\* An item that nobody who saw it removed or changed is still in the array, although
\* others assign whole arrays at the same time; only if both sides make the array, or
\* one empties it, may the items of one side be lost.
NoItemLost ==
  \A r \in Replica : LET items == Items(seen[r]) IN
    \A o \in seen[r] : o.obj # Top /\ o.body # Nothing /\ o \notin dropped =>
      \/ ArrayLost(seen[r], o)
      \/ o.key \in DOMAIN items /\ items[o.key] = o.body
      \/ Outdone(seen[r], o)
=============================================================================
