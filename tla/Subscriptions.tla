--------------------------- MODULE Subscriptions ---------------------------
(***************************************************************************)
(* The subscriptions of a server's clients (swirldb-core: sync.rs), which  *)
(* are checked against the policy when they are added and decide to whom   *)
(* broadcasts go.  The policy is given when the manager is made: it does   *)
(* not change while there are subscriptions.                               *)
(***************************************************************************)
EXTENDS PathPolicy, SequencesExt

CONSTANTS
  Wanted,      \* the patterns that clients ask for
  MaxRequest,  \* bound: patterns in a request
  Absent       \* no entry for a client

ASSUME SubscriptionConstantsOK ==
  /\ Wanted \subseteq Segments
  /\ MaxRequest \in Nat
  /\ Absent \notin Seq(Wanted)

VARIABLES
  enforced,  \* there is a policy (the server runs without one)
  table,     \* subscriptions: a client's patterns, in order; a client's id is its actor's
  view       \* what a client holds by the answers it got: the patterns added, less those
             \* it asked to remove

subscriptionVars == <<enforced, table, view>>

Request == UNION {[1..n -> Wanted] : n \in 0..MaxRequest}

-----------------------------------------------------------------------------
(* A client's set of subscriptions. *)

\* The policy takes the text of a pattern for a path: a wildcard in it is a segment.
Permitted(c, p) == enforced => Allowed(c, p)

\* add_subscriptions: the patterns that are permitted and not held yet, one by one.
Grown(c, held, request) ==
  FoldLeft(LAMBDA h, p : IF Permitted(c, p) /\ p \notin ToSet(h) THEN Append(h, p) ELSE h,
           held, request)

\* The patterns in the answer: those that are new.
AddedTo(c, held, request) == SubSeq(Grown(c, held, request), Len(held) + 1, Len(Grown(c, held, request)))

\* remove_subscriptions
Shrunk(held, request) ==
  FoldLeft(LAMBDA kept, p : IF p \in ToSet(request) THEN kept ELSE Append(kept, p), <<>>, held)

-----------------------------------------------------------------------------
(* The manager. *)

\* add_client: a new set replaces the one that the client_id had.
AddClient(c, request) ==
  /\ table' = [table EXCEPT ![c] = Grown(c, <<>>, request)]
  /\ view' = [view EXCEPT ![c] = ToSet(AddedTo(c, <<>>, request))]
  /\ UNCHANGED <<rules, enforced>>

\* Mutant: first add, then remove.
AddThenRemove(c, add, remove) == Shrunk(Grown(c, table[c], add), remove)

RemoveThenAdd(c, add, remove) == Grown(c, Shrunk(table[c], remove), add)

UpdateSubscriptions(c, add, remove) ==
  /\ table[c] # Absent
  /\ table' = [table EXCEPT ![c] = RemoveThenAdd(c, add, remove)]
  /\ view' = [view EXCEPT ![c] = (@ \ ToSet(remove))
                                   \cup ToSet(AddedTo(c, Shrunk(table[c], remove), add))]
  /\ UNCHANGED <<rules, enforced>>

RemoveClient(c) ==
  /\ table[c] # Absent
  /\ table' = [table EXCEPT ![c] = Absent]
  /\ view' = [view EXCEPT ![c] = {}]
  /\ UNCHANGED <<rules, enforced>>

\* get_subscribers_for_paths: {actor.id} stands for the client in its own patterns.
Subscribers(paths) ==
  {c \in Actor : /\ table[c] # Absent
                 /\ \E p \in ToSet(table[c]), path \in paths : Matches[Substituted(p, c)][path]}

SubscriptionInit ==
  /\ enforced \in BOOLEAN
  /\ table = [c \in Actor |-> Absent]
  /\ view = [c \in Actor |-> {}]

SubscriptionNext ==
  \E c \in Actor :
    \/ \E request \in Request : AddClient(c, request)
    \/ \E add, remove \in Request : UpdateSubscriptions(c, add, remove)
    \/ RemoveClient(c)

\* First the policy is made, then it is used.
MakePolicy ==
  /\ enforced /\ table = [c \in Actor |-> Absent]
  /\ Next
  /\ UNCHANGED subscriptionVars

SubscriptionSpec ==
  /\ Init /\ SubscriptionInit
  /\ [][MakePolicy \/ SubscriptionNext]_<<rules, subscriptionVars>>

-----------------------------------------------------------------------------
(* Properties. *)

\* Broadcasts go by what a client concludes from the answers it got, whatever it asked
\* for, in whatever order and however often: it is told of exactly the paths that the
\* patterns it holds stand for, and no pattern is kept twice.
AnswersTell ==
  \A c \in Actor : table[c] # Absent =>
    /\ IsInjective(table[c])
    /\ \A path \in Path :
         c \in Subscribers({path}) <=> \E p \in view[c] : Matches[Substituted(p, c)][path]
=============================================================================
