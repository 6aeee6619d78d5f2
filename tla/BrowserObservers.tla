-------------------------- MODULE BrowserObservers --------------------------
(***************************************************************************)
(* The observers of the browser binding (swirldb-browser: lib.rs), which   *)
(* keeps a list of its own and fires it in three ways: after a local call, *)
(* an observer whose scalar differs from the one it last saw; after a      *)
(* Sync, every one; after a Broadcast, those whose path has to do with the *)
(* paths that the server says are affected.                                *)
(*                                                                         *)
(* The document is a function from the paths of scalars to their values;   *)
(* a map's value is that of the scalars below it.  Values that             *)
(* scalar_values_equal does not compare fire at every check and are left   *)
(* out.  A callback makes no calls of the binding.                         *)
(***************************************************************************)
EXTENDS Naturals, FiniteSets

CONSTANTS
  Leaf,        \* paths of scalars
  Branch,      \* paths of maps
  Under,       \* the maps that each scalar is in
  Begins,      \* the paths with which the text of a path begins
  Datum,       \* values
  Unset,       \* no value
  MaxWatchers  \* bound: observers

ASSUME BrowserConstantsOK ==
  /\ Leaf \cap Branch = {}
  /\ Under \in [Leaf -> SUBSET Branch]
  /\ Begins \in [Leaf \cup Branch -> SUBSET (Leaf \cup Branch)]
  /\ \A l \in Leaf : {l} \cup Under[l] \subseteq Begins[l]
  /\ Unset \notin Datum
  /\ MaxWatchers \in Nat

VARIABLES
  page,      \* the document
  held,      \* changes that came, but wait for one they depend on
  watchers,  \* OBSERVERS: path to last_value
  told,      \* what the application last heard of an observer's path
  ahead,     \* history: the observers fired by a Broadcast since last_value was taken
  local,     \* history: those below whose path a local call wrote since they were fired
  missed     \* history: those below whose path, since they were fired, something changed
             \* by an apply_changes that failed or with a Broadcast of something else

browserVars == <<page, held, watchers, told, ahead, local, missed>>

Contents == [Leaf -> Datum \cup {Unset}]
Remote == Leaf \X Datum

\* get_path: a scalar; get_value: everything.
ScalarAt(d, o) == IF o \in Leaf THEN d[o] ELSE Unset
Whole(d, o) == [l \in {x \in Leaf : o \in {x} \cup Under[x]} |-> d[l]]

\* The observers who see a difference.
Seeing(d, e) == {o \in DOMAIN watchers : Whole(d, o) # Whole(e, o)}

-----------------------------------------------------------------------------
(* Firing. *)

\* The callbacks of some observers are called.
Call(fired, d) == told' = [o \in DOMAIN told |-> IF o \in fired THEN Whole(d, o) ELSE told[o]]

Take(fired, d) ==
  watchers' = [o \in DOMAIN watchers |-> IF o \in fired THEN ScalarAt(d, o) ELSE watchers[o]]

\* check_observers
CheckAll(d) ==
  LET fired == {o \in DOMAIN watchers : watchers[o] # ScalarAt(d, o)} IN
  /\ Call(fired, d) /\ Take(fired, d)
  /\ ahead' = ahead \ fired
  /\ local' = (local \cup Seeing(page, d)) \ fired
  /\ missed' = missed \ fired

\* Mutant: last_value is left as it was.
FireAllOnly(d) ==
  /\ Call(DOMAIN watchers, d) /\ UNCHANGED watchers
  /\ ahead' = {} /\ local' = {} /\ missed' = {}

\* fire_all_observers
FireAll(d) ==
  /\ Call(DOMAIN watchers, d) /\ Take(DOMAIN watchers, d)
  /\ ahead' = {} /\ local' = {} /\ missed' = {}

\* Mutant: an observer of a map is not concerned by what is in it.
ConcernsExactly(l, o) == o = l

\* One of the two texts begins with the other.
Concerns(l, o) == o \in Begins[l] \/ l \in Begins[o]

\* fire_observers_for_paths: last_value stays as it is.
FireFor(l, d) ==
  LET fired == {o \in DOMAIN watchers : Concerns(l, o)} IN
  /\ Call(fired, d)
  /\ ahead' = ahead \cup fired
  /\ local' = local \ fired
  /\ missed' = (missed \cup Seeing([page EXCEPT ![l] = d[l]], d)) \ fired
  /\ UNCHANGED watchers

\* apply_changes failed: the error is logged, or thrown to the caller.
FireNone(d) ==
  /\ missed' = missed \cup Seeing(page, d)
  /\ UNCHANGED <<watchers, told, ahead, local>>

-----------------------------------------------------------------------------
(* Calls of the application. *)

\* observe: the application knows the value of now.
Watch(o) ==
  /\ o \notin DOMAIN watchers /\ Cardinality(DOMAIN watchers) < MaxWatchers
  /\ watchers' = [p \in DOMAIN watchers \cup {o} |-> IF p = o THEN ScalarAt(page, o) ELSE watchers[p]]
  /\ told' = [p \in DOMAIN told \cup {o} |-> IF p = o THEN Whole(page, o) ELSE told[p]]
  /\ UNCHANGED <<page, held, ahead, local, missed>>

\* setPath and setValue: one scalar, or all of a map.
SetLocally(o, d) ==
  /\ \A l \in Leaf : o \notin {l} \cup Under[l] => d[l] = page[l]
  /\ o \in Leaf => d[o] # Unset
  /\ page' = d
  /\ CheckAll(d)
  /\ UNCHANGED held

\* loadState: another document.
LoadPage(d) ==
  /\ page' = d /\ held' = {}
  /\ CheckAll(d)

CheckNow == CheckAll(page) /\ UNCHANGED <<page, held>>

-----------------------------------------------------------------------------
(* Changes of others. *)

\* Of the changes on one path any may win, also what was written here.
Winners(S) == {d \in Contents : \A l \in Leaf : d[l] \in {page[l]} \cup {c[2] : c \in {x \in S : x[1] = l}}}

\* apply_changes with one change: it waits for another, or is applied, and with it
\* those that waited for it.
Comes(c) ==
  \/ held' = held \cup {c} /\ UNCHANGED page
  \/ \E ready \in SUBSET held :
       /\ held' = held \ ready
       /\ page' \in Winners(ready \cup {c})

\* applyChanges, called by the application; a second change that cannot be parsed makes
\* it return before the check.
ApplyByHand(c, ok) ==
  /\ Comes(c)
  /\ IF ok THEN CheckAll(page') ELSE FireNone(page')

\* onmessage, Broadcast.
OnBroadcast(c, ok) ==
  /\ Comes(c)
  /\ IF ok THEN FireFor(c[1], page') ELSE FireNone(page')

\* onmessage, Sync: what is missing, so that nothing waits any more; nothing is done
\* when it is empty.  If a change in it cannot be parsed, those before it are applied,
\* and some may go on waiting.
OnSync(d, ok) ==
  /\ \A l \in Leaf : d[l] = Unset => page[l] = Unset
  /\ page' = d
  /\ IF ok THEN held' = {} /\ FireAll(d) ELSE held' \in SUBSET held /\ FireNone(d)

-----------------------------------------------------------------------------

BrowserInit ==
  /\ page = [l \in Leaf |-> Unset] /\ held = {}
  /\ watchers = [o \in {} |-> Unset] /\ told = [o \in {} |-> Unset]
  /\ ahead = {} /\ local = {} /\ missed = {}

BrowserNext ==
  \/ \E o \in Leaf \cup Branch : Watch(o)
  \/ \E o \in Leaf \cup Branch, d \in Contents : SetLocally(o, d)
  \/ \E d \in Contents : LoadPage(d)
  \/ CheckNow
  \/ \E d \in Contents, ok \in BOOLEAN : OnSync(d, ok)
  \/ \E c \in Remote, ok \in BOOLEAN : ApplyByHand(c, ok) \/ OnBroadcast(c, ok)

BrowserSpec == BrowserInit /\ [][BrowserNext]_browserVars

-----------------------------------------------------------------------------
(* Properties. *)

\* The application knows the value of every path it observes, but
\*   - of a map after a local write inside it, as only scalars are compared;
\*   - of a path that a message changed without firing its observers: apply_changes
\*     failed, or a change was applied with the Broadcast of another that it waited for;
\*   - of a scalar that a Broadcast changed and that was then written back to what it was
\*     before: last_value is still that.
WatchersKnow ==
  \A o \in DOMAIN watchers :
    \/ told[o] = Whole(page, o)
    \/ o \in missed
    \/ o \in Branch /\ o \in local
    \/ o \in Leaf /\ o \in ahead /\ watchers[o] = page[o]
=============================================================================
