---------------------------- MODULE PartsProofs ----------------------------
(***************************************************************************)
(* What holds of the parts that run on their own: of the document, its     *)
(* observers, its registry and its arrays of records; of the browser, its  *)
(* observers; of the server, discovery and datagrams; and of the codec.    *)
(* They share no state, and each has an inductive invariant of its own.    *)
(***************************************************************************)
EXTENDS Document, BrowserObservers, Discovery, LanEphemeral, RecordArrays, WireCodec,
        DataLemmas, SequenceTheorems, FiniteSetTheorems, TLAPS

-----------------------------------------------------------------------------
(* The document. *)

\* However few paths it is given, a check leaves every observer with the present value:
\* one that does not fire had it already.
LEMMA NotifyKnows ==
  ASSUME NEW t, NEW paths, Notify(t, paths)
  PROVE  \A o \in DOMAIN watched' : watched'[o] = Get(t, o)
<1> SUFFICES ASSUME NEW o \in DOMAIN watched'
             PROVE  watched'[o] = Get(t, o)
  OBVIOUS
<1>1. o \in DOMAIN watched
  BY DEF Notify
<1>2. watched'[o] = IF Fires(o, t, paths) THEN Get(t, o) ELSE watched[o]
  BY <1>1 DEF Notify
<1>3. CASE Fires(o, t, paths)
  BY <1>2, <1>3
<1>4. CASE ~Fires(o, t, paths)
  <2>1. ~Changed(watched[o], Get(t, o))
    BY <1>4 DEF Fires
  <2>2. watched[o] = Get(t, o)
    BY <2>1 DEF Changed, SameScalar
  <2> QED BY <1>2, <1>4, <2>2
<1> QED BY <1>3, <1>4

\* Every observer knows the present value of its path after every call, for any paths,
\* values and number of observers (core.rs: check_observers_with_paths).
THEOREM AlwaysKnow == DocumentSpec => []ObserversKnow
<1>1. DocumentInit => ObserversKnow
  BY DEF DocumentInit, ObserversKnow
<1>2. ObserversKnow /\ [DocumentNext]_documentVars => ObserversKnow'
  <2> SUFFICES ASSUME ObserversKnow, [DocumentNext]_documentVars
               PROVE  ObserversKnow'
    OBVIOUS
  <2>1. ASSUME NEW t, NEW paths, t = tree', Notify(t, paths)
        PROVE  ObserversKnow'
    <3>1. \A o \in DOMAIN watched' : watched'[o] = Get(tree', o)
      BY <2>1, NotifyKnows
    <3> QED BY <3>1 DEF ObserversKnow, Get, IsObject
  <2>2. ASSUME NEW p \in DocPath, Observe(p) PROVE ObserversKnow'
    <3>1. DOMAIN watched' = {p} \cup DOMAIN watched /\ watched'[p] = Get(tree, p)
      BY <2>2 DEF Observe, With
    <3>2. \A o \in DOMAIN watched \ {p} : watched'[o] = watched[o]
      BY <2>2 DEF Observe, With
    <3>3. tree' = tree /\ halted' = halted
      BY <2>2 DEF Observe
    <3> QED BY <3>1, <3>2, <3>3 DEF ObserversKnow, Get, IsObject
  <2>3. ASSUME CheckObservers PROVE ObserversKnow'
    BY <2>1, <2>3 DEF CheckObservers
  <2>4. ASSUME NEW p \in DocPath, NEW v \in Scalar \cup Opaque, SetPath(p, v)
        PROVE  ObserversKnow'
    BY <2>1, <2>4 DEF SetPath
  <2>5. ASSUME NEW p \in DocPath, NEW v \in Scalar, NEW type \in {"map", "list"}, NEW k \in Segment,
               SetValue(p, type, k, v)
        PROVE  ObserversKnow'
    BY <2>1, <2>5 DEF SetValue
  <2>6. ASSUME NEW p \in DocPath, NEW v \in Scalar, NEW next \in {None, Bad}, ApplyChanges(p, v, next)
        PROVE  ObserversKnow'
    <3>1. PICK t \in Merged(tree, p, v) :
            tree' = t /\ (Rebuilt(t) \/ halted' = TRUE)
      BY <2>6 DEF ApplyChanges
    <3>2. CASE Rebuilt(t)
      BY <2>1, <3>1, <3>2 DEF Rebuilt
    <3>3. CASE halted' = TRUE
      BY <3>3 DEF ObserversKnow
    <3> QED BY <3>1, <3>2, <3>3
  <2>7. ASSUME NEW p \in DocPath, NEW v \in Scalar, LoadState(p, v)
        PROVE  ObserversKnow'
    BY <2>1, <2>7 DEF LoadState, Rebuilt
  <2>8. CASE UNCHANGED documentVars
    BY <2>8 DEF documentVars, ObserversKnow, Get, IsObject
  <2> QED BY <2>2, <2>3, <2>4, <2>5, <2>6, <2>7, <2>8 DEF DocumentNext
<1> QED BY <1>1, <1>2, PTL DEF DocumentSpec

-----------------------------------------------------------------------------
(* The registry. *)

\* What put leaves at a path: the value, what was there, or a map that it made.
LEMMA PutAt ==
  ASSUME NEW t, NEW p, NEW v, NEW q \in DOMAIN Put(t, p, v)
  PROVE  \/ q = p /\ Put(t, p, v)[q] = v
         \/ q \in DOMAIN t /\ Put(t, p, v)[q] = t[q]
         \/ q \in Created(t, p)
<1> DEFINE kept == {x \in DOMAIN t : ~IsPrefix(p, x)}
<1>1. q \in kept \cup Created(t, p) \cup {p}
  BY DEF Put
<1>2. Put(t, p, v)[q] = IF q = p THEN v
                        ELSE IF q \in kept THEN t[q]
                        ELSE Object("map", made + Len(q) - Deepest(t, p))
  BY <1>1 DEF Put
<1> QED BY <1>1, <1>2

\* A sequence is a function on its positions.
LEMMA SeqIsFunction == ASSUME NEW S, NEW s \in Seq(S) PROVE s \in [1..Len(s) -> S]
OBVIOUS

\* The prefixes of a path are paths.
LEMMA CreatedPaths == ASSUME NEW t, NEW p \in DocPath PROVE Created(t, p) \subseteq DocPath \ DOMAIN t
<1> SUFFICES ASSUME NEW i \in 1..Len(p) - 1, SubSeq(p, 1, i) \notin DOMAIN t
             PROVE  SubSeq(p, 1, i) \in DocPath
  BY DEF Created
<1>1. PICK n \in 1..MaxDepth : p \in [1..n -> Segment]
  BY DEF DocPath
<1>2. n \in Nat /\ MaxDepth \in Nat /\ p \in Seq(Segment) /\ Len(p) = n
  BY <1>1, DocumentConstantsOK
<1>3. i \in 1..MaxDepth /\ i <= n
  BY <1>2
<1>4. SubSeq(p, 1, i) \in Seq(Segment) /\ Len(SubSeq(p, 1, i)) = i
  BY <1>2, <1>3
<1>5. SubSeq(p, 1, i) \in [1..Len(SubSeq(p, 1, i)) -> Segment]
  BY <1>4, SeqIsFunction
<1> QED BY <1>3, <1>4, <1>5 DEF DocPath

\* Every object is registered by its path, but for those of values given to set_value and
\* those that a failed apply_changes brought (core.rs: resolve_path registers what it
\* creates, load_state and apply_changes rebuild the registry).
THEOREM AlwaysRegistered == DocumentSpec => []RegistryKnows
<1>1. DocumentInit => RegistryKnows
  BY DEF DocumentInit, RegistryKnows
<1>2. RegistryKnows /\ [DocumentNext]_documentVars => RegistryKnows'
  <2> SUFFICES ASSUME RegistryKnows, [DocumentNext]_documentVars
               PROVE  RegistryKnows'
    OBVIOUS
  \* It is enough to look at each object of the new document.
  <2>1. ASSUME \A q \in DOMAIN tree' : IsObject(tree'[q]) =>
                 <<q, tree'[q]>> \in registry' \cup (DocPath \X unlisted')
        PROVE  RegistryKnows'
    BY <2>1 DEF RegistryKnows, Registry, IsObject
  <2>2. \A q \in DOMAIN tree : IsObject(tree[q]) =>
          <<q, tree[q]>> \in registry \cup (DocPath \X unlisted)
    BY DEF RegistryKnows, Registry
  <2>3. ASSUME UNCHANGED <<tree, registry, unlisted>> PROVE RegistryKnows'
    BY <2>1, <2>2, <2>3
  <2>4. ASSUME NEW t, t = tree', Rebuilt(t) PROVE RegistryKnows'
    BY <2>1, <2>4 DEF Rebuilt, Registry
  <2>5. ASSUME NEW p \in DocPath, NEW v \in Scalar \cup Opaque, SetPath(p, v)
        PROVE  RegistryKnows'
    <3> SUFFICES ASSUME NEW q \in DOMAIN tree', IsObject(tree'[q])
                 PROVE  <<q, tree'[q]>> \in registry' \cup (DocPath \X unlisted')
      BY <2>1
    <3>1. tree' = Put(tree, p, v) /\ unlisted' = unlisted
      BY <2>5 DEF SetPath
    <3>2. registry' = registry \cup {<<x, tree'[x]>> : x \in Created(tree, p)}
      BY <2>5 DEF SetPath, Register
    <3>3. q # p \/ tree'[q] # v
      BY DEF IsObject
    <3> QED BY <2>2, <3>1, <3>2, <3>3, PutAt
  <2>6. ASSUME NEW p \in DocPath, NEW v \in Scalar, NEW type \in {"map", "list"}, NEW k \in Segment,
               SetValue(p, type, k, v)
        PROVE  RegistryKnows'
    <3> SUFFICES ASSUME NEW q \in DOMAIN tree', IsObject(tree'[q])
                 PROVE  <<q, tree'[q]>> \in registry' \cup (DocPath \X unlisted')
      BY <2>1
    <3>1. PICK top : /\ tree' = With(Put(tree, p, top), Append(p, k), v)
                     /\ unlisted' = unlisted \cup {top}
      BY <2>6 DEF SetValue
    <3>2. registry' = registry \cup {<<x, tree'[x]>> : x \in Created(tree, p)}
      BY <2>6 DEF SetValue, Register
    <3>3. q # Append(p, k)
      BY <3>1 DEF With, IsObject
    <3>4. q \in DOMAIN Put(tree, p, top) /\ tree'[q] = Put(tree, p, top)[q]
      BY <3>1, <3>3 DEF With
    <3> QED BY <2>2, <3>1, <3>2, <3>4, PutAt
  <2>7. ASSUME NEW p \in DocPath, NEW v \in Scalar, NEW next \in {None, Bad}, ApplyChanges(p, v, next)
        PROVE  RegistryKnows'
    <3>1. PICK t \in Merged(tree, p, v) :
            /\ tree' = t
            /\ \/ Rebuilt(t)
               \/ /\ unlisted' = unlisted \cup {t[x] : x \in DOMAIN t \ DOMAIN tree}
                  /\ registry' = registry
      BY <2>7 DEF ApplyChanges
    <3>2. CASE Rebuilt(t)
      BY <2>4, <3>1, <3>2
    <3>3. CASE /\ unlisted' = unlisted \cup {t[x] : x \in DOMAIN t \ DOMAIN tree}
               /\ registry' = registry
      <4> SUFFICES ASSUME NEW q \in DOMAIN tree', IsObject(tree'[q])
                   PROVE  <<q, tree'[q]>> \in registry' \cup (DocPath \X unlisted')
        BY <2>1
      <4>1. t = tree \/ t = Put(tree, p, v)
        BY DEF Merged
      <4>2. CASE q \in DOMAIN tree /\ tree'[q] = tree[q]
        BY <2>2, <3>3, <4>2
      <4>3. CASE q \in Created(tree, p)
        BY <3>1, <3>3, <4>3, CreatedPaths
      <4>4. q # p \/ tree'[q] # v
        BY DEF IsObject
      <4> QED BY <3>1, <4>1, <4>2, <4>3, <4>4, PutAt
    <3> QED BY <3>1, <3>2, <3>3
  <2>8. ASSUME NEW p \in DocPath, NEW v \in Scalar, LoadState(p, v)
        PROVE  RegistryKnows'
    BY <2>4, <2>8 DEF LoadState
  <2>9. ASSUME NEW p \in DocPath, Observe(p) PROVE RegistryKnows'
    BY <2>3, <2>9 DEF Observe
  <2>10. ASSUME CheckObservers PROVE RegistryKnows'
    BY <2>3, <2>10 DEF CheckObservers
  <2>11. CASE UNCHANGED documentVars
    BY <2>3, <2>11 DEF documentVars
  <2> QED BY <2>5, <2>6, <2>7, <2>8, <2>9, <2>10, <2>11 DEF DocumentNext
<1> QED BY <1>1, <1>2, PTL DEF DocumentSpec

-----------------------------------------------------------------------------
(* The observers of the browser. *)

\* The value of the path of a scalar.
One(o, v) == [l \in {o} |-> v]

\* What an observer of a scalar was told is what is kept of it, until a Broadcast fires it.
ToldAndSeen ==
  \A o \in DOMAIN watchers : /\ o \in Branch => watchers[o] = Unset
                             /\ o \in Leaf \ ahead => told[o] = One(o, watchers[o])

\* The inductive invariant of the observers.
WatchInv ==
  /\ page \in Contents /\ DOMAIN told = DOMAIN watchers /\ DOMAIN watchers \subseteq Leaf \cup Branch
  /\ ToldAndSeen
  /\ WatchersKnow

\* The value of a scalar is all there is at its path.
LEMMA WholeLeaf ==
  ASSUME NEW o \in Leaf, NEW d
  PROVE  Whole(d, o) = One(o, d[o]) /\ ScalarAt(d, o) = d[o]
<1>1. {x \in Leaf : o \in {x} \cup Under[x]} = {o}
  BY BrowserConstantsOK
<1> QED BY <1>1 DEF Whole, ScalarAt, One

\* Maps have no scalar value.
LEMMA ScalarBranch == ASSUME NEW o \in Branch, NEW d PROVE ScalarAt(d, o) = Unset
BY BrowserConstantsOK DEF ScalarAt

\* Where nothing differs at its path, an observer of a scalar sees the same value.
LEMMA SameWhole ==
  ASSUME NEW o \in Leaf, NEW d, NEW e, Whole(d, o) = Whole(e, o)
  PROVE  d[o] = e[o]
<1>1. One(o, d[o]) = One(o, e[o])
  BY WholeLeaf
<1>2. \A v : One(o, v)[o] = v
  BY DEF One
<1> QED BY <1>1, <1>2

\* An observer that is not fired, of whose path nothing changed, keeps what it is due.
LEMMA DueKept ==
  ASSUME WatchInv, NEW o \in DOMAIN watchers, NEW d, Whole(page, o) = Whole(d, o),
         page' = d, told'[o] = told[o], watchers'[o] = watchers[o],
         o \in missed => o \in missed', o \in local => o \in local', o \in ahead => o \in ahead'
  PROVE  \/ told'[o] = Whole(page, o)'
         \/ o \in missed'
         \/ o \in Branch /\ o \in local'
         \/ o \in Leaf /\ o \in ahead' /\ watchers'[o] = page'[o]
<1>1. Whole(page, o)' = Whole(d, o)
  BY DEF Whole
<1>2. CASE o \in Leaf /\ o \in ahead /\ watchers[o] = page[o]
  BY <1>2, SameWhole
<1> QED BY <1>1, <1>2 DEF WatchInv, WatchersKnow

\* check_observers: an observer of a scalar is fired or saw the same value; one of a map
\* is due a call as long as a local write is not told.
LEMMA CheckAllKeeps ==
  ASSUME WatchInv, NEW d \in Contents, page' = d, CheckAll(d)
  PROVE  WatchInv'
<1> DEFINE fired == {o \in DOMAIN watchers : watchers[o] # ScalarAt(d, o)}
<1>1. /\ told' = [o \in DOMAIN told |-> IF o \in fired THEN Whole(d, o) ELSE told[o]]
      /\ watchers' = [o \in DOMAIN watchers |-> IF o \in fired THEN ScalarAt(d, o) ELSE watchers[o]]
      /\ ahead' = ahead \ fired /\ local' = (local \cup Seeing(page, d)) \ fired /\ missed' = missed \ fired
  BY DEF CheckAll, Call, Take
<1>2. DOMAIN told' = DOMAIN told /\ DOMAIN watchers' = DOMAIN watchers /\ DOMAIN told = DOMAIN watchers
      /\ DOMAIN watchers \subseteq Leaf \cup Branch
  BY <1>1 DEF WatchInv
<1>3. ASSUME NEW o \in DOMAIN watchers
      PROVE  /\ o \in Branch => watchers'[o] = Unset
             /\ o \in Leaf \ ahead' => told'[o] = One(o, watchers'[o])
             /\ \/ told'[o] = Whole(page, o)'
                \/ o \in missed'
                \/ o \in Branch /\ o \in local'
                \/ o \in Leaf /\ o \in ahead' /\ watchers'[o] = page'[o]
  <2>1. Whole(page, o)' = Whole(d, o)
    BY DEF Whole
  <2>2. CASE o \in Branch
    <3>1. o \notin fired /\ watchers[o] = Unset
      BY <2>2, ScalarBranch DEF WatchInv, ToldAndSeen
    <3>2. watchers'[o] = Unset /\ told'[o] = told[o] /\ watchers'[o] = watchers[o] /\ o \notin Leaf
      BY <1>1, <1>2, <2>2, <3>1, BrowserConstantsOK
    <3>3. CASE Whole(page, o) = Whole(d, o)
      BY <1>1, <2>2, <3>1, <3>2, <3>3, DueKept
    <3>4. CASE Whole(page, o) # Whole(d, o)
      BY <1>1, <2>2, <3>1, <3>2, <3>4 DEF Seeing
    <3> QED BY <3>2, <3>3, <3>4
  <2>3. CASE o \in Leaf
    <3>1. Whole(d, o) = One(o, d[o]) /\ ScalarAt(d, o) = d[o] /\ o \notin Branch
      BY <2>3, WholeLeaf, BrowserConstantsOK
    <3>2. CASE o \in fired
      <4>1. told'[o] = Whole(d, o) /\ watchers'[o] = d[o]
        BY <1>1, <1>2, <3>1, <3>2
      <4>2. One(o, d[o]) = One(o, watchers'[o])
        BY <4>1
      <4> QED BY <2>1, <3>1, <4>1, <4>2
    <3>3. CASE o \notin fired
      <4>1. told'[o] = told[o] /\ watchers'[o] = watchers[o] /\ watchers[o] = d[o]
            /\ (o \in ahead <=> o \in ahead')
        BY <1>1, <1>2, <3>1, <3>3
      <4>2. CASE o \in ahead
        BY <2>3, <3>1, <4>1, <4>2
      <4>3. CASE o \notin ahead
        <5>1. told[o] = One(o, watchers[o])
          BY <2>3, <4>3 DEF WatchInv, ToldAndSeen
        <5>2. One(o, watchers[o]) = One(o, d[o])
          BY <4>1
        <5> QED BY <2>1, <2>3, <3>1, <4>1, <5>1, <5>2
      <4> QED BY <4>2, <4>3
    <3> QED BY <3>2, <3>3
  <2> QED BY <1>2, <2>2, <2>3
<1> HIDE DEF fired
<1>4. WatchersKnow'
  BY <1>2, <1>3 DEF WatchersKnow
<1>5. ToldAndSeen'
  BY <1>2, <1>3 DEF ToldAndSeen, One
<1>6. (page \in Contents)' /\ (DOMAIN told = DOMAIN watchers)' /\ (DOMAIN watchers \subseteq Leaf \cup Branch)'
  BY <1>2 DEF Contents
<1> QED BY <1>4, <1>5, <1>6 DEF WatchInv

\* fire_all_observers tells everyone.
LEMMA FireAllKeeps ==
  ASSUME WatchInv, NEW d \in Contents, page' = d, FireAll(d)
  PROVE  WatchInv'
<1>1. /\ told' = [o \in DOMAIN told |-> IF o \in DOMAIN watchers THEN Whole(d, o) ELSE told[o]]
      /\ watchers' = [o \in DOMAIN watchers |-> IF o \in DOMAIN watchers THEN ScalarAt(d, o) ELSE watchers[o]]
  BY DEF FireAll, Call, Take
<1>2. DOMAIN told' = DOMAIN told /\ DOMAIN watchers' = DOMAIN watchers /\ DOMAIN told = DOMAIN watchers
      /\ DOMAIN watchers \subseteq Leaf \cup Branch
  BY <1>1 DEF WatchInv
<1>3. ASSUME NEW o \in DOMAIN watchers
      PROVE  /\ o \in Branch => watchers'[o] = Unset
             /\ o \in Leaf => told'[o] = One(o, watchers'[o])
             /\ told'[o] = Whole(page, o)'
  <2>1. told'[o] = Whole(d, o) /\ watchers'[o] = ScalarAt(d, o)
    BY <1>1, <1>2
  <2>2. Whole(page, o)' = Whole(d, o)
    BY DEF Whole
  <2>3. ASSUME o \in Leaf PROVE told'[o] = One(o, watchers'[o])
    <3>1. Whole(d, o) = One(o, d[o]) /\ watchers'[o] = d[o]
      BY <2>1, <2>3, WholeLeaf
    <3>2. One(o, d[o]) = One(o, watchers'[o])
      BY <3>1
    <3> QED BY <2>1, <3>1, <3>2
  <2> QED BY <2>1, <2>2, <2>3, ScalarBranch
<1>4. WatchersKnow'
  BY <1>2, <1>3 DEF WatchersKnow
<1> QED BY <1>2, <1>3, <1>4 DEF WatchInv, ToldAndSeen, Contents

\* fire_observers_for_paths tells those that the path concerns; what changed for others
\* is missed.
LEMMA FireForKeeps ==
  ASSUME WatchInv, NEW d \in Contents, page' = d, NEW l \in Leaf, FireFor(l, d)
  PROVE  WatchInv'
<1> DEFINE fired == {o \in DOMAIN watchers : Concerns(l, o)}
           e == [page EXCEPT ![l] = d[l]]
<1>1. /\ told' = [o \in DOMAIN told |-> IF o \in fired THEN Whole(d, o) ELSE told[o]]
      /\ watchers' = watchers
      /\ ahead' = ahead \cup fired /\ local' = local \ fired /\ missed' = (missed \cup Seeing(e, d)) \ fired
  BY DEF FireFor, Call
<1>2. DOMAIN told' = DOMAIN told /\ DOMAIN told = DOMAIN watchers
  BY <1>1 DEF WatchInv
<1>3. ASSUME NEW o \in DOMAIN watchers
      PROVE  /\ o \in Leaf \ ahead' => told'[o] = One(o, watchers'[o])
             /\ \/ told'[o] = Whole(page, o)'
                \/ o \in missed'
                \/ o \in Branch /\ o \in local'
                \/ o \in Leaf /\ o \in ahead' /\ watchers'[o] = page'[o]
  <2>1. Whole(page, o)' = Whole(d, o)
    BY DEF Whole
  <2>2. CASE o \in fired
    BY <1>1, <1>2, <2>1, <2>2
  <2>3. CASE o \notin fired
    <3>1. o \notin {l} \cup Under[l]
      BY <2>3, BrowserConstantsOK DEF Concerns
    <3>2. \A x \in {y \in Leaf : o \in {y} \cup Under[y]} : e[x] = page[x]
      BY <3>1 DEF WatchInv, ToldAndSeen, Contents
    <3>3. Whole(e, o) = Whole(page, o)
      BY <3>2 DEF Whole
    <3>4. told'[o] = told[o] /\ (o \in ahead <=> o \in ahead')
      BY <1>1, <1>2, <2>3
    <3>5. CASE Whole(e, o) # Whole(d, o)
      <4>1. o \in missed'
        BY <1>1, <2>3, <3>5 DEF Seeing
      <4> QED BY <1>1, <3>4, <4>1 DEF WatchInv, ToldAndSeen
    <3>6. CASE Whole(page, o) = Whole(d, o)
      <4> HIDE DEF e
      <4>1. /\ o \in missed => o \in missed'
            /\ o \in local => o \in local'
        BY <1>1, <2>3
      <4>2. o \in Leaf \ ahead' => told'[o] = One(o, watchers'[o])
        BY <1>1, <3>4 DEF WatchInv, ToldAndSeen
      <4> QED BY <1>1, <3>4, <3>6, <4>1, <4>2, DueKept
    <3> QED BY <3>3, <3>5, <3>6
  <2> QED BY <2>2, <2>3
<1> HIDE DEF fired, e
<1>4. WatchersKnow'
  BY <1>1, <1>3 DEF WatchersKnow
<1> QED BY <1>1, <1>2, <1>3, <1>4 DEF WatchInv, ToldAndSeen, Contents

\* A change that fires nobody is missed by those who see it.
LEMMA FireNoneKeeps ==
  ASSUME WatchInv, NEW d \in Contents, page' = d, FireNone(d)
  PROVE  WatchInv'
<1>1. missed' = missed \cup Seeing(page, d) /\ UNCHANGED <<watchers, told, ahead, local>>
  BY DEF FireNone
<1>2. ASSUME NEW o \in DOMAIN watchers
      PROVE  \/ told'[o] = Whole(page, o)'
             \/ o \in missed'
             \/ o \in Branch /\ o \in local'
             \/ o \in Leaf /\ o \in ahead' /\ watchers'[o] = page'[o]
  <2>1. CASE Whole(page, o) = Whole(d, o)
    BY <1>1, <2>1, DueKept
  <2>2. CASE Whole(page, o) # Whole(d, o)
    BY <1>1, <2>2 DEF Seeing
  <2> QED BY <2>1, <2>2
<1>3. WatchersKnow'
  BY <1>1, <1>2 DEF WatchersKnow
<1> QED BY <1>1, <1>3 DEF WatchInv, ToldAndSeen, Contents

\* A new observer knows the value of now.
LEMMA WatchKeeps == ASSUME WatchInv, NEW o \in Leaf \cup Branch, Watch(o) PROVE WatchInv'
<1>1. /\ o \notin DOMAIN watchers
      /\ watchers' = [p \in DOMAIN watchers \cup {o} |-> IF p = o THEN ScalarAt(page, o) ELSE watchers[p]]
      /\ told' = [p \in DOMAIN told \cup {o} |-> IF p = o THEN Whole(page, o) ELSE told[p]]
      /\ UNCHANGED <<page, ahead, local, missed>>
  BY DEF Watch
<1>2. DOMAIN told' = DOMAIN watchers' /\ DOMAIN watchers' = DOMAIN watchers \cup {o} /\ DOMAIN told = DOMAIN watchers
      /\ DOMAIN watchers \subseteq Leaf \cup Branch
  BY <1>1 DEF WatchInv
<1>3. watchers'[o] = ScalarAt(page, o) /\ told'[o] = Whole(page, o)
  BY <1>1
<1>4. \A p \in DOMAIN watchers : p # o /\ watchers'[p] = watchers[p] /\ told'[p] = told[p]
  BY <1>1, <1>2
<1>5. \A p : Whole(page, p)' = Whole(page, p)
  BY <1>1 DEF Whole
<1>6. o \in Leaf => told'[o] = One(o, watchers'[o])
  <2> SUFFICES ASSUME o \in Leaf PROVE told'[o] = One(o, watchers'[o])
    OBVIOUS
  <2>1. told'[o] = One(o, page[o]) /\ watchers'[o] = page[o]
    BY <1>3, WholeLeaf
  <2>2. One(o, page[o]) = One(o, watchers'[o])
    BY <2>1
  <2> QED BY <2>1, <2>2
<1>7. o \in Branch => watchers'[o] = Unset
  BY <1>3, ScalarBranch
<1>8. ASSUME NEW p \in DOMAIN watchers \cup {o}
      PROVE  /\ p \in Branch => watchers'[p] = Unset
             /\ p \in Leaf \ ahead' => told'[p] = One(p, watchers'[p])
  BY <1>1, <1>4, <1>6, <1>7, <1>8 DEF WatchInv, ToldAndSeen
<1>11. ToldAndSeen'
  BY <1>2, <1>8 DEF ToldAndSeen, One
<1>9. WatchersKnow'
  BY <1>1, <1>2, <1>3, <1>4, <1>5 DEF WatchInv, WatchersKnow
<1>10. (page \in Contents)' /\ (DOMAIN told = DOMAIN watchers)' /\ (DOMAIN watchers \subseteq Leaf \cup Branch)'
  BY <1>1, <1>2 DEF WatchInv, ToldAndSeen, Contents
<1> QED BY <1>9, <1>10, <1>11 DEF WatchInv

\* For all paths, values and observers of the browser: the application knows the value of
\* what it observes, but for the three cases that WatchersKnow names (lib.rs:
\* check_observers, fire_all_observers, fire_observers_for_paths).
THEOREM WatchersAlwaysKnow == BrowserSpec => []WatchersKnow
<1>1. BrowserInit => WatchInv
  BY DEF BrowserInit, WatchInv, ToldAndSeen, WatchersKnow, Contents
<1>2. WatchInv /\ [BrowserNext]_browserVars => WatchInv'
  <2> SUFFICES ASSUME WatchInv, [BrowserNext]_browserVars PROVE WatchInv'
    OBVIOUS
  <2>0. page \in Contents
    BY DEF WatchInv
  <2>1. ASSUME NEW o \in Leaf \cup Branch, Watch(o) PROVE WatchInv'
    BY <2>1, WatchKeeps
  <2>2. ASSUME NEW o \in Leaf \cup Branch, NEW d \in Contents, SetLocally(o, d) PROVE WatchInv'
    BY <2>2, CheckAllKeeps DEF SetLocally
  <2>3. ASSUME NEW d \in Contents, LoadPage(d) PROVE WatchInv'
    BY <2>3, CheckAllKeeps DEF LoadPage
  <2>4. ASSUME NEW d \in Contents, NEW ok \in BOOLEAN, OnSync(d, ok) PROVE WatchInv'
    BY <2>4, FireAllKeeps, FireNoneKeeps DEF OnSync
  <2>5. CASE CheckNow
    BY <2>0, <2>5, CheckAllKeeps DEF CheckNow
  <2>6. ASSUME NEW c \in Remote, Comes(c) PROVE page' \in Contents
    BY <2>0, <2>6 DEF Comes, Winners
  <2>7. ASSUME NEW c \in Remote, NEW ok \in BOOLEAN, ApplyByHand(c, ok) PROVE WatchInv'
    BY <2>6, <2>7, CheckAllKeeps, FireNoneKeeps DEF ApplyByHand
  <2>8. ASSUME NEW c \in Remote, NEW ok \in BOOLEAN, OnBroadcast(c, ok) PROVE WatchInv'
    <3>1. c[1] \in Leaf
      BY DEF Remote
    <3> QED BY <2>6, <2>8, <3>1, FireForKeeps, FireNoneKeeps DEF OnBroadcast
  <2>9. CASE UNCHANGED browserVars
    BY <2>9 DEF browserVars, WatchInv, ToldAndSeen, WatchersKnow, Whole, Contents
  <2> QED BY <2>1, <2>2, <2>3, <2>4, <2>5, <2>7, <2>8, <2>9 DEF BrowserNext
<1>3. WatchInv => WatchersKnow
  BY DEF WatchInv
<1> QED BY <1>1, <1>2, <1>3, PTL DEF BrowserSpec

-----------------------------------------------------------------------------
(* Discovery. *)

\* What the channel of a browse holds.
DaemonEvents == [type : {"resolved", "removed"}, peer : Peer, usable : BOOLEAN]

\* What the last event about a peer has to say, if P are the peers that are there.
Latest(p, P) == IF p \in P THEN "resolved" ELSE "removed"

\* After every event about a peer comes one that tells how things are now.
EndsTrue(s, P) ==
  \A i \in 1..Len(s) : \E k \in i..Len(s) : s[k].peer = s[i].peer /\ s[k].type = Latest(s[i].peer, P)

\* The queue holds an event, or a removal, of a peer.
About(p, s) == \E i \in 1..Len(s) : s[i].peer = p
Removes(p, s) == \E i \in 1..Len(s) : s[i].peer = p /\ s[i].type = "removed"

\* Of whom there is nothing more to come, it is known whether they are there; our own
\* id is known only until its removal comes.
Settled(p) ==
  /\ ~About(p, events) =>
       IF browsing THEN p \in known_peers <=> p \in present \ {Me}
       ELSE p \in known_peers => p \in present \ {Me}
  /\ p = Me /\ p \in known_peers => Removes(p, events)

\* Our id is kept as long as our service is there, unless it was abandoned.
OwnId ==
  /\ local_peer_id \in {Me, NoId}
  /\ abandoned => Me \in present
  /\ Me \in present => abandoned \/ local_peer_id = Me

\* Of whom nothing is claimed.
Excepted(p) == Nested(p) \/ p \in unheard \/ (p = Me /\ abandoned)

\* The inductive invariant of discovery.
NewsInv ==
  /\ events \in Seq(DaemonEvents) /\ (~browsing => events = <<>>)
  /\ present \subseteq Peer /\ IsFiniteSet(present)
  /\ OwnId
  /\ EndsTrue(events, present)
  /\ \A p \in Peer : Excepted(p) \/ Settled(p)

\* An event that tells how things are now, after the others.
LEMMA HearsLast ==
  ASSUME NEW s \in Seq(DaemonEvents), NEW P, NEW Q, NEW e \in DaemonEvents, EndsTrue(s, P),
         e.type = Latest(e.peer, Q), \A p \in Peer \ {e.peer} : p \in P <=> p \in Q
  PROVE  /\ EndsTrue(Append(s, e), Q)
         /\ \A p : About(p, Append(s, e)) <=> About(p, s) \/ p = e.peer
         /\ \A p : Removes(p, s) => Removes(p, Append(s, e))
<1> DEFINE t == Append(s, e)
<1>1. /\ Len(t) = Len(s) + 1 /\ Len(s) \in Nat
      /\ \A i \in 1..Len(s) : t[i] = s[i] /\ s[i] \in DaemonEvents
      /\ t[Len(s) + 1] = e
  OBVIOUS
<1> HIDE DEF t
<1>2. ASSUME NEW i \in 1..Len(t)
      PROVE  \E k \in i..Len(t) : t[k].peer = t[i].peer /\ t[k].type = Latest(t[i].peer, Q)
  <2>1. CASE t[i].peer = e.peer
    <3>1. Len(t) \in i..Len(t) /\ t[Len(t)] = e
      BY <1>1
    <3> QED BY <2>1, <3>1
  <2>2. CASE t[i].peer # e.peer
    <3>1. i \in 1..Len(s) /\ t[i] = s[i] /\ s[i].peer \in Peer
      BY <1>1, <2>2 DEF DaemonEvents
    <3>2. PICK k \in i..Len(s) : s[k].peer = s[i].peer /\ s[k].type = Latest(s[i].peer, P)
      BY <3>1 DEF EndsTrue
    <3>3. k \in i..Len(t) /\ t[k] = s[k]
      BY <1>1, <3>1
    <3>4. Latest(s[i].peer, P) = Latest(s[i].peer, Q)
      BY <2>2, <3>1 DEF Latest
    <3> QED BY <3>1, <3>2, <3>3, <3>4
  <2> QED BY <2>1, <2>2
<1>3. ASSUME NEW p PROVE About(p, t) <=> About(p, s) \/ p = e.peer
  BY <1>1 DEF About
<1>4. ASSUME NEW p PROVE Removes(p, s) => Removes(p, t)
  BY <1>1 DEF Removes
<1> QED BY <1>2, <1>3, <1>4 DEF EndsTrue, t

\* What the head told is no longer there; if it was the last of a peer, it was true.
LEMMA TakesFirst ==
  ASSUME NEW s \in Seq(DaemonEvents), NEW P, EndsTrue(s, P), s # <<>>
  PROVE  /\ EndsTrue(Tail(s), P)
         /\ \A p : About(p, s) <=> About(p, Tail(s)) \/ p = Head(s).peer
         /\ Head(s).type # Latest(Head(s).peer, P) =>
              \E i \in 1..Len(Tail(s)) : /\ Tail(s)[i].peer = Head(s).peer
                                         /\ Tail(s)[i].type = Latest(Head(s).peer, P)
         /\ \A p : Removes(p, s) /\ Head(s).type = "resolved" => Removes(p, Tail(s))
         /\ \A p : Removes(p, s) /\ Head(s).peer # p => Removes(p, Tail(s))
<1> DEFINE t == Tail(s)
<1>1. /\ Len(t) = Len(s) - 1 /\ Len(s) \in Nat \ {0}
      /\ \A i \in 1..Len(t) : t[i] = s[i + 1]
      /\ Head(s) = s[1]
  OBVIOUS
<1> HIDE DEF t
<1>2. \A i \in 2..Len(s) : i - 1 \in 1..Len(t) /\ s[i] = t[i - 1]
  <2> TAKE i \in 2..Len(s)
  <2>1. i - 1 \in 1..Len(t) /\ (i - 1) + 1 = i
    BY <1>1
  <2> QED BY <1>1, <2>1
<1>3. ASSUME NEW i \in 1..Len(t)
      PROVE  \E k \in i..Len(t) : t[k].peer = t[i].peer /\ t[k].type = Latest(t[i].peer, P)
  <2>1. i + 1 \in 1..Len(s) /\ t[i] = s[i + 1]
    BY <1>1
  <2>2. PICK k \in i + 1..Len(s) : s[k].peer = s[i + 1].peer /\ s[k].type = Latest(s[i + 1].peer, P)
    BY <2>1 DEF EndsTrue
  <2>3. k - 1 \in i..Len(t) /\ s[k] = t[k - 1]
    BY <1>1, <1>2, <2>1
  <2> QED BY <2>1, <2>2, <2>3
<1>4. ASSUME NEW p PROVE About(p, s) <=> About(p, t) \/ p = Head(s).peer
  <2>1. ASSUME About(p, t) PROVE About(p, s)
    <3>1. PICK i \in 1..Len(t) : t[i].peer = p
      BY <2>1 DEF About
    <3>2. i + 1 \in 1..Len(s) /\ s[i + 1].peer = p
      BY <1>1, <3>1
    <3> QED BY <3>2 DEF About
  <2>2. ASSUME About(p, s), p # s[1].peer PROVE About(p, t)
    <3>1. PICK i \in 1..Len(s) : s[i].peer = p
      BY <2>2 DEF About
    <3>2. i \in 2..Len(s)
      BY <1>1, <2>2, <3>1
    <3> QED BY <1>2, <3>1, <3>2 DEF About
  <2>3. 1 \in 1..Len(s)
    BY <1>1
  <2> QED BY <1>1, <2>1, <2>2, <2>3 DEF About
<1>5. ASSUME Head(s).type # Latest(Head(s).peer, P)
      PROVE  \E i \in 1..Len(t) : t[i].peer = Head(s).peer /\ t[i].type = Latest(Head(s).peer, P)
  <2>1. PICK k \in 1..Len(s) : s[k].peer = s[1].peer /\ s[k].type = Latest(s[1].peer, P)
    BY <1>1 DEF EndsTrue
  <2>2. k \in 2..Len(s)
    BY <1>1, <1>5, <2>1
  <2> QED BY <1>1, <1>2, <2>1, <2>2
<1>6. ASSUME NEW p, Removes(p, s), Head(s).type = "resolved" \/ Head(s).peer # p PROVE Removes(p, t)
  <2>1. PICK i \in 1..Len(s) : s[i].peer = p /\ s[i].type = "removed"
    BY <1>6 DEF Removes
  <2>2. i \in 2..Len(s)
    BY <1>1, <1>6, <2>1
  <2> QED BY <1>2, <2>1, <2>2 DEF Removes
<1> QED BY <1>3, <1>4, <1>5, <1>6 DEF EndsTrue, t

\* A sequence of all members of a finite set has every one.
LEMMA EveryoneTold ==
  ASSUME NEW S, IsFiniteSet(S), NEW order \in SetToSeqs(S)
  PROVE  /\ order \in Seq(S)
         /\ \A p \in S : \E i \in DOMAIN order : order[i] = p
<1> DEFINE n == Cardinality(S)
<1>1. n \in Nat /\ order \in [1..n -> S] /\ \A i, k \in 1..n : i # k => order[i] # order[k]
  BY FS_CardinalityType DEF SetToSeqs
<1>2. IsFiniteSet(1..n) /\ Cardinality(1..n) = n
  BY <1>1, FS_Interval
<1>3. order \in Injection(1..n, S)
  BY <1>1 DEF Injection, IsInjective
<1>4. order \in Surjection(1..n, S)
  BY <1>2, <1>3, FS_Injection
<1> QED BY <1>1, <1>4 DEF Surjection

\* Who comes or goes is told to a browse, after all else; without one, going is unheard.
LEMMA HearsKeeps ==
  ASSUME NewsInv, NEW p \in Peer, NEW type, NEW usable \in BOOLEAN, Hears(type, p, usable),
         UNCHANGED <<browsing, known_peers>>, unheard \subseteq unheard',
         \/ present' = present \cup {p} /\ type = "resolved"
         \/ present' = present \ {p} /\ type = "removed" /\ (~browsing => p \in unheard'),
         OwnId', abandoned' = abandoned \/ (p = Me /\ type = "removed")
  PROVE  NewsInv'
<1> DEFINE e == Event(type, p, usable)
<1>1. e \in DaemonEvents /\ e.peer = p /\ e.type = type
  BY DEF Event, DaemonEvents
<1>2. present' \subseteq Peer /\ IsFiniteSet(present')
  BY FS_AddElement, FS_RemoveElement DEF NewsInv
<1>3. type = Latest(p, present') /\ \A q \in Peer \ {p} : q \in present <=> q \in present'
  BY DEF Latest
<1>4. events' = IF browsing THEN Append(events, e) ELSE events
  BY DEF Hears
<1> HIDE DEF e
<1>5. events \in Seq(DaemonEvents) /\ EndsTrue(events, present)
  BY DEF NewsInv
<1>6. CASE browsing
  <2>1. events' = Append(events, e) /\ events' \in Seq(DaemonEvents)
    BY <1>1, <1>4, <1>5, <1>6
  <2>2. /\ EndsTrue(Append(events, e), present')
        /\ \A q : About(q, Append(events, e)) <=> About(q, events) \/ q = p
        /\ \A q : Removes(q, events) => Removes(q, Append(events, e))
    BY <1>1, <1>3, <1>5, HearsLast
  <2>3. EndsTrue(events, present)'
    BY <2>1, <2>2 DEF EndsTrue, Latest
  <2>4. \A q : /\ About(q, events)' <=> About(q, events) \/ q = p
               /\ Removes(q, events) => Removes(q, events)'
    BY <2>1, <2>2 DEF About, Removes
  <2>5. type = "removed" => Removes(p, events)'
    <3>1. Len(Append(events, e)) \in 1..Len(Append(events, e))
          /\ Append(events, e)[Len(Append(events, e))] = e
      BY <1>5
    <3> QED BY <1>1, <2>1, <3>1 DEF Removes
  <2>6. ASSUME NEW q \in Peer, ~Excepted(q)' PROVE Settled(q)'
    <3>1. Settled(q) \/ (q = p /\ type = "removed")
      BY <2>6 DEF NewsInv, Excepted, Nested
    <3> QED BY <1>3, <1>6, <2>4, <2>5, <3>1 DEF Settled
  <2> QED BY <1>2, <1>6, <2>1, <2>3, <2>6 DEF NewsInv
<1>7. CASE ~browsing
  <2>1. events = <<>> /\ events' = <<>>
    BY <1>4, <1>7 DEF NewsInv
  <2>2. EndsTrue(events, present)' /\ events' \in Seq(DaemonEvents)
    BY <2>1 DEF EndsTrue
  <2>3. ASSUME NEW q \in Peer, ~Excepted(q)' PROVE Settled(q)'
    <3>0. q # p \/ type = "resolved"
      BY <1>7, <2>3 DEF Excepted
    <3>1. Settled(q)
      BY <2>3, <3>0 DEF NewsInv, Excepted, Nested
    <3>2. ~About(q, events) /\ ~Removes(q, events)
      BY <2>1 DEF About, Removes
    <3>3. q \in known_peers => q \in present \ {Me}
      BY <1>7, <3>1, <3>2 DEF Settled
    <3> QED BY <1>3, <1>7, <3>0, <3>2, <3>3 DEF Settled
  <2> QED BY <1>2, <1>7, <2>1, <2>2, <2>3 DEF NewsInv
<1> QED BY <1>6, <1>7

\* As long as nothing is told and nobody comes or goes, all stays as it is.
LEMMA SameNewsKeeps ==
  ASSUME NewsInv, UNCHANGED <<present, events, browsing, known_peers, unheard>>, OwnId',
         abandoned => abandoned'
  PROVE  NewsInv'
<1>1. \A q \in Peer : Excepted(q) => Excepted(q)'
  BY DEF Excepted, Nested
<1>2. \A q \in Peer : Settled(q) => Settled(q)'
  BY DEF Settled, About, Removes
<1>3. EndsTrue(events, present)'
  BY DEF NewsInv, EndsTrue, Latest
<1> QED BY <1>1, <1>2, <1>3 DEF NewsInv

\* A browse begins with everyone who is there.
LEMMA StartKeeps == ASSUME NewsInv, StartDiscovery PROVE NewsInv'
<1>1. PICK order \in SetToSeqs(present) :
        events' = [i \in DOMAIN order |-> Event("resolved", order[i], TRUE)]
  BY DEF StartDiscovery
<1>2. /\ order \in Seq(present) /\ \A p \in present : \E i \in DOMAIN order : order[i] = p
      /\ present \subseteq Peer /\ events = <<>> /\ ~browsing
  BY EveryoneTold DEF NewsInv, StartDiscovery
<1>3. /\ DOMAIN order = 1..Len(order) /\ Len(order) \in Nat
      /\ \A i \in 1..Len(order) : order[i] \in present
  BY <1>2
<1>4. \A i \in 1..Len(order) : /\ events'[i] \in DaemonEvents
                               /\ events'[i].peer = order[i] /\ events'[i].type = "resolved"
  BY <1>1, <1>2, <1>3 DEF Event, DaemonEvents
<1>5. events' \in Seq(DaemonEvents) /\ Len(events') = Len(order)
  <2>1. DOMAIN events' = 1..Len(order) /\ events' = [i \in 1..Len(order) |-> events'[i]]
    BY <1>1, <1>3
  <2>2. events' \in [1..Len(order) -> DaemonEvents]
    BY <1>4, <2>1
  <2> QED BY <1>3, <2>2
<1>6. EndsTrue(events, present)'
  <2>1. \A i \in 1..Len(events') : /\ i \in i..Len(events')
                                   /\ events'[i].type = Latest(events'[i].peer, present)
    BY <1>3, <1>4, <1>5 DEF Latest
  <2>2. present' = present
    BY DEF StartDiscovery
  <2> QED BY <2>1, <2>2 DEF EndsTrue, Latest
<1>7. \A p \in present : About(p, events)'
  BY <1>2, <1>3, <1>4, <1>5 DEF About
<1>8. ASSUME NEW q \in Peer, ~Excepted(q)' PROVE Settled(q)'
  <2>1. Settled(q) /\ ~About(q, events) /\ ~Removes(q, events)
    BY <1>2, <1>8 DEF NewsInv, About, Removes, Excepted, Nested, StartDiscovery, advertVars
  <2>2. q \in known_peers => q \in present \ {Me}
    BY <1>2, <2>1 DEF Settled
  <2>3. browsing' /\ UNCHANGED <<present, known_peers>>
    BY DEF StartDiscovery
  <2> QED BY <1>7, <2>2, <2>3 DEF Settled
<1> QED BY <1>5, <1>6, <1>8 DEF NewsInv, StartDiscovery, OwnId, advertVars

\* What the channel still held is unheard.
LEMMA StopKeeps == ASSUME NewsInv, StopDiscovery PROVE NewsInv'
<1>1. /\ browsing /\ ~browsing' /\ events' = <<>> /\ UNCHANGED <<present, local_peer_id, abandoned, known_peers>>
      /\ unheard' = unheard \cup {e.peer : e \in ToSet(events)}
  BY DEF StopDiscovery, advertVars
<1>2. \A q : About(q, events) => q \in unheard'
  BY <1>1 DEF About, ToSet, NewsInv
<1>3. ASSUME NEW q \in Peer, ~Excepted(q)' PROVE Settled(q)'
  <2>1. Settled(q) /\ ~About(q, events)
    BY <1>1, <1>2, <1>3 DEF NewsInv, Excepted, Nested
  <2>2. ~Removes(q, events)
    BY <2>1 DEF About, Removes
  <2> QED BY <1>1, <2>1, <2>2 DEF Settled
<1>4. EndsTrue(events, present)' /\ events' \in Seq(DaemonEvents)
  BY <1>1 DEF EndsTrue
<1> QED BY <1>1, <1>3, <1>4 DEF NewsInv, OwnId

\* What next_event leaves in the channel.
LEMMA ReceiveKeeps ==
  ASSUME NewsInv, NEW type, Receive(type), NEW p, p = Head(events).peer
  PROVE  /\ events # <<>> /\ browsing /\ Head(events).type = type
         /\ p \in Peer /\ Head(events).type \in {"resolved", "removed"}
         /\ UNCHANGED <<present, local_peer_id, abandoned, browsing>> /\ OwnId' /\ events' \in Seq(DaemonEvents)
         /\ EndsTrue(events, present)'
         /\ \A q : About(q, events) <=> About(q, events)' \/ q = p
         /\ type # Latest(p, present) =>
              /\ About(p, events)'
              /\ Latest(p, present) = "removed" => Removes(p, events)'
         /\ \A q : Removes(q, events) /\ (type = "resolved" \/ p # q) =>
              Removes(q, events)'
<1>1. /\ events # <<>> /\ browsing /\ events' = Tail(events) /\ Head(events).type = type
      /\ events \in Seq(DaemonEvents) /\ EndsTrue(events, present)
      /\ UNCHANGED <<present, local_peer_id, abandoned, browsing>> /\ OwnId'
  BY DEF Receive, NewsInv, OwnId, advertVars
<1>2. Head(events) \in DaemonEvents /\ Tail(events) \in Seq(DaemonEvents)
  BY <1>1
<1>3. /\ EndsTrue(Tail(events), present)
      /\ \A q : About(q, events) <=> About(q, Tail(events)) \/ q = p
      /\ type # Latest(p, present) =>
           \E i \in 1..Len(Tail(events)) : /\ Tail(events)[i].peer = p
                                           /\ Tail(events)[i].type = Latest(p, present)
      /\ \A q : Removes(q, events) /\ type = "resolved" => Removes(q, Tail(events))
      /\ \A q : Removes(q, events) /\ p # q => Removes(q, Tail(events))
  BY <1>1, TakesFirst
<1>4. EndsTrue(events, present)'
  BY <1>1, <1>3 DEF EndsTrue, Latest
<1>5. \A q : /\ About(q, events)' <=> About(q, Tail(events))
             /\ Removes(q, events)' <=> Removes(q, Tail(events))
  BY <1>1 DEF About, Removes
<1>6. type # Latest(p, present) =>
        /\ About(p, Tail(events))
        /\ Latest(p, present) = "removed" => Removes(p, Tail(events))
  <2> SUFFICES ASSUME type # Latest(p, present)
               PROVE  /\ About(p, Tail(events))
                      /\ Latest(p, present) = "removed" =>
                           Removes(p, Tail(events))
    OBVIOUS
  <2>1. PICK i \in 1..Len(Tail(events)) : /\ Tail(events)[i].peer = p
                                         /\ Tail(events)[i].type = Latest(p, present)
    BY <1>3
  <2> QED BY <2>1 DEF About, Removes
<1> QED BY <1>1, <1>2, <1>3, <1>4, <1>5, <1>6 DEF DaemonEvents

\* PeerDiscovered, for others who are there.
LEMMA ResolvedKeeps == ASSUME NewsInv, ServiceResolved PROVE NewsInv'
<1>0. PICK p : p = Head(events).peer
  OBVIOUS
<1> DEFINE heard == Head(events).usable /\ ~IsOurs(p)
<1>1. /\ known_peers' = IF heard THEN known_peers \cup {p} ELSE known_peers
      /\ unheard' = IF heard THEN unheard \ {p} ELSE IF Head(events).usable THEN unheard ELSE unheard \cup {p}
      /\ Receive("resolved")
  BY <1>0 DEF ServiceResolved
<1>2. IsOurs(p) => p = Me
  BY DiscoveryConstantsOK, <1>0, <1>1, ReceiveKeeps DEF IsOurs, NewsInv, OwnId
<1>3. ~IsOurs(Me) /\ ~abandoned => Me \notin present
  BY DiscoveryConstantsOK DEF IsOurs, NewsInv, OwnId
<1>4. /\ browsing /\ p \in Peer /\ UNCHANGED <<present, local_peer_id, abandoned, browsing>>
      /\ \A q : About(q, events) <=> About(q, events)' \/ q = p
      /\ "resolved" # Latest(p, present) =>
           About(p, events)' /\ (Latest(p, present) = "removed" => Removes(p, events)')
      /\ \A q : Removes(q, events) => Removes(q, events)'
  BY <1>0, <1>1, ReceiveKeeps
<1>5. p \notin present => About(p, events)' /\ Removes(p, events)'
  BY <1>4 DEF Latest
<1> HIDE DEF heard
<1>6. ASSUME NEW q \in Peer, ~Excepted(q)' PROVE Settled(q)'
  <2>1. CASE q # p
    <3>1. /\ Settled(q) /\ (About(q, events) <=> About(q, events)')
          /\ (q \in known_peers <=> q \in known_peers')
      BY <1>1, <1>4, <1>6, <2>1 DEF NewsInv, Excepted, Nested
    <3> QED BY <1>4, <3>1 DEF Settled
  <2>2. CASE q = p /\ heard
    <3>1. Me \notin present \/ p # Me
      BY <1>3, <1>4, <1>6, <2>2 DEF heard, Excepted
    <3>2. p \in known_peers' /\ browsing' /\ present' = present
      BY <1>1, <1>4, <2>2
    <3>3. CASE p \in present
      BY <2>2, <3>1, <3>2, <3>3 DEF Settled
    <3>4. CASE p \notin present
      BY <1>5, <2>2, <3>4 DEF Settled
    <3> QED BY <3>3, <3>4
  <2>3. CASE q = p /\ ~heard
    <3>1. Settled(q) /\ IsOurs(p) /\ known_peers' = known_peers
      BY <1>1, <1>4, <1>6, <2>3 DEF NewsInv, heard, Excepted, Nested
    <3>2. p = Me
      BY <1>2, <3>1
    <3>3. Me \in known_peers => Removes(Me, events)'
      BY <1>4, <2>3, <3>1, <3>2 DEF Settled
    <3>4. Removes(Me, events)' => About(Me, events)'
      BY DEF About, Removes
    <3> QED BY <1>4, <2>3, <3>1, <3>2, <3>3, <3>4 DEF Settled
  <2> QED BY <2>1, <2>2, <2>3
<1>7. /\ events' \in Seq(DaemonEvents) /\ EndsTrue(events, present)' /\ browsing' /\ OwnId' /\ UNCHANGED present
  BY <1>0, <1>1, ReceiveKeeps
<1> QED BY <1>6, <1>7 DEF NewsInv

\* PeerLost: of an id that is in no other name, exactly that peer.
LEMMA RemovedKeeps == ASSUME NewsInv, ServiceRemoved PROVE NewsInv'
<1>0. PICK p : p = Head(events).peer
  OBVIOUS
<1>1. PICK id \in Named(p) : known_peers' = known_peers \ {id}
  BY <1>0 DEF ServiceRemoved
<1>2. unheard' = unheard \ {p} /\ Receive("removed")
  BY <1>0 DEF ServiceRemoved
<1>3. /\ browsing /\ p \in Peer /\ UNCHANGED <<present, local_peer_id, abandoned, browsing>>
      /\ \A q : About(q, events) <=> About(q, events)' \/ q = p
      /\ "removed" # Latest(p, present) => About(p, events)'
      /\ \A q : Removes(q, events) /\ p # q => Removes(q, events)'
  BY <1>0, <1>2, ReceiveKeeps
<1>4. p \in present => About(p, events)'
  BY <1>3 DEF Latest
<1>5. id = NoId \/ id \in InName[p]
  BY <1>1 DEF Named
<1>6. NoId \notin Peer /\ p \in InName[p] /\ InName[p] \subseteq Peer
  BY <1>3, DiscoveryConstantsOK
<1>7. ASSUME NEW q \in Peer, ~Excepted(q)' PROVE Settled(q)'
  <2>1. CASE q # p
    <3>1. q \notin InName[p]
      BY <1>3, <1>7, <2>1 DEF Nested, Excepted
    <3>2. q # id
      BY <1>5, <1>6, <3>1
    <3>3. /\ Settled(q) /\ (About(q, events) <=> About(q, events)')
          /\ (q \in known_peers <=> q \in known_peers')
      BY <1>1, <1>2, <1>3, <1>7, <2>1, <3>2 DEF NewsInv, Excepted, Nested
    <3> QED BY <1>3, <2>1, <3>3 DEF Settled
  <2>2. CASE q = p
    <3>1. \A r \in InName[p] : r = p
      BY <1>3, <1>6, <1>7, <2>2 DEF Nested, Excepted
    <3>2. p \in known_peers => id = p
      BY <1>1, <1>6, <3>1 DEF Named
    <3>3. p \notin known_peers'
      BY <1>1, <3>2
    <3>4. browsing' /\ present' = present
      BY <1>3
    <3> QED BY <1>4, <2>2, <3>3, <3>4 DEF Settled
  <2> QED BY <2>1, <2>2
<1>8. /\ events' \in Seq(DaemonEvents) /\ EndsTrue(events, present)' /\ browsing' /\ OwnId' /\ UNCHANGED present
  BY <1>0, <1>2, ReceiveKeeps
<1> QED BY <1>7, <1>8 DEF NewsInv

\* For all peers, and whatever names contain whatever ids: once next_event has taken all
\* events, exactly the others who are there are known, but for nested ids, what nobody heard,
\* and ourselves once our id is forgotten while our service is registered (mdns.rs:
\* next_event, stop_advertising).
THEOREM AlwaysKnowsWhoIsThere == DiscoverySpec => []KnowsWhoIsThere
<1>1. DiscoveryInit => NewsInv
  <2> SUFFICES ASSUME DiscoveryInit PROVE NewsInv
    OBVIOUS
  <2>1. EndsTrue(events, present) /\ events \in Seq(DaemonEvents)
    BY DEF DiscoveryInit, EndsTrue
  <2>2. \A p : Settled(p)
    BY DEF DiscoveryInit, Settled
  <2> QED BY <2>1, <2>2, FS_EmptySet DEF DiscoveryInit, NewsInv, OwnId
<1>2. NewsInv /\ [DiscoveryNext]_discoveryVars => NewsInv'
  <2> SUFFICES ASSUME NewsInv, [DiscoveryNext]_discoveryVars PROVE NewsInv'
    OBVIOUS
  <2>0. Me \in Peer /\ NoId # Me /\ OwnId
    BY DiscoveryConstantsOK DEF NewsInv
  <2>1. ASSUME NEW p \in Peer, NEW usable \in BOOLEAN, Appear(p, usable) PROVE NewsInv'
    <3>1. OwnId' /\ abandoned' = abandoned
      BY <2>0, <2>1 DEF Appear, OwnId, advertVars
    <3> QED BY <2>0, <2>1, <3>1, HearsKeeps DEF Appear
  <2>2. ASSUME NEW p \in Peer, Vanish(p) PROVE NewsInv'
    <3>1. OwnId' /\ abandoned' = abandoned
      BY <2>0, <2>2 DEF Vanish, OwnId, advertVars
    <3> QED BY <2>0, <2>2, <3>1, HearsKeeps DEF Vanish
  <2>3. CASE Advertise
    <3>1. OwnId' /\ abandoned' = abandoned /\ UNCHANGED <<browsing, known_peers, unheard>>
      BY <2>0, <2>3 DEF Advertise, OwnId
    <3>2. CASE present' = present \cup {Me} /\ Hears("resolved", Me, TRUE)
      BY <2>0, <3>1, <3>2, HearsKeeps
    <3>3. CASE UNCHANGED <<present, events>>
      BY <3>1, <3>3, SameNewsKeeps
    <3> QED BY <2>3, <3>2, <3>3 DEF Advertise
  <2>4. CASE StopAdvertising
    <3>1. UNCHANGED <<browsing, known_peers>>
      BY <2>4 DEF StopAdvertising
    <3>2. CASE Unregister
      <4>1. OwnId'
        BY <2>0, <3>2 DEF Unregister, OwnId
      <4>2. CASE Me \in present
        BY <2>0, <3>1, <3>2, <4>1, <4>2, HearsKeeps DEF Unregister
      <4>3. CASE Me \notin present
        <5>1. present' = present /\ UNCHANGED <<events, unheard>> /\ ~abandoned
          BY <2>0, <3>2, <4>3 DEF Unregister, OwnId
        <5> QED BY <3>1, <4>1, <5>1, SameNewsKeeps
      <4> QED BY <4>2, <4>3
    <3>3. CASE UnregisterFails
      BY <2>0, <3>1, <3>3, SameNewsKeeps DEF UnregisterFails, OwnId
    <3>4. CASE Forget
      <4>1. OwnId'
        BY <2>0, <3>4 DEF Forget, OwnId
      <4> QED BY <3>1, <3>4, <4>1, SameNewsKeeps DEF Forget
    <3> QED BY <2>4, <3>2, <3>3, <3>4 DEF StopAdvertising
  <2>5. CASE UNCHANGED discoveryVars
    BY <2>0, <2>5, SameNewsKeeps DEF discoveryVars, advertVars, OwnId
  <2> QED BY <2>1, <2>2, <2>3, <2>4, <2>5, StartKeeps, StopKeeps, ResolvedKeeps, RemovedKeeps
          DEF DiscoveryNext
<1>3. NewsInv => KnowsWhoIsThere
  <2> SUFFICES ASSUME NewsInv, browsing, events = <<>>, NEW p \in Peer, ~Excepted(p)
               PROVE  p \in known_peers <=> p \in present \ {Me}
    BY DEF KnowsWhoIsThere, Excepted
  <2>1. Settled(p) /\ ~About(p, events)
    BY DEF NewsInv, About
  <2> QED BY <2>1 DEF Settled
<1> QED BY <1>1, <1>2, <1>3, PTL DEF DiscoverySpec

-----------------------------------------------------------------------------
(* Ephemeral messages of the LAN transport. *)

\* What may be in the air, and the types of the datagram model.
Datagrams == [to : Address, id : Node, src : Address]

LanTypes ==
  /\ socket \in [Node -> 0..MaxStarts]
  /\ peers \in [Node -> [Node -> Address \cup {NoEntry, NoAddress}]]
  /\ dialing \subseteq Node \X Node \X ({NoAddress} \cup Address)
  /\ \A t \in dialing : <<t[1], t[2]>> \in Dials
  /\ air \subseteq Datagrams
  /\ exact \subseteq Dials

\* m's address is on its way to n, was lost, or n's entry took it.
OnItsWay(m, n) == Datagram(m, Local(n)) \in air
Taught(m, n) == OnItsWay(m, n) \/ <<n, m>> \in taken \cup unlearned

\* A dialler that was given the present address sends to it, its datagram went out, and the
\* other's entry, if there is one, has its address unless the datagram missed it or is to come.
Way(m, n) ==
  <<m, n>> \in exact /\ Connected(m, n) =>
    /\ peers[m][n] = Local(n) \/ <<m, n>> \in late
    /\ Taught(m, n)
    /\ Connected(n, m) =>
         peers[n][m] = Local(m) \/ <<n, m>> \in late \cup unlearned \/ OnItsWay(m, n)

\* The inductive invariant of the datagrams.
WayInv == LanTypes /\ \A m, n \in Node : Way(m, n)

\* Nobody dials itself.
LEMMA OthersAreDialled ==
  ASSUME NEW m, NEW n, <<m, n>> \in Dials
  PROVE  m \in Node /\ n \in Node /\ m # n
BY EphemeralConstantsOK

\* What a way depends on.
LEMMA WayStays ==
  ASSUME NEW m \in Node, NEW n \in Node, Way(m, n),
         <<m, n>> \in exact' => <<m, n>> \in exact,
         peers'[m][n] = peers[m][n],
         peers'[n][m] = peers[n][m] \/ peers'[n][m] = NoEntry,
         socket'[m] = socket[m], socket'[n] = socket[n],
         <<m, n>> \in late => <<m, n>> \in late',
         <<n, m>> \in late => <<n, m>> \in late',
         <<n, m>> \in unlearned => <<n, m>> \in unlearned',
         <<n, m>> \in taken => <<n, m>> \in taken',
         Datagram(m, Local(n)) \in air => Datagram(m, Local(n)) \in air' \/ <<n, m>> \in unlearned'
  PROVE  Way(m, n)'
<1>1. /\ Local(n)' = Local(n) /\ Local(m)' = Local(m)
      /\ Datagram(m, Local(n))' = Datagram(m, Local(n))
  BY DEF Local, Datagram
<1> QED BY <1>1 DEF Way, Connected, Taught, OnItsWay

\* An entry of j for i that is made anew forgets what an earlier one took, and says so: the
\* way from i, if it is not the one that i made with this step, is open again.
LEMMA NewEntryOpensWay ==
  ASSUME NEW i \in Node, NEW j \in Node, i # j, Way(i, j), NEW h, NEW u, NewEntry(j, i, h, u),
         <<j, i>> \in taken => <<j, i>> \in h, <<j, i>> \in unlearned => <<j, i>> \in u,
         <<i, j>> \in exact' => <<i, j>> \in exact,
         peers'[i][j] = peers[i][j], UNCHANGED socket,
         <<i, j>> \in late => <<i, j>> \in late', air \subseteq air'
  PROVE  Way(i, j)'
<1>1. /\ Local(j)' = Local(j) /\ Datagram(i, Local(j))' = Datagram(i, Local(j))
  BY DEF Local, Datagram
<1>2. <<j, i>> \in taken \cup unlearned => <<j, i>> \in unlearned'
  BY DEF NewEntry
<1> QED BY <1>1, <1>2 DEF Way, Connected, Taught, OnItsWay

\* Of the pairs other than <<j, i>> a new entry changes nothing.
LEMMA NewEntryOfOthers ==
  ASSUME NEW i, NEW j, NEW h, NEW u, NewEntry(j, i, h, u), NEW p, p # <<j, i>>
  PROVE  /\ p \in h <=> p \in taken'
         /\ p \in u <=> p \in unlearned'
         /\ p \in late <=> p \in late'
BY DEF NewEntry

\* A dial that is under way changes no entry.
LEMMA DialKeepsWays ==
  ASSUME WayInv, NEW i \in Node, NEW j \in Node, NEW to \in {NoAddress} \cup Address,
         DialLan(i, j, to) \/ DialFailsLan(i, j, to)
  PROVE  WayInv'
<1>1. UNCHANGED <<socket, peers, air, exact, taken, unlearned, late>>
  BY DEF DialLan, DialFailsLan, learnVars
<1>2. /\ dialing' \subseteq Node \X Node \X ({NoAddress} \cup Address)
      /\ \A t \in dialing' : <<t[1], t[2]>> \in Dials
  <2>1. CASE DialLan(i, j, to)
    <3>1. dialing' = dialing \cup {<<i, j, to>>} /\ <<i, j>> \in Dials
      BY <2>1 DEF DialLan
    <3>2. <<i, j, to>> \in Node \X Node \X ({NoAddress} \cup Address)
      OBVIOUS
    <3>3. \A t \in dialing' : t = <<i, j, to>> \/ t \in dialing
      BY <3>1
    <3>4. ASSUME NEW t \in dialing' PROVE <<t[1], t[2]>> \in Dials
      <4>1. CASE t \in dialing
        BY <4>1 DEF WayInv, LanTypes
      <4>2. CASE t = <<i, j, to>>
        BY <3>1, <4>2
      <4> QED BY <3>3, <4>1, <4>2
    <3> QED BY <3>1, <3>2, <3>4 DEF WayInv, LanTypes
  <2>2. CASE DialFailsLan(i, j, to)
    <3>1. dialing' \subseteq dialing
      BY <2>2 DEF DialFailsLan
    <3> QED BY <3>1 DEF WayInv, LanTypes
  <2> QED BY <2>1, <2>2
<1>3. LanTypes'
  BY <1>1, <1>2 DEF WayInv, LanTypes, Address, Datagrams
<1>4. ASSUME NEW m \in Node, NEW n \in Node PROVE Way(m, n)'
  <2>1. Way(m, n)
    BY DEF WayInv
  <2> QED BY <1>1, <2>1, WayStays
<1> QED BY <1>3, <1>4 DEF WayInv

\* The dialler's entry with the present address comes with a ping to it.
LEMMA EnterKeepsWays ==
  ASSUME WayInv, NEW i \in Node, NEW j \in Node, NEW to \in {NoAddress} \cup Address, Enter(i, j, to)
  PROVE  WayInv'
<1>1. /\ <<i, j, to>> \in dialing /\ dialing' = dialing \ {<<i, j, to>>}
      /\ peers' = [peers EXCEPT ![i][j] = to]
      /\ air' = air \cup Ping(i, to)
      /\ exact' = IF to = Local(j) THEN exact \cup {<<i, j>>} ELSE exact \ {<<i, j>>}
      /\ NewEntry(i, j, taken \ {<<j, i>>}, unlearned \ {<<j, i>>})
      /\ socket' = socket
  BY DEF Enter
<1>2. <<i, j>> \in Dials /\ i # j
  <2>1. <<i, j>> \in Dials
    BY <1>1 DEF WayInv, LanTypes
  <2> QED BY <2>1, OthersAreDialled
<1>3. \A n \in Node : Local(n) \in Address /\ Local(n) # NoAddress /\ Local(n)' = Local(n)
  BY <1>1, EphemeralConstantsOK DEF WayInv, LanTypes, Local, Address
<1>4. LanTypes'
  <2>1. air' \subseteq Datagrams
    BY <1>1, <1>3 DEF WayInv, LanTypes, Ping, Datagram, Datagrams
  <2>2. peers' \in [Node -> [Node -> Address \cup {NoEntry, NoAddress}]]
    BY <1>1 DEF WayInv, LanTypes
  <2>3. exact' \subseteq Dials
    BY <1>1, <1>2 DEF WayInv, LanTypes
  <2>4. dialing' \subseteq dialing
    BY <1>1
  <2> QED BY <1>1, <2>1, <2>2, <2>3, <2>4 DEF WayInv, LanTypes, Address, Datagrams
<1>5. ASSUME NEW m \in Node, NEW n \in Node PROVE Way(m, n)'
  <2>0. Way(m, n)
    BY DEF WayInv
  <2>1. CASE m = i /\ n = j
    <3>1. <<i, j>> \in exact' => to = Local(j)
      BY <1>1
    <3>2. peers'[i][j] = to
      BY <1>1 DEF WayInv, LanTypes
    <3>3. to = Local(j) => Datagram(i, Local(j)) \in air'
      BY <1>1, <1>3 DEF Ping
    <3>4. Datagram(i, Local(j))' = Datagram(i, Local(j)) /\ Local(j)' = Local(j)
      BY <1>1 DEF Datagram, Local
    <3> QED BY <2>1, <3>1, <3>2, <3>3, <3>4 DEF Way, Taught, OnItsWay
  <2>2. CASE m = j /\ n = i
    <3>1. peers'[j][i] = peers[j][i] /\ <<j, i>> # <<i, j>>
      BY <1>1, <1>2 DEF WayInv, LanTypes
    <3>2. /\ <<i, j>> \in taken => <<i, j>> \in taken \ {<<j, i>>}
          /\ <<i, j>> \in unlearned => <<i, j>> \in unlearned \ {<<j, i>>}
      BY <3>1
    <3>3. <<j, i>> \in late => <<j, i>> \in late'
      BY <1>1, <3>1, NewEntryOfOthers
    <3>4. (<<j, i>> \in exact' => <<j, i>> \in exact) /\ air \subseteq air'
      BY <1>1, <3>1
    <3>5. Way(j, i)
      BY DEF WayInv
    <3> QED BY <1>1, <1>2, <2>2, <3>1, <3>2, <3>3, <3>4, <3>5, NewEntryOpensWay
  <2>3. CASE ~(m = i /\ n = j) /\ ~(m = j /\ n = i)
    <3>1. peers'[m][n] = peers[m][n] /\ peers'[n][m] = peers[n][m]
      BY <1>1, <2>3 DEF WayInv, LanTypes
    <3>2. <<m, n>> # <<i, j>> /\ <<n, m>> # <<i, j>> /\ <<n, m>> # <<j, i>>
      BY <2>3
    <3>3. /\ <<m, n>> \in late <=> <<m, n>> \in late'
          /\ <<n, m>> \in late <=> <<n, m>> \in late'
          /\ <<n, m>> \in unlearned <=> <<n, m>> \in unlearned'
          /\ <<n, m>> \in taken <=> <<n, m>> \in taken'
      BY <1>1, <3>2, NewEntryOfOthers
    <3>4. <<m, n>> \in exact' => <<m, n>> \in exact
      BY <1>1, <3>2
    <3> QED BY <1>1, <2>0, <3>1, <3>3, <3>4, WayStays
  <2> QED BY <2>1, <2>2, <2>3
<1> QED BY <1>4, <1>5 DEF WayInv

\* The entry that the tie-break removes.
LEMMA AdmitKeepsWays ==
  ASSUME WayInv, NEW i \in Node, NEW j \in Node, AdmitLan(j, i)
  PROVE  WayInv'
<1>1. /\ peers' = peers \/ peers' = [peers EXCEPT ![j][i] = NoEntry]
      /\ UNCHANGED <<socket, dialing, air, exact, taken, unlearned, late>>
  BY DEF AdmitLan, learnVars
<1>2. LanTypes'
  <2>1. peers' \in [Node -> [Node -> Address \cup {NoEntry, NoAddress}]]
    BY <1>1 DEF WayInv, LanTypes
  <2> QED BY <1>1, <2>1 DEF WayInv, LanTypes, Address, Datagrams
<1>3. ASSUME NEW m \in Node, NEW n \in Node PROVE Way(m, n)'
  <2>1. Way(m, n)
    BY DEF WayInv
  <2>2. CASE peers'[m][n] = NoEntry
    BY <2>2 DEF Way, Connected
  <2>3. CASE peers'[m][n] = peers[m][n]
    <3>1. peers'[n][m] = peers[n][m] \/ peers'[n][m] = NoEntry
      BY <1>1 DEF WayInv, LanTypes
    <3> QED BY <1>1, <2>1, <2>3, <3>1, WayStays
  <2> QED BY <1>1, <2>2, <2>3 DEF WayInv, LanTypes
<1> QED BY <1>2, <1>3 DEF WayInv

\* A new entry has no address until a datagram comes.
LEMMA AcceptKeepsWays ==
  ASSUME WayInv, NEW i \in Node, NEW j \in Node, AcceptLan(j, i)
  PROVE  WayInv'
<1>1. /\ peers' = [peers EXCEPT ![j][i] = NoAddress]
      /\ exact' = exact \ {<<j, i>>}
      /\ NewEntry(j, i, taken, unlearned)
      /\ UNCHANGED <<socket, dialing, air>>
  BY DEF AcceptLan
<1>2. LanTypes'
  BY <1>1 DEF WayInv, LanTypes, Address, Datagrams
<1>3. ASSUME NEW m \in Node, NEW n \in Node PROVE Way(m, n)'
  <2>1. Way(m, n)
    BY DEF WayInv
  <2>2. CASE m = n
    <3>1. <<m, n>> \notin exact'
      BY <1>2, <2>2, OthersAreDialled DEF LanTypes
    <3> QED BY <3>1 DEF Way
  <2>3. CASE m = j /\ n = i
    BY <1>1, <2>3 DEF Way
  <2>4. CASE m = i /\ n = j /\ i # j
    <3>1. peers'[i][j] = peers[i][j] /\ <<i, j>> # <<j, i>>
      BY <1>1, <2>4 DEF WayInv, LanTypes
    <3>2. <<i, j>> \in late => <<i, j>> \in late'
      BY <1>1, <3>1, NewEntryOfOthers
    <3> QED BY <1>1, <2>1, <2>4, <3>1, <3>2, NewEntryOpensWay
  <2>5. CASE ~(m = i /\ n = j) /\ ~(m = j /\ n = i)
    <3>1. peers'[m][n] = peers[m][n] /\ peers'[n][m] = peers[n][m]
      BY <1>1, <2>5 DEF WayInv, LanTypes
    <3>2. <<m, n>> # <<j, i>> /\ <<n, m>> # <<j, i>>
      BY <2>5
    <3>3. /\ <<m, n>> \in late <=> <<m, n>> \in late'
          /\ <<n, m>> \in late <=> <<n, m>> \in late'
          /\ <<n, m>> \in unlearned <=> <<n, m>> \in unlearned'
          /\ <<n, m>> \in taken <=> <<n, m>> \in taken'
      BY <1>1, <3>2, NewEntryOfOthers
    <3> QED BY <1>1, <2>1, <3>1, <3>3, WayStays
  <2> QED BY <2>2, <2>3, <2>4, <2>5
<1> QED BY <1>2, <1>3 DEF WayInv

\* An end without an entry sends nothing.
LEMMA DropKeepsWays ==
  ASSUME WayInv, NEW i \in Node, NEW j \in Node, DropLan(i, j)
  PROVE  WayInv'
<1>1. /\ peers' = [peers EXCEPT ![i][j] = NoEntry]
      /\ UNCHANGED <<socket, dialing, air, exact, taken, unlearned, late>>
  BY DEF DropLan, pendingVars, learnVars
<1>2. LanTypes'
  BY <1>1 DEF WayInv, LanTypes, Address, Datagrams
<1>3. ASSUME NEW m \in Node, NEW n \in Node PROVE Way(m, n)'
  <2>1. Way(m, n)
    BY DEF WayInv
  <2>2. CASE m = i /\ n = j
    <3>1. peers'[m][n] = NoEntry
      BY <1>1, <2>2 DEF WayInv, LanTypes
    <3> QED BY <3>1 DEF Way, Connected
  <2>3. CASE ~(m = i /\ n = j)
    <3>1. peers'[m][n] = peers[m][n] /\ (peers'[n][m] = peers[n][m] \/ peers'[n][m] = NoEntry)
      BY <1>1, <2>3 DEF WayInv, LanTypes
    <3> QED BY <1>1, <2>1, <3>1, WayStays
  <2> QED BY <2>2, <2>3
<1> QED BY <1>2, <1>3 DEF WayInv

\* A new socket: whoever dialled the old one has no present address.
LEMMA RestartKeepsWays ==
  ASSUME WayInv, NEW i \in Node, RestartLan(i)
  PROVE  WayInv'
<1>1. /\ socket' = [socket EXCEPT ![i] = @ + 1] /\ socket[i] < MaxStarts
      /\ peers' = [peers EXCEPT ![i] = [m \in Node |-> NoEntry]]
      /\ dialing' \subseteq dialing
      /\ exact' = {p \in exact : i \notin {p[1], p[2]}}
      /\ taken' = {p \in taken : p[1] # i}
      /\ unlearned' = {p \in unlearned : p[1] # i}
      /\ late' = {p \in late : p[1] # i}
      /\ air' = air
  BY DEF RestartLan
<1>2. LanTypes'
  <2>1. socket' \in [Node -> 0..MaxStarts]
    BY <1>1, EphemeralConstantsOK DEF WayInv, LanTypes
  <2>2. peers' \in [Node -> [Node -> Address \cup {NoEntry, NoAddress}]]
    BY <1>1 DEF WayInv, LanTypes
  <2> QED BY <1>1, <2>1, <2>2 DEF WayInv, LanTypes, Address, Datagrams
<1>3. ASSUME NEW m \in Node, NEW n \in Node PROVE Way(m, n)'
  <2>1. Way(m, n)
    BY DEF WayInv
  <2>2. CASE m = i \/ n = i
    BY <1>1, <2>2 DEF Way
  <2>3. CASE m # i /\ n # i
    <3>1. /\ peers'[m][n] = peers[m][n] /\ peers'[n][m] = peers[n][m]
          /\ socket'[m] = socket[m] /\ socket'[n] = socket[n]
      BY <1>1, <2>3 DEF WayInv, LanTypes
    <3>2. /\ <<m, n>> \in late => <<m, n>> \in late'
          /\ <<n, m>> \in late => <<n, m>> \in late'
          /\ <<n, m>> \in unlearned => <<n, m>> \in unlearned'
          /\ <<n, m>> \in taken => <<n, m>> \in taken'
      BY <1>1, <2>3
    <3> QED BY <1>1, <2>1, <3>1, <3>2, WayStays
  <2> QED BY <2>2, <2>3
<1> QED BY <1>2, <1>3 DEF WayInv

\* A datagram more in the air.
LEMMA SendKeepsWays ==
  ASSUME WayInv, NEW i \in Node, NEW j \in Node, SendEphemeral(i, j)
  PROVE  WayInv'
<1>1. /\ peers[i][j] \in Address /\ air' = air \cup {Datagram(i, peers[i][j])}
      /\ UNCHANGED <<socket, peers, dialing, exact, taken, unlearned, late>>
  BY DEF SendEphemeral, pendingVars, learnVars
<1>2. Local(i) \in Address
  BY DEF WayInv, LanTypes, Local, Address
<1>3. air' \subseteq Datagrams
  BY <1>1, <1>2 DEF WayInv, LanTypes, Datagram, Datagrams
<1>4. LanTypes'
  BY <1>1, <1>3 DEF WayInv, LanTypes, Address, Datagrams
<1>5. ASSUME NEW m \in Node, NEW n \in Node PROVE Way(m, n)'
  <2>1. Way(m, n)
    BY DEF WayInv
  <2> QED BY <1>1, <2>1, WayStays
<1> QED BY <1>4, <1>5 DEF WayInv

\* What a datagram that came leaves of the ways.
LEMMA ReceiveKeepsWays ==
  ASSUME WayInv, NEW d \in air, ReceiveDatagram(d)
  PROVE  WayInv'
<1> DEFINE j == d.to[1]
           i == d.id
<1>1. /\ d.to = Local(j) /\ air' = air \ {d}
      /\ peers' = IF Connected(j, i) THEN [peers EXCEPT ![j][i] = d.src] ELSE peers
      /\ IF Connected(j, i)
         THEN /\ taken' = taken \cup {<<j, i>>} /\ unlearned' = unlearned \ {<<j, i>>}
              /\ late' = IF d.src = Local(i) THEN late \ {<<j, i>>} ELSE late \cup {<<j, i>>}
         ELSE unlearned' = unlearned \cup {<<j, i>>} /\ UNCHANGED <<taken, late>>
      /\ UNCHANGED <<socket, dialing, exact>>
  BY DEF ReceiveDatagram, Learn, pendingVars
<1>2. j \in Node /\ i \in Node /\ d.src \in Address
  BY DEF WayInv, LanTypes, Datagrams, Address
<1>3. \A m, n \in Node : Datagram(m, Local(n)) = d => m = i /\ n = j
  BY DEF Datagram, Local
<1> HIDE DEF i, j
<1>4. LanTypes'
  <2>1. peers' \in [Node -> [Node -> Address \cup {NoEntry, NoAddress}]]
    BY <1>1, <1>2 DEF WayInv, LanTypes
  <2> QED BY <1>1, <2>1 DEF WayInv, LanTypes, Address, Datagrams
<1>5. ASSUME NEW m \in Node, NEW n \in Node PROVE Way(m, n)'
  <2>1. Way(m, n)
    BY DEF WayInv
  <2>2. \A p \in Node : Local(p)' = Local(p)
    BY <1>1 DEF Local
  <2>3. Datagram(m, Local(n))' = Datagram(m, Local(n))
    BY <1>1 DEF Datagram, Local
  <2>4. CASE m = i /\ n = j /\ i # j
    <3>1. peers'[m][n] = peers[m][n] /\ (<<m, n>> \in late => <<m, n>> \in late')
      BY <1>1, <1>2, <2>4 DEF WayInv, LanTypes
    <3>2. <<n, m>> \in taken' \cup unlearned'
      BY <1>1, <2>4
    <3>3. Connected(n, m)' => peers'[n][m] = Local(m) \/ <<n, m>> \in late' \cup unlearned'
      <4>1. CASE Connected(j, i)
        <5>1. peers'[n][m] = d.src
          BY <1>1, <1>2, <2>4, <4>1 DEF WayInv, LanTypes
        <5> QED BY <1>1, <2>4, <4>1, <5>1
      <4>2. CASE ~Connected(j, i)
        BY <1>1, <2>4, <4>2
      <4> QED BY <4>1, <4>2
    <3> QED BY <1>1, <2>1, <2>2, <3>1, <3>2, <3>3 DEF Way, Connected, Taught
  <2>5. CASE m = j /\ n = i /\ i # j
    <3>1. peers'[n][m] = peers[n][m] /\ <<n, m>> # <<j, i>>
      BY <1>1, <1>2, <2>5 DEF WayInv, LanTypes
    <3>2. /\ <<n, m>> \in late <=> <<n, m>> \in late'
          /\ <<n, m>> \in unlearned <=> <<n, m>> \in unlearned'
          /\ <<n, m>> \in taken <=> <<n, m>> \in taken'
      BY <1>1, <3>1
    <3>3. Datagram(m, Local(n)) \in air => Datagram(m, Local(n)) \in air'
      BY <1>1, <1>3, <2>5
    <3>4. Connected(m, n)' => Connected(m, n)
      BY <1>1, <2>5 DEF Connected
    <3>5. Connected(m, n) => peers'[m][n] = Local(n) \/ <<m, n>> \in late'
      <4>1. Connected(m, n) => peers'[m][n] = d.src
        BY <1>1, <1>2, <2>5 DEF WayInv, LanTypes
      <4> QED BY <1>1, <2>5, <4>1
    <3>6. Connected(n, m)' <=> Connected(n, m)
      BY <3>1 DEF Connected
    <3> QED BY <1>1, <2>1, <2>2, <2>3, <3>1, <3>2, <3>3, <3>4, <3>5, <3>6 DEF Way, Taught, OnItsWay
  <2>6. CASE m = n
    <3>1. <<m, n>> \notin Dials
      BY <2>6, OthersAreDialled
    <3> QED BY <1>4, <3>1 DEF LanTypes, Way
  <2>7. CASE ~(m = i /\ n = j) /\ ~(m = j /\ n = i)
    <3>1. peers'[m][n] = peers[m][n] /\ peers'[n][m] = peers[n][m]
      BY <1>1, <1>2, <2>7 DEF WayInv, LanTypes
    <3>2. <<m, n>> # <<j, i>> /\ <<n, m>> # <<j, i>>
      BY <2>7
    <3>3. Datagram(m, Local(n)) \in air => Datagram(m, Local(n)) \in air'
      BY <1>1, <1>3, <2>7
    <3>4. /\ <<m, n>> \in late <=> <<m, n>> \in late'
          /\ <<n, m>> \in late <=> <<n, m>> \in late'
          /\ <<n, m>> \in unlearned <=> <<n, m>> \in unlearned'
          /\ <<n, m>> \in taken <=> <<n, m>> \in taken'
      BY <1>1, <3>2
    <3> QED BY <1>1, <2>1, <3>1, <3>3, <3>4, WayStays
  <2> QED BY <2>4, <2>5, <2>6, <2>7
<1> QED BY <1>4, <1>5 DEF WayInv

\* A lost datagram teaches nothing.
LEMMA LossKeepsWays ==
  ASSUME WayInv, NEW d \in air, LoseDatagram(d)
  PROVE  WayInv'
<1> DEFINE j == d.to[1]
           i == d.id
<1>1. /\ air' = air \ {d}
      /\ unlearned' = IF d = Datagram(i, Local(j)) THEN unlearned \cup {<<j, i>>} ELSE unlearned
      /\ UNCHANGED <<socket, peers, dialing, exact, taken, late>>
  BY DEF LoseDatagram, pendingVars
<1>2. LanTypes'
  BY <1>1 DEF WayInv, LanTypes, Address, Datagrams
<1>3. \A m, n \in Node : Datagram(m, Local(n)) = d => m = i /\ n = j
  BY DEF Datagram, Local
<1> HIDE DEF i, j
<1>4. ASSUME NEW m \in Node, NEW n \in Node PROVE Way(m, n)'
  <2>1. Way(m, n)
    BY DEF WayInv
  <2>2. /\ Datagram(m, Local(n)) \in air => Datagram(m, Local(n)) \in air' \/ <<n, m>> \in unlearned'
        /\ <<n, m>> \in unlearned => <<n, m>> \in unlearned'
    BY <1>1, <1>3
  <2> QED BY <1>1, <2>1, <2>2, WayStays
<1> QED BY <1>2, <1>4 DEF WayInv

\* For all nodes, orders of their ids, and diallers, who may dial each other, and for any
\* numbers of restarts and of connections being made: with nothing in the air, of two peers
\* one of which dialled the other by its present address both send to where the other
\* listens, but for datagrams that were late, lost or before the entry (lan.rs:
\* connect_outbound, handle_inbound, udp_recv_loop).
THEOREM AlwaysBothWays == EphemeralSpec => []UdpBothWays
<1>1. EphemeralInit => WayInv
  <2> SUFFICES ASSUME EphemeralInit PROVE WayInv
    OBVIOUS
  <2>1. LanTypes
    BY EphemeralConstantsOK DEF EphemeralInit, LanTypes
  <2>2. \A m, n \in Node : Way(m, n)
    BY DEF EphemeralInit, Way
  <2> QED BY <2>1, <2>2 DEF WayInv
<1>2. WayInv /\ [EphemeralNext]_ephemeralVars => WayInv'
  <2> SUFFICES ASSUME WayInv, [EphemeralNext]_ephemeralVars PROVE WayInv'
    OBVIOUS
  <2>1. CASE UNCHANGED ephemeralVars
    <3>1. UNCHANGED <<socket, peers, dialing, air, exact, taken, unlearned, late>>
      BY <2>1 DEF ephemeralVars, pendingVars, learnVars
    <3>2. LanTypes'
      BY <3>1 DEF WayInv, LanTypes, Address, Datagrams
    <3>3. \A m, n \in Node : Way(m, n)'
      BY <3>1, WayStays DEF WayInv
    <3> QED BY <3>2, <3>3 DEF WayInv
  <2> QED BY <2>1, DialKeepsWays, EnterKeepsWays, AdmitKeepsWays, AcceptKeepsWays, DropKeepsWays,
             RestartKeepsWays, SendKeepsWays, ReceiveKeepsWays, LossKeepsWays DEF EphemeralNext
<1>3. WayInv => UdpBothWays
  BY DEF WayInv, Way, UdpBothWays, OnItsWay
<1> QED BY <1>1, <1>2, <1>3, PTL DEF EphemeralSpec

-----------------------------------------------------------------------------
(* Arrays of records. *)

\* A set of numbers that are not beyond a bound has a greatest one, if any.
LEMMA MaxOfBounded ==
  ASSUME NEW B \in Nat, NEW T, T \subseteq 0 .. B, T # {}
  PROVE  Max(T) \in T /\ \A y \in T : y <= Max(T)
<1> DEFINE s == {x + 1 : x \in T}
<1>0. \A x \in T : x + 1 \in 1 .. B + 1
  OBVIOUS
<1>1. B + 1 \in Nat /\ s \in SUBSET (1 .. B + 1) /\ s # {}
  <2>1. s \subseteq 1 .. B + 1
    BY <1>0
  <2>2. PICK x \in T : TRUE
    OBVIOUS
  <2>3. x + 1 \in s
    BY <2>2
  <2> HIDE DEF s
  <2> QED BY <2>1, <2>3
<1> HIDE DEF s
<1>2. Max(s) \in s /\ \A y \in s : y <= Max(s)
  BY <1>1, MaxOfFinite
<1>3. PICK x \in T : Max(s) = x + 1
  BY <1>2 DEF s
<1>4. \A y \in T : y + 1 \in s /\ y \in Nat
  BY DEF s
<1>5. \A y \in T : x >= y
  BY <1>2, <1>3, <1>4
<1>6. Max(T) \in T /\ \A y \in T : Max(T) >= y
  BY <1>5, Zenon DEF Max
<1>7. PICK m : m = Max(T)
  OBVIOUS
<1>8. m \in T /\ \A y \in T : y <= m
  BY <1>4, <1>6, <1>7
<1> QED BY <1>7, <1>8

\* The two parts of a stamp.
LEMMA StampParts ==
  ASSUME NEW N \in Nat \ {0}, NEW n \in Nat, NEW m \in Nat, NEW r \in 0 .. N - 1, NEW q \in 0 .. N - 1,
         n * N + r = m * N + q
  PROVE  r = q
<1>1. n * N \in Nat /\ m * N \in Nat
  OBVIOUS
<1>2. ASSUME NEW x \in Nat, NEW y \in Nat, x + 1 <= y PROVE x * N + N <= y * N
  <2>1. PICK d \in Nat : y = x + 1 + d
    BY <1>2
  <2>2. y * N = x * N + N + d * N /\ d * N \in Nat
    BY <2>1
  <2>3. x * N \in Nat /\ y * N \in Nat
    OBVIOUS
  <2> QED BY <2>2, <2>3
<1>3. CASE n + 1 <= m
  BY <1>1, <1>2, <1>3
<1>4. CASE m + 1 <= n
  BY <1>1, <1>2, <1>4
<1>5. CASE n = m
  BY <1>1, <1>5
<1> QED BY <1>3, <1>4, <1>5

\* The next multiple.
LEMMA NextMultiple ==
  ASSUME NEW N \in Nat \ {0}, NEW m \in Nat
  PROVE  m \div N \in Nat /\ m < (m \div N + 1) * N
<1>1. m \div N \in Nat
  OBVIOUS
<1>2. m < N * (m \div N) + N
  OBVIOUS
<1>3. PICK d \in Nat : d = m \div N
  BY <1>1
<1>4. (d + 1) * N = N * d + N
  OBVIOUS
<1> QED BY <1>1, <1>2, <1>3, <1>4

SameItem(o, q) == o.obj = q.obj /\ o.key = q.key

\* What an operation is on: the array, or an item of an array that was made as a map.
\* An array of records is only made where there was none, and an item written only when
\* it changes.
Placed(S, o) ==
  \/ o.obj = Top /\ o.body \in {"list", "map"} /\ (o.body = "map" => o.was # "map")
  \/ /\ \E a \in S : a.stamp = o.obj /\ a.obj = Top /\ a.key = Here /\ a.body = "map"
     /\ o.obj # Top
     /\ o.body # Nothing => o.was # o.body

\* What one replica has.
Sound(S) ==
  /\ \E B \in Nat : \A o \in S : o.stamp \in 1 .. B
  /\ \A o \in S : Placed(S, o)
  /\ \A o, q \in S : o.stamp = q.stamp /\ SameItem(o, q) => o = q

\* A stamp that no operation has.
New(S, stamp) == stamp \in Nat \ {0} /\ \A o \in S : o.stamp # stamp /\ stamp \notin o.over

\* The newest operation is one of them.
LEMMA NewestIn ==
  ASSUME NEW S, NEW B \in Nat, \A o \in S : o.stamp \in 1 .. B, S # {}
  PROVE  Newest(S) \in S /\ \A q \in S : q.stamp <= Newest(S).stamp
<1>1. Stamps(S) \subseteq 0 .. B /\ Stamps(S) # {}
  BY DEF Stamps
<1>2. Max(Stamps(S)) \in Stamps(S) /\ \A y \in Stamps(S) : y <= Max(Stamps(S))
  BY <1>1, MaxOfBounded
<1>3. PICK o \in S : o.stamp = Max(Stamps(S))
  BY <1>2 DEF Stamps
<1>4. \A q \in S : q.stamp <= o.stamp
  BY <1>2, <1>3 DEF Stamps
<1> QED BY <1>4, Zenon DEF Newest

\* The newest of one.
LEMMA NewestOfOne == ASSUME NEW w, w.stamp \in Nat PROVE Newest({w}) = w
BY DEF Newest

\* The newest live operation is live.
LEMMA NewestLive ==
  ASSUME NEW S, Sound(S), NEW obj, NEW key, Live(S, obj, key) # {}
  PROVE  Newest(Live(S, obj, key)) \in Live(S, obj, key)
<1>1. PICK B \in Nat : \A o \in S : o.stamp \in 1 .. B
  BY DEF Sound
<1>2. \A o \in Live(S, obj, key) : o.stamp \in 1 .. B
  BY <1>1 DEF Live, At
<1> QED BY <1>1, <1>2, NewestIn

\* What is written.
LEMMA WriteIs ==
  ASSUME NEW S, NEW stamp, NEW obj, NEW k, NEW body
  PROVE  LET w == Write(S, stamp, obj, k, body) IN
         /\ w.stamp = stamp /\ w.obj = obj /\ w.key = k /\ w.body = body
         /\ w.over = Stamps(Live(S, obj, k)) /\ w.was = Value(S, obj, k)
BY DEF Write, Op

\* A stored array.
LEMMA StoredIs ==
  ASSUME NEW S, Sound(S), IsStored(S)
  PROVE  /\ Live(S, Top, Here) # {}
         /\ Array(S) \in Live(S, Top, Here) /\ Array(S) \in S
         /\ Array(S).stamp \in Nat \ {0}
         /\ Array(S).obj = Top /\ Array(S).key = Here /\ Array(S).body = "map"
<1>1. Live(S, Top, Here) # {}
  <2> SUFFICES ASSUME Live(S, Top, Here) = {} PROVE FALSE
    OBVIOUS
  <2>1. Array(S).body = Nothing
    BY DEF Array, Op
  <2> QED BY <2>1, ArrayConstantsOK DEF IsStored
<1>2. Array(S) \in Live(S, Top, Here)
  BY <1>1, NewestLive DEF Array
<1>3. Array(S) \in S /\ Array(S).obj = Top /\ Array(S).key = Here
  BY <1>2 DEF Live, At
<1> QED BY <1>1, <1>2, <1>3 DEF Sound, IsStored

\* D is written to S.
Written(S, D, T) == T = S \cup D

\* Nothing is written for the key; one thing is.
Leaves(D, obj, k) == \A o \in D : ~(o.obj = obj /\ o.key = k)
OneFor(D, obj, k, w) ==
  /\ w \in D /\ w.obj = obj /\ w.key = k
  /\ \A o \in D : o.obj = obj /\ o.key = k => o = w

\* Where nothing is written nothing changes.
LEMMA Untouched ==
  ASSUME NEW S, NEW D, NEW T, Written(S, D, T), NEW obj, NEW k, Leaves(D, obj, k)
  PROVE  Live(T, obj, k) = Live(S, obj, k) /\ Value(T, obj, k) = Value(S, obj, k)
<1>1. At(T, obj, k) = At(S, obj, k)
  BY DEF At, Written, Leaves
<1>2. Live(T, obj, k) = Live(S, obj, k)
  BY <1>1 DEF Live
<1> QED BY <1>2 DEF Value

\* What is written replaces what was live.
LEMMA Replaced ==
  ASSUME NEW S, NEW D, NEW T, Written(S, D, T), NEW obj, NEW k, NEW w, OneFor(D, obj, k, w),
         New(S, w.stamp), w.over = Stamps(Live(S, obj, k))
  PROVE  /\ Live(T, obj, k) = IF w.body = Nothing THEN {} ELSE {w}
         /\ Value(T, obj, k) = w.body
<1>1. At(T, obj, k) = At(S, obj, k) \cup {w}
  BY DEF At, Written, OneFor
<1>2. \A q \in At(S, obj, k) : w.stamp \notin q.over /\ q.stamp # w.stamp
  BY DEF New, At
<1>3. w.stamp \notin w.over
  BY <1>2 DEF Live, Stamps
<1>4. ASSUME NEW o \in At(S, obj, k), o.body # Nothing
      PROVE  \E q \in At(T, obj, k) : o.stamp \in q.over
  <2>1. CASE o \in Live(S, obj, k)
    BY <1>1, <2>1 DEF Stamps
  <2>2. CASE o \notin Live(S, obj, k)
    BY <1>1, <1>4, <2>2 DEF Live
  <2> QED BY <2>1, <2>2
<1>5. Live(T, obj, k) = IF w.body = Nothing THEN {} ELSE {w}
  <2>1. \A o \in Live(T, obj, k) : o = w /\ w.body # Nothing
    BY <1>1, <1>4 DEF Live
  <2>2. w.body # Nothing => w \in Live(T, obj, k)
    BY <1>1, <1>2, <1>3 DEF Live
  <2> QED BY <2>1, <2>2
<1>6. Newest({w}) = w
  BY NewestOfOne DEF New
<1>7. CASE w.body = Nothing
  BY <1>5, <1>7 DEF Value
<1>8. CASE w.body # Nothing
  BY <1>5, <1>6, <1>8 DEF Value
<1> QED BY <1>5, <1>7, <1>8

\* The items of a stored array are what is live in it.
LEMMA ItemsAre ==
  ASSUME NEW S, IsStored(S), NEW m, m = Array(S).stamp
  PROVE  /\ \A k : k \in DOMAIN Items(S) <=> Live(S, m, k) # {}
         /\ \A k \in DOMAIN Items(S) : Items(S)[k] = Value(S, m, k)
         /\ Items(S) = [k \in DOMAIN Items(S) |-> Items(S)[k]]
<1> DEFINE keys == {k \in {o.key : o \in S} : Live(S, m, k) # {}}
<1>1. Items(S) = [k \in keys |-> Value(S, m, k)]
  BY DEF Items
<1>2. \A k : Live(S, m, k) # {} => k \in keys
  BY DEF Live, At
<1> QED BY <1>1, <1>2

\* An array is read as what is live in it.
LEMMA ReadsAs ==
  ASSUME NEW S, IsStored(S), NEW m, m = Array(S).stamp, NEW d, NEW items \in [d -> Item],
         \A k : Live(S, m, k) # {} <=> k \in d,
         \A k \in d : Value(S, m, k) = items[k]
  PROVE  Items(S) = items
<1>1. DOMAIN Items(S) = d
  BY ItemsAre
<1>2. \A k \in d : Items(S)[k] = items[k]
  BY <1>1, ItemsAre
<1>3. Items(S) = [k \in d |-> Items(S)[k]]
  BY <1>1, ItemsAre
<1>4. items = [k \in d |-> items[k]]
  OBVIOUS
<1> QED BY <1>2, <1>3, <1>4

\* What the difference consists of: for each key at most one operation.
LEMMA DifferenceIs ==
  ASSUME NEW S, Sound(S), IsStored(S), NEW stamp, NEW d, NEW items \in [d -> Item],
         NEW m, m = Array(S).stamp
  PROVE  /\ Difference(S, stamp, items) =
              {Write(S, stamp, m, k, Nothing) : k \in Removed(S, items)}
                \cup {Write(S, stamp, m, k, items[k]) : k \in NeedUpdate(S, items)}
         /\ Removed(S, items) = DOMAIN Items(S) \ d
         /\ NeedUpdate(S, items) \subseteq d
         /\ \A k \in d : k \in NeedUpdate(S, items) <=> Live(S, m, k) = {} \/ Value(S, m, k) # items[k]
<1>1. DOMAIN items = d
  OBVIOUS
<1>2. \A k \in d : k \in NeedUpdate(S, items) <=> k \notin DOMAIN Items(S) \/ Items(S)[k] # items[k]
  BY <1>1 DEF NeedUpdate
<1>3. ASSUME NEW k \in d
      PROVE  k \in NeedUpdate(S, items) <=> Live(S, m, k) = {} \/ Value(S, m, k) # items[k]
  <2>1. k \in DOMAIN Items(S) <=> Live(S, m, k) # {}
    BY ItemsAre
  <2>2. k \in DOMAIN Items(S) => Items(S)[k] = Value(S, m, k)
    BY ItemsAre
  <2> QED BY <1>2, <2>1, <2>2
<1>4. NeedUpdate(S, items) \subseteq d /\ Removed(S, items) = DOMAIN Items(S) \ d
  BY <1>1 DEF NeedUpdate, Removed
<1> QED BY <1>3, <1>4 DEF Difference

\* What is assigned by difference is read back.
LEMMA DifferenceReads ==
  ASSUME NEW S, Sound(S), IsStored(S), NEW stamp, New(S, stamp), NEW d, NEW items \in [d -> Item]
  PROVE  Items(S \cup Difference(S, stamp, items)) = items
<1> DEFINE D == Difference(S, stamp, items)
           T == S \cup D
           m == Array(S).stamp
<1>1. m \in Nat \ {0}
  BY StoredIs
<1> HIDE DEF m
<1>2. m = Array(S).stamp
  BY DEF m
<1>3. D = {Write(S, stamp, m, k, Nothing) : k \in DOMAIN Items(S) \ d}
            \cup {Write(S, stamp, m, k, items[k]) : k \in NeedUpdate(S, items)}
      /\ NeedUpdate(S, items) \subseteq d
      /\ \A k \in d : k \in NeedUpdate(S, items) <=> Live(S, m, k) = {} \/ Value(S, m, k) # items[k]
  BY <1>2, DifferenceIs
<1>4. \A k : k \in DOMAIN Items(S) <=> Live(S, m, k) # {}
  BY <1>2, ItemsAre
<1> HIDE DEF D
<1>5. \A o \in D : o.obj = m /\ o.stamp = stamp /\ o.over = Stamps(Live(S, m, o.key))
  BY <1>3, WriteIs
<1>6. \A o \in D : \/ o.key \in DOMAIN Items(S) \ d /\ o = Write(S, stamp, m, o.key, Nothing)
                   \/ o.key \in NeedUpdate(S, items) /\ o = Write(S, stamp, m, o.key, items[o.key])
  BY <1>3, WriteIs
<1>0. Written(S, D, T)
  BY DEF Written
<1> HIDE DEF T
<1>7. Array(T) = Array(S)
  <2>1. Leaves(D, Top, Here)
    BY <1>1, <1>5 DEF Top, Leaves
  <2>2. Live(T, Top, Here) = Live(S, Top, Here)
    BY <1>0, <2>1, Untouched
  <2> QED BY <2>2 DEF Array
<1>8. IsStored(T) /\ m = Array(T).stamp
  BY <1>2, <1>7 DEF IsStored
<1>9. ASSUME NEW k \in d PROVE Live(T, m, k) # {} /\ Value(T, m, k) = items[k]
  <2>1. CASE k \in NeedUpdate(S, items)
    <3> DEFINE w == Write(S, stamp, m, k, items[k])
    <3>1. w \in D /\ w.obj = m /\ w.key = k /\ w.stamp = stamp /\ w.body = items[k]
          /\ w.over = Stamps(Live(S, m, k))
      BY <1>3, <2>1, WriteIs
    <3>2. OneFor(D, m, k, w)
      BY <1>6, <1>9, <3>1 DEF OneFor
    <3> HIDE DEF w
    <3>3. /\ Live(T, m, k) = IF w.body = Nothing THEN {} ELSE {w}
          /\ Value(T, m, k) = w.body
      BY <1>0, <3>1, <3>2, Replaced
    <3>4. w.body # Nothing
      BY <3>1, ArrayConstantsOK
    <3> QED BY <3>1, <3>3, <3>4
  <2>2. CASE k \notin NeedUpdate(S, items)
    <3>1. Leaves(D, m, k)
      BY <1>6, <2>2 DEF Leaves
    <3>2. Live(T, m, k) = Live(S, m, k) /\ Value(T, m, k) = Value(S, m, k)
      BY <1>0, <3>1, Untouched
    <3> QED BY <1>3, <2>2, <3>2
  <2> QED BY <2>1, <2>2
<1>10. ASSUME NEW k, k \notin d PROVE Live(T, m, k) = {}
  <2>1. CASE k \in DOMAIN Items(S)
    <3> DEFINE w == Write(S, stamp, m, k, Nothing)
    <3>1. w \in D /\ w.obj = m /\ w.key = k /\ w.stamp = stamp /\ w.body = Nothing
          /\ w.over = Stamps(Live(S, m, k))
      BY <1>3, <1>10, <2>1, WriteIs
    <3>2. OneFor(D, m, k, w)
      BY <1>3, <1>6, <1>10, <3>1 DEF OneFor
    <3> HIDE DEF w
    <3>3. /\ Live(T, m, k) = IF w.body = Nothing THEN {} ELSE {w}
          /\ Value(T, m, k) = w.body
      BY <1>0, <3>1, <3>2, Replaced
    <3> QED BY <3>1, <3>3
  <2>2. CASE k \notin DOMAIN Items(S)
    <3>1. Leaves(D, m, k)
      BY <1>3, <1>6, <1>10, <2>2 DEF Leaves
    <3>2. Live(T, m, k) = Live(S, m, k)
      BY <1>0, <3>1, Untouched
    <3> QED BY <1>4, <2>2, <3>2
  <2> QED BY <2>1, <2>2
<1>11. Items(T) = items
  BY <1>8, <1>9, <1>10, ReadsAs
<1> QED BY <1>11 DEF T, D

\* What is written anew is read back.
LEMMA FreshReads ==
  ASSUME NEW S, Sound(S), NEW stamp, New(S, stamp), NEW d, NEW items \in [d -> Item]
  PROVE  Items(S \cup Fresh(S, stamp, items)) = items
<1> DEFINE body == IF DOMAIN items = {} THEN "list" ELSE "map"
           a == Write(S, stamp, Top, Here, body)
           D == Fresh(S, stamp, items)
           T == S \cup D
<1>1. D = {a} \cup {Write({}, stamp, stamp, k, items[k]) : k \in d}
  BY DEF Fresh
<1>2. a.obj = Top /\ a.key = Here /\ a.stamp = stamp /\ a.body = body /\ a.over = Stamps(Live(S, Top, Here))
  BY WriteIs
<1>3. stamp \in Nat \ {0} /\ stamp # Top
  BY DEF New, Top
<1>4. \A k, o : o \in {Write({}, stamp, stamp, j, items[j]) : j \in d} => o.obj = stamp /\ o.key \in d /\ o = Write({}, stamp, stamp, o.key, items[o.key])
  BY WriteIs
<1> HIDE DEF a, D
<1>5. \A o \in D : o = a \/ (o.obj = stamp /\ o.key \in d /\ o = Write({}, stamp, stamp, o.key, items[o.key]))
  BY <1>1, <1>4
<1>6. body # Nothing
  BY ArrayConstantsOK
<1> HIDE DEF body
<1>0. Written(S, D, T)
  BY DEF Written
<1> HIDE DEF T
<1>7. Live(T, Top, Here) = {a}
  <2>1. OneFor(D, Top, Here, a)
    BY <1>1, <1>2, <1>3, <1>5 DEF OneFor
  <2>2. a \in D /\ New(S, a.stamp)
    BY <1>1, <1>2
  <2> QED BY <1>0, <1>2, <1>6, <2>1, <2>2, Replaced
<1>8. Array(T) = a
  <2>1. Newest({a}) = a
    BY <1>2, <1>3, NewestOfOne
  <2> QED BY <1>7, <2>1 DEF Array
<1>9. CASE d = {}
  <2>1. ~IsStored(T)
    BY <1>2, <1>8, <1>9 DEF IsStored, body
  <2>2. Items(T) = <<>>
    BY <2>1 DEF Items
  <2>3. items = <<>>
    BY <1>9
  <2> QED BY <2>2, <2>3 DEF T, D
<1>10. CASE d # {}
  <2>1. IsStored(T) /\ stamp = Array(T).stamp
    BY <1>2, <1>8, <1>10 DEF IsStored, body
  <2>2. \A k : At(S, stamp, k) = {}
    <3> SUFFICES ASSUME NEW o \in S, o.obj = stamp PROVE FALSE
      BY DEF At
    <3>1. Placed(S, o)
      BY DEF Sound
    <3> QED BY <1>3, <3>1 DEF Placed, New
  <2>3. ASSUME NEW k \in d PROVE Live(T, stamp, k) # {} /\ Value(T, stamp, k) = items[k]
    <3> DEFINE w == Write({}, stamp, stamp, k, items[k])
    <3>1. w \in D /\ w.obj = stamp /\ w.key = k /\ w.stamp = stamp /\ w.body = items[k]
          /\ w.over = Stamps(Live({}, stamp, k))
      BY <1>1, WriteIs
    <3>2. OneFor(D, stamp, k, w)
      BY <1>2, <1>3, <1>5, <3>1 DEF OneFor
    <3>3. Live({}, stamp, k) = {} /\ Live(S, stamp, k) = {}
      BY <2>2 DEF Live, At
    <3> HIDE DEF w
    <3>4. /\ Live(T, stamp, k) = IF w.body = Nothing THEN {} ELSE {w}
          /\ Value(T, stamp, k) = w.body
      <4>1. w.over = Stamps(Live(S, stamp, k)) /\ New(S, w.stamp)
        BY <3>1, <3>3
      <4> QED BY <1>0, <3>1, <3>2, <4>1, Replaced
    <3>5. w.body # Nothing
      BY <3>1, ArrayConstantsOK
    <3> QED BY <3>1, <3>4, <3>5
  <2>4. ASSUME NEW k, k \notin d PROVE Live(T, stamp, k) = {}
    <3>1. Leaves(D, stamp, k)
      BY <1>2, <1>3, <1>5, <2>4 DEF Leaves
    <3>2. Live(T, stamp, k) = Live(S, stamp, k)
      BY <1>0, <3>1, Untouched
    <3>3. Live(S, stamp, k) = {}
      BY <2>2 DEF Live
    <3> QED BY <3>2, <3>3
  <2>5. Items(T) = items
    BY <2>1, <2>3, <2>4, ReadsAs
  <2> QED BY <2>5 DEF T, D
<1> QED BY <1>9, <1>10

\* What an assignment writes: operations that share a stamp, one for a key, that replace
\* what was live, and only what is meant to be replaced.
Transaction(S, stamp, items, D) ==
  /\ \A o \in D : o.stamp = stamp /\ o.over \subseteq Stamps(S) /\ Placed(S \cup D, o)
  /\ \A o, q \in D : SameItem(o, q) => o = q
  /\ \A q \in D : q.obj # Top =>
       \A t \in q.over : \E o \in S \cap Meant(S, items) : o.stamp = t /\ SameItem(o, q)

\* What is live was seen.
LEMMA LiveSeen == ASSUME NEW S, NEW obj, NEW k PROVE Stamps(Live(S, obj, k)) \subseteq Stamps(S)
BY DEF Stamps, Live, At

\* An assignment by difference.
LEMMA DifferenceWrites ==
  ASSUME NEW S, Sound(S), IsStored(S), NEW stamp, New(S, stamp), NEW d, NEW items \in [d -> Item]
  PROVE  Transaction(S, stamp, items, Difference(S, stamp, items))
<1> DEFINE D == Difference(S, stamp, items)
           m == Array(S).stamp
<1>1. m \in Nat \ {0} /\ m # Top
  BY StoredIs DEF Top
<1>2. \E a \in S : a.stamp = m /\ a.obj = Top /\ a.key = Here /\ a.body = "map"
  BY StoredIs
<1> HIDE DEF m
<1>3. m = Array(S).stamp
  BY DEF m
<1>4. D = {Write(S, stamp, m, k, Nothing) : k \in DOMAIN Items(S) \ d}
            \cup {Write(S, stamp, m, k, items[k]) : k \in NeedUpdate(S, items)}
      /\ NeedUpdate(S, items) \subseteq d
      /\ \A k \in d : k \in NeedUpdate(S, items) <=> Live(S, m, k) = {} \/ Value(S, m, k) # items[k]
  BY <1>3, DifferenceIs
<1> HIDE DEF D
<1>5. \A o \in D : /\ o.obj = m /\ o.stamp = stamp /\ o.over = Stamps(Live(S, m, o.key))
                   /\ o.was = Value(S, m, o.key)
  BY <1>4, WriteIs
<1>6. \A o \in D : \/ o.key \in DOMAIN Items(S) \ d /\ o = Write(S, stamp, m, o.key, Nothing)
                   \/ o.key \in NeedUpdate(S, items) /\ o = Write(S, stamp, m, o.key, items[o.key])
  BY <1>4, WriteIs
<1>7. ASSUME NEW o \in D PROVE o.stamp = stamp /\ o.over \subseteq Stamps(S) /\ Placed(S \cup D, o)
  <2>1. o.over \subseteq Stamps(S)
    BY <1>5, LiveSeen
  <2>2. o.body # Nothing => o.was # o.body
    <3> SUFFICES ASSUME o.body # Nothing PROVE o.was # o.body
      OBVIOUS
    <3>1. o.key \in NeedUpdate(S, items) /\ o.body = items[o.key]
      <4>1. Write(S, stamp, m, o.key, Nothing).body = Nothing /\ Write(S, stamp, m, o.key, items[o.key]).body = items[o.key]
        BY WriteIs
      <4> QED BY <1>6, <4>1
    <3>2. items[o.key] \in Item /\ items[o.key] # Nothing
      BY <1>4, <3>1, ArrayConstantsOK
    <3>3. Live(S, m, o.key) = {} => Value(S, m, o.key) = Nothing
      BY DEF Value
    <3> QED BY <1>4, <1>5, <3>1, <3>2, <3>3
  <2>3. Placed(S \cup D, o)
    BY <1>1, <1>2, <1>5, <2>2 DEF Placed
  <2> QED BY <1>5, <2>1, <2>3
<1>8. \A o, q \in D : SameItem(o, q) => o = q
  BY <1>4, <1>6 DEF SameItem
<1>9. ASSUME NEW q \in D, NEW t \in q.over
      PROVE  \E o \in S \cap Meant(S, items) : o.stamp = t /\ SameItem(o, q)
  <2>1. PICK o \in Live(S, m, q.key) : o.stamp = t
    BY <1>5 DEF Stamps
  <2>2. o \in S /\ o.obj = m /\ o.key = q.key /\ SameItem(o, q)
    BY <1>5 DEF Live, At, SameItem
  <2>4. o \in Live(S, m, o.key)
    BY <2>2
  <2>5. o.key \in DOMAIN Items(S) /\ Items(S)[o.key] = Value(S, m, o.key)
    BY <1>3, <2>4, ItemsAre
  <2>6. o.key \notin d \/ Items(S)[o.key] # items[o.key]
    BY <1>4, <1>6, <2>2, <2>4, <2>5
  <2>7. DOMAIN items = d
    OBVIOUS
  <2>8. o \in Meant(S, items)
    BY <1>3, <2>4, <2>5, <2>6, <2>7 DEF Meant
  <2> QED BY <2>1, <2>2, <2>8
<1> QED BY <1>7, <1>8, <1>9 DEF Transaction, D

\* An array written anew, where none is stored or it is emptied.
LEMMA FreshWrites ==
  ASSUME NEW S, Sound(S), NEW stamp, New(S, stamp), NEW d, NEW items \in [d -> Item],
         ~IsStored(S) \/ d = {}
  PROVE  Transaction(S, stamp, items, Fresh(S, stamp, items))
<1> DEFINE body == IF DOMAIN items = {} THEN "list" ELSE "map"
           a == Write(S, stamp, Top, Here, body)
           D == Fresh(S, stamp, items)
<1>1. D = {a} \cup {Write({}, stamp, stamp, k, items[k]) : k \in d}
  BY DEF Fresh
<1>2. /\ a.obj = Top /\ a.key = Here /\ a.stamp = stamp /\ a.body = body
      /\ a.over = Stamps(Live(S, Top, Here)) /\ a.was = Value(S, Top, Here)
  BY WriteIs
<1>3. stamp \in Nat \ {0} /\ stamp # Top
  BY DEF New, Top
<1>4. \A o \in {Write({}, stamp, stamp, j, items[j]) : j \in d} :
         /\ o.obj = stamp /\ o.stamp = stamp /\ o.key \in d /\ o.body = items[o.key]
         /\ o.over = Stamps(Live({}, stamp, o.key)) /\ o.was = Value({}, stamp, o.key)
         /\ o = Write({}, stamp, stamp, o.key, items[o.key])
  BY WriteIs
<1>5. Live({}, stamp, Here) = {} /\ \A k : Live({}, stamp, k) = {} /\ Value({}, stamp, k) = Nothing /\ Stamps({}) = {}
  BY DEF Live, At, Value, Stamps
<1> HIDE DEF a, D
<1>6. \A o \in D : o = a \/ (/\ o.obj = stamp /\ o.stamp = stamp /\ o.key \in d /\ o.body = items[o.key]
                             /\ o.over = {} /\ o.was = Nothing
                             /\ o = Write({}, stamp, stamp, o.key, items[o.key]))
  BY <1>1, <1>4, <1>5
<1>7. a.over \subseteq Stamps(S)
  BY <1>2, LiveSeen
<1>8. body = "map" => a.was # "map"
  <2> SUFFICES ASSUME body = "map" PROVE Value(S, Top, Here) # "map"
    BY <1>2
  <2>1. ~IsStored(S)
    OBVIOUS
  <2>2. CASE Live(S, Top, Here) = {}
    BY <2>2, ArrayConstantsOK DEF Value
  <2>3. CASE Live(S, Top, Here) # {}
    BY <2>1, <2>3 DEF Value, IsStored, Array
  <2> QED BY <2>2, <2>3
<1>9. ASSUME NEW o \in D PROVE o.stamp = stamp /\ o.over \subseteq Stamps(S) /\ Placed(S \cup D, o)
  <2>1. CASE o = a
    BY <1>2, <1>7, <1>8, <2>1 DEF Placed
  <2>2. CASE o # a
    <3>1. a \in S \cup D /\ body = "map"
      BY <1>1, <1>6, <2>2
    <3>2. o.was # o.body
      BY <1>6, <2>2, ArrayConstantsOK
    <3> HIDE DEF body
    <3> QED BY <1>2, <1>3, <1>6, <2>2, <3>1, <3>2 DEF Placed
  <2> QED BY <2>1, <2>2
<1> HIDE DEF body
<1>10. \A o, q \in D : SameItem(o, q) => o = q
  BY <1>2, <1>3, <1>6 DEF SameItem
<1>11. \A q \in D : q.obj # Top => q.over = {}
  BY <1>2, <1>6
<1> QED BY <1>9, <1>10, <1>11 DEF Transaction, D

\* What an assignment writes, and that it is read back.
LEMMA AssignedIs ==
  ASSUME NEW S, Sound(S), NEW stamp, New(S, stamp), NEW d, NEW items \in [d -> Item]
  PROVE  /\ Transaction(S, stamp, items, Assigned(S, stamp, items))
         /\ Items(S \cup Assigned(S, stamp, items)) = items
<1>1. DOMAIN items = d
  OBVIOUS
<1>2. CASE IsStored(S) /\ d # {}
  BY <1>1, <1>2, DifferenceWrites, DifferenceReads DEF Assigned
<1>3. CASE ~IsStored(S) \/ d = {}
  BY <1>1, <1>3, FreshWrites, FreshReads DEF Assigned
<1> QED BY <1>2, <1>3

\* The operations made so far.
Made == UNION {seen[r] : r \in Replica}

\* A stamp tells the replica that made it, and that replica has what it made.
Owned(o) == \E r \in Replica, n \in Nat \ {0} : o.stamp = n * NumReplicas + r /\ o \in seen[r]

\* An operation that replaced an item was written by one who dropped it.
DroppedFor(o, q) == q.obj # Top /\ SameItem(o, q) /\ o.stamp \in q.over => o \in dropped

\* What is stored is the last assignment, if there was no merge since.
AsAssigned(S, last) ==
  last # Nothing =>
    \E n \in Nat : \E arr \in [1 .. n -> Item], keys \in [1 .. n -> Key] :
      last = [items |-> arr, keys |-> keys] /\ Items(S) = Keyed(arr, keys)

ArraysInv ==
  /\ seen = [r \in Replica |-> seen[r]] /\ latest = [r \in Replica |-> latest[r]]
  /\ \E B \in Nat : \A o \in Made : o.stamp \in 1 .. B
  /\ \A o \in Made : Owned(o) /\ o.over \subseteq Stamps(Made)
  /\ \A r \in Replica : \A o \in seen[r] : Placed(seen[r], o)
  /\ \A o, q \in Made : o.stamp = q.stamp /\ SameItem(o, q) => o = q
  /\ \A o, q \in Made : DroppedFor(o, q)
  /\ \A r \in Replica : AsAssigned(seen[r], latest[r])

\* What each replica has is in order.
LEMMA SoundAll == ASSUME ArraysInv, NEW r \in Replica PROVE seen[r] \subseteq Made /\ Sound(seen[r])
<1>1. seen[r] \subseteq Made
  BY DEF Made
<1> QED BY <1>1 DEF ArraysInv, Sound

\* The stamp of an assignment is new to every replica.
LEMMA StampIsNew ==
  ASSUME ArraysInv, NEW r \in Replica
  PROVE  /\ \E n \in Nat \ {0} : NewStamp(r) = n * NumReplicas + r
         /\ New(Made, NewStamp(r))
<1> DEFINE T == Stamps(seen[r]) \cup {0}
           last == Max(T) \div NumReplicas
<1> USE ArrayConstantsOK
<1>1. T # {} /\ \A o \in seen[r] : o.stamp \in T
  BY DEF Stamps
<1>2. \E B \in Nat : T \subseteq 0 .. B
  <2>1. PICK B \in Nat : \A o \in Made : o.stamp \in 1 .. B
    BY DEF ArraysInv
  <2>2. T \subseteq 0 .. B
    BY <2>1, SoundAll DEF Stamps
  <2> QED BY <2>2
<1> HIDE DEF T
<1>3. Max(T) \in Nat /\ \A y \in T : y <= Max(T)
  <2>1. PICK B \in Nat : T \subseteq 0 .. B
    BY <1>2
  <2>2. Max(T) \in T /\ \A y \in T : y <= Max(T)
    BY <1>1, <2>1, MaxOfBounded
  <2>3. 0 .. B \subseteq Nat
    OBVIOUS
  <2>4. Max(T) \in Nat
    BY <2>1, <2>2, <2>3, Zenon
  <2> QED BY <2>2, <2>4, Zenon
<1>4. last \in Nat /\ Max(T) < (last + 1) * NumReplicas
  BY <1>3, NextMultiple
<1>5. NewStamp(r) = (last + 1) * NumReplicas + r
  BY DEF NewStamp, T
<1> HIDE DEF last
<1>6. PICK n \in Nat \ {0} : n = last + 1
  BY <1>4
<1>7. n * NumReplicas \in Nat /\ r \in Nat /\ r \in 0 .. NumReplicas - 1
  BY DEF Replica
<1>8. NewStamp(r) \in Nat /\ NewStamp(r) > Max(T)
  BY <1>3, <1>4, <1>5, <1>6, <1>7
<1>9. ASSUME NEW o \in Made PROVE o.stamp # NewStamp(r)
  <2> SUFFICES ASSUME o.stamp = NewStamp(r) PROVE FALSE
    OBVIOUS
  <2>1. PICK q \in Replica, m \in Nat \ {0} : o.stamp = m * NumReplicas + q /\ o \in seen[q]
    BY DEF ArraysInv, Owned
  <2>2. q \in 0 .. NumReplicas - 1 /\ n * NumReplicas + r = m * NumReplicas + q
    BY <1>5, <1>6, <2>1 DEF Replica
  <2>3. r = q
    BY <1>7, <2>2, StampParts
  <2>4. o.stamp <= Max(T)
    BY <1>1, <1>3, <2>1, <2>3
  <2> QED BY <1>3, <1>8, <2>4
<1>10. \A o \in Made : NewStamp(r) \notin o.over
  BY <1>9 DEF ArraysInv, Stamps
<1>11. NewStamp(r) # 0
  BY <1>3, <1>8
<1> QED BY <1>5, <1>6, <1>8, <1>9, <1>10, <1>11 DEF New

\* The items that are assigned, by key: for every key the last one.
LEMMA KeyedIs ==
  ASSUME NEW n \in Nat, NEW arr \in [1 .. n -> Item], NEW keys \in [1 .. n -> Key]
  PROVE  /\ Keyed(arr, keys) \in [Range(keys) -> Item] /\ Range(keys) \subseteq Nat
         /\ Kept(keys) \subseteq 1 .. n
         /\ \A i \in Kept(keys) : keys[i] \in Range(keys) /\ Keyed(arr, keys)[keys[i]] = arr[i]
         /\ \A k \in Range(keys) : \E i \in Kept(keys) : keys[i] = k
         /\ \A i, j \in Kept(keys) : keys[i] = keys[j] => i = j
<1> DEFINE places(k) == {i \in DOMAIN keys : keys[i] = k}
<1>1. DOMAIN keys = 1 .. n
  OBVIOUS
<1>2. ASSUME NEW k \in Range(keys)
      PROVE  Max(places(k)) \in places(k) /\ \A j \in places(k) : j <= Max(places(k))
  <2>1. places(k) \subseteq 0 .. n /\ places(k) # {}
    BY <1>1 DEF Range
  <2> HIDE DEF places
  <2> QED BY <2>1, MaxOfBounded
<1>3. Keyed(arr, keys) = [k \in Range(keys) |-> arr[Max(places(k))]]
  BY DEF Keyed
<1>4. \A k \in Range(keys) : Max(places(k)) \in 1 .. n /\ keys[Max(places(k))] = k
  BY <1>1, <1>2
<1>5. Keyed(arr, keys) \in [Range(keys) -> Item]
  BY <1>3, <1>4
<1>6. Range(keys) \subseteq Nat
  BY ArrayConstantsOK DEF Range
<1>7. Kept(keys) \subseteq 1 .. n /\ \A i \in Kept(keys) : keys[i] \in Range(keys)
  BY <1>1 DEF Kept, Range
<1>8. ASSUME NEW i \in Kept(keys) PROVE Keyed(arr, keys)[keys[i]] = arr[i]
  <2>1. PICK m : m = Max(places(keys[i]))
    OBVIOUS
  <2>2. m \in 1 .. n /\ keys[m] = keys[i] /\ i \in places(keys[i])
    BY <1>1, <1>4, <1>7, <2>1
  <2>3. i <= m
    BY <1>2, <1>7, <2>1, <2>2
  <2>4. m <= i
    BY <1>1, <2>2 DEF Kept
  <2>5. m = i
    BY <1>7, <2>2, <2>3, <2>4
  <2> QED BY <1>3, <1>7, <2>1, <2>5
<1>9. ASSUME NEW k \in Range(keys) PROVE \E i \in Kept(keys) : keys[i] = k
  <2>1. PICK m : m = Max(places(k))
    OBVIOUS
  <2>2. m \in 1 .. n /\ keys[m] = k /\ \A j \in places(k) : j <= m
    BY <1>2, <1>4, <2>1
  <2>3. \A j \in 1 .. n : keys[j] = k => j \in places(k)
    BY <1>1
  <2>4. m \in Kept(keys)
    BY <1>1, <2>2, <2>3 DEF Kept
  <2> QED BY <2>2, <2>4
<1>10. ASSUME NEW i \in Kept(keys), NEW j \in Kept(keys), keys[i] = keys[j] PROVE i = j
  <2>1. i <= j /\ j <= i /\ i \in 1 .. n /\ j \in 1 .. n
    BY <1>1, <1>7, <1>10 DEF Kept
  <2> QED BY <2>1
<1> QED BY <1>5, <1>6, <1>7, <1>8, <1>9, <1>10

\* Of two different items one comes before the other, and what comes before it does, too.
LEMMA BeforeIsAnOrder ==
  ASSUME NEW d, d \subseteq Nat, NEW items \in [d -> Item]
  PROVE  /\ \A p \in d : ~ComesBefore(items[p], p, items[p], p)
         /\ \A p, q \in d : \/ p = q \/ ComesBefore(items[p], p, items[q], q)
                              \/ ComesBefore(items[q], q, items[p], p)
         /\ \A p, q, x \in d : /\ ComesBefore(items[x], x, items[p], p)
                               /\ ComesBefore(items[p], p, items[q], q)
                               => ComesBefore(items[x], x, items[q], q)
<1> DEFINE time(p) == Time[items[p]]
<1>1. \A p \in d : p \in Nat /\ time(p) \in Nat
  BY ArrayConstantsOK
<1>2. \A p, q : ComesBefore(items[p], p, items[q], q) <=> time(p) < time(q) \/ (time(p) = time(q) /\ p < q)
  BY DEF ComesBefore
<1> HIDE DEF time
<1>3. \A p \in d : ~ComesBefore(items[p], p, items[p], p)
  BY <1>1, <1>2
<1>4. \A p, q \in d : \/ p = q \/ ComesBefore(items[p], p, items[q], q)
                      \/ ComesBefore(items[q], q, items[p], p)
  BY <1>1, <1>2
<1>5. ASSUME NEW p \in d, NEW q \in d, NEW x \in d,
             ComesBefore(items[x], x, items[p], p), ComesBefore(items[p], p, items[q], q)
      PROVE  ComesBefore(items[x], x, items[q], q)
  <2>1. /\ time(x) < time(p) \/ (time(x) = time(p) /\ x < p)
        /\ time(p) < time(q) \/ (time(p) = time(q) /\ p < q)
    BY <1>2, <1>5
  <2>2. time(x) < time(q) \/ (time(x) = time(q) /\ x < q)
    BY <1>1, <2>1
  <2> QED BY <1>2, <2>2
<1> QED BY <1>3, <1>4, <1>5

\* No two items have the same rank, and every rank is one of a position.
LEMMA RanksDiffer ==
  ASSUME NEW d, d \subseteq Nat, IsFiniteSet(d), NEW items \in [d -> Item]
  PROVE  /\ \A k \in d : RankOf(items, k) \in Nat /\ RankOf(items, k) < Cardinality(d)
         /\ \A p, q \in d : p # q => RankOf(items, p) # RankOf(items, q)
<1> DEFINE before(k) == {q \in d : ComesBefore(items[q], q, items[k], k)}
<1>1. \A k : RankOf(items, k) = Cardinality(before(k)) /\ before(k) \in SUBSET d
  BY DEF RankOf
<1>2. \A k : IsFiniteSet(before(k)) /\ Cardinality(before(k)) \in Nat
  BY <1>1, FS_Subset, FS_CardinalityType
<1>3. ASSUME NEW k \in d PROVE Cardinality(before(k)) < Cardinality(d)
  <2>1. before(k) # d
    BY BeforeIsAnOrder
  <2>2. Cardinality(before(k)) <= Cardinality(d) /\ (Cardinality(d) = Cardinality(before(k)) => d = before(k))
    BY <1>1, FS_Subset
  <2>3. PICK m \in Nat, n \in Nat : m = Cardinality(before(k)) /\ n = Cardinality(d)
    BY <1>2, FS_CardinalityType
  <2>4. m <= n /\ m # n
    BY <2>1, <2>2, <2>3
  <2>5. m < n
    BY <2>4
  <2> QED BY <2>3, <2>5
<1>4. ASSUME NEW p \in d, NEW q \in d, ComesBefore(items[p], p, items[q], q)
      PROVE  Cardinality(before(p)) < Cardinality(before(q))
  <2>1. before(p) \in SUBSET before(q) /\ p \in before(q) /\ p \notin before(p)
    BY <1>4, BeforeIsAnOrder
  <2>2. before(p) # before(q)
    BY <2>1
  <2> HIDE DEF before
  <2>3. /\ Cardinality(before(p)) <= Cardinality(before(q))
        /\ Cardinality(before(q)) = Cardinality(before(p)) => before(q) = before(p)
    BY <1>2, <2>1, FS_Subset
  <2> QED BY <1>2, <2>2, <2>3
<1> HIDE DEF before
<1>5. ASSUME NEW p \in d, NEW q \in d, p # q PROVE RankOf(items, p) # RankOf(items, q)
  <2>1. CASE ComesBefore(items[p], p, items[q], q)
    BY <1>1, <1>2, <1>4, <2>1
  <2>2. CASE ComesBefore(items[q], q, items[p], p)
    BY <1>1, <1>2, <1>4, <2>2
  <2> QED BY <1>5, <2>1, <2>2, BeforeIsAnOrder
<1> QED BY <1>1, <1>2, <1>3, <1>5

\* Every item stands where its rank says.
LEMMA SortedAt ==
  ASSUME NEW d, d \subseteq Nat, IsFiniteSet(d), NEW items \in [d -> Item]
  PROVE  /\ Len(Sorted(items)) = Cardinality(d)
         /\ \A k \in d : Sorted(items)[1 + RankOf(items, k)] = items[k]
<1>1. PICK n \in Nat : n = Cardinality(d)
  BY FS_CardinalityType
<1>2. PICK s : s = Sorted(items)
  OBVIOUS
<1>3. s = [i \in 1 .. n |-> items[CHOOSE k \in d : RankOf(items, k) = i - 1]]
  BY <1>1, <1>2 DEF Sorted
<1>4. Len(s) = n
  <2>1. PICK R : R = {s[i] : i \in 1 .. n}
    OBVIOUS
  <2>2. DOMAIN s = 1 .. n /\ s \in [1 .. n -> R]
    BY <1>3, <2>1
  <2>3. s \in Seq(R)
    BY <2>2
  <2> QED BY <2>2, <2>3
<1>5. ASSUME NEW k \in d PROVE s[1 + RankOf(items, k)] = items[k]
  <2>1. PICK m \in Nat : m = RankOf(items, k) /\ m < n
    BY <1>1, RanksDiffer
  <2>2. 1 + m \in 1 .. n /\ (1 + m) - 1 = m
    BY <2>1
  <2>3. s[1 + m] = items[CHOOSE q \in d : RankOf(items, q) = m]
    BY <1>3, <2>2
  <2>4. PICK c : c = CHOOSE q \in d : RankOf(items, q) = m
    OBVIOUS
  <2>5. c \in d /\ RankOf(items, c) = m
    BY <2>1, <2>4
  <2>6. c = k
    BY <2>1, <2>5, RanksDiffer
  <2> QED BY <2>1, <2>3, <2>4, <2>6
<1> QED BY <1>1, <1>2, <1>4, <1>5

\* The items that an array keeps, and those of them that come before one of them.
Ahead(arr, keys, i) == {j \in Kept(keys) : ComesBefore(arr[j], keys[j], arr[i], keys[i])}

\* What is stored as assigned is read back as assigned.
LEMMA ReadAsAssigned ==
  ASSUME NEW n \in Nat, NEW arr \in [1 .. n -> Item], NEW keys \in [1 .. n -> Key],
         NEW S, Items(S) = Keyed(arr, keys)
  PROVE  /\ Len(Read(S)) = Cardinality(Kept(keys))
         /\ \A i \in Kept(keys) : Read(S)[1 + Cardinality(Ahead(arr, keys, i))] = arr[i]
<1>1. PICK d : d = Range(keys)
  OBVIOUS
<1>2. PICK items \in [d -> Item] : items = Keyed(arr, keys)
  BY <1>1, KeyedIs
<1>3. PICK kept : kept = Kept(keys)
  OBVIOUS
<1>4. /\ d \subseteq Nat /\ kept \in SUBSET (1 .. n)
      /\ \A i \in kept : keys[i] \in d /\ items[keys[i]] = arr[i]
      /\ \A k \in d : \E i \in kept : keys[i] = k
      /\ \A i, j \in kept : keys[i] = keys[j] => i = j
  <2>1. /\ Range(keys) \subseteq Nat /\ Kept(keys) \subseteq 1 .. n
        /\ \A i \in Kept(keys) : keys[i] \in Range(keys) /\ Keyed(arr, keys)[keys[i]] = arr[i]
        /\ \A k \in Range(keys) : \E i \in Kept(keys) : keys[i] = k
        /\ \A i, j \in Kept(keys) : keys[i] = keys[j] => i = j
    BY ONLY KeyedIs, n \in Nat, arr \in [1 .. n -> Item], keys \in [1 .. n -> Key]
  <2> QED BY <1>1, <1>2, <1>3, <2>1
<1>5. IsFiniteSet(kept)
  <2>1. IsFiniteSet(1 .. n)
    BY FS_Interval
  <2> QED BY <1>4, <2>1, FS_Subset
<1>6. ASSUME NEW K \in SUBSET kept
      PROVE  /\ IsFiniteSet({keys[i] : i \in K})
             /\ Cardinality({keys[i] : i \in K}) = Cardinality(K)
  <2>1. PICK T : T = {keys[i] : i \in K}
    OBVIOUS
  <2>2. PICK f : f = [i \in K |-> keys[i]]
    OBVIOUS
  <2>3. f \in Bijection(K, T)
    <3>1. f \in [K -> T] /\ \A k \in T : \E i \in K : f[i] = k
      BY <2>1, <2>2
    <3>2. \A i, j \in K : f[i] = f[j] => i = j
      BY <1>4, <2>2
    <3> QED BY <3>1, <3>2 DEF Bijection, Injection, Surjection, IsInjective
  <2>4. ExistsBijection(K, T)
    BY <2>3 DEF ExistsBijection
  <2>5. IsFiniteSet(K)
    BY <1>5, FS_Subset
  <2> QED BY <2>1, <2>4, <2>5, FS_Bijection
<1>7. IsFiniteSet(d) /\ Cardinality(d) = Cardinality(kept)
  <2>1. d = {keys[i] : i \in kept}
    <3>1. PICK T : T = {keys[i] : i \in kept}
      OBVIOUS
    <3>2. \A k \in d : k \in T
      BY <1>4, <3>1
    <3>3. \A k \in T : k \in d
      BY <1>4, <3>1
    <3> QED BY <3>1, <3>2, <3>3
  <2>2. kept \in SUBSET kept
    OBVIOUS
  <2> QED BY <1>6, <2>1, <2>2
<1>8. ASSUME NEW i \in kept PROVE RankOf(items, keys[i]) = Cardinality(Ahead(arr, keys, i))
  <2>1. PICK K : K = Ahead(arr, keys, i)
    OBVIOUS
  <2>2. K = {j \in kept : ComesBefore(items[keys[j]], keys[j], items[keys[i]], keys[i])}
    BY <1>3, <1>4, <2>1 DEF Ahead
  <2>3. {q \in d : ComesBefore(items[q], q, items[keys[i]], keys[i])} = {keys[j] : j \in K}
    <3>1. PICK Q, T : /\ Q = {q \in d : ComesBefore(items[q], q, items[keys[i]], keys[i])}
                     /\ T = {keys[j] : j \in K}
      OBVIOUS
    <3>2. ASSUME NEW q \in Q PROVE q \in T
      <4>1. PICK j \in kept : keys[j] = q
        BY <1>4, <3>1
      <4>2. j \in K
        BY <2>2, <3>1, <4>1
      <4> QED BY <3>1, <4>1, <4>2
    <3>3. ASSUME NEW k \in T PROVE k \in Q
      <4>1. PICK j \in K : keys[j] = k
        BY <3>1
      <4>2. k \in d
        BY <1>4, <2>2, <4>1
      <4> QED BY <2>2, <3>1, <4>1, <4>2
    <3> QED BY <3>1, <3>2, <3>3
  <2>4. RankOf(items, keys[i]) = Cardinality({keys[j] : j \in K})
    BY <2>3 DEF RankOf
  <2>5. K \in SUBSET kept
    BY <2>2
  <2> QED BY <1>6, <2>1, <2>4, <2>5
<1>9. PICK s : s = Sorted(items)
  OBVIOUS
<1>10. Len(s) = Cardinality(d) /\ \A k \in d : s[1 + RankOf(items, k)] = items[k]
  <2>1. d \subseteq Nat /\ IsFiniteSet(d) /\ items \in [d -> Item]
    BY <1>4, <1>7
  <2> QED BY <1>9, <2>1, SortedAt
<1>11. Read(S) = s
  BY <1>2, <1>9 DEF Read
<1>12. \A i \in kept : s[1 + Cardinality(Ahead(arr, keys, i))] = arr[i]
  BY <1>4, <1>8, <1>10
<1> QED BY <1>3, <1>7, <1>10, <1>11, <1>12

\* What is placed stays so when more is known.
LEMMA PlacedStays ==
  ASSUME NEW S, NEW T, S \subseteq T, NEW o, Placed(S, o)
  PROVE  Placed(T, o)
BY DEF Placed

\* An assignment keeps the replicas' documents in order, and is read back.
LEMMA AssignStep ==
  ASSUME ArraysInv, NEW r \in Replica, NEW n \in Nat, NEW arr \in [1 .. n -> Item],
         NEW keys \in [1 .. n -> Key], Assign(r, arr, keys)
  PROVE  ArraysInv'
<1> DEFINE S == seen[r]
           stamp == NewStamp(r)
           items == Keyed(arr, keys)
           last == [items |-> arr, keys |-> keys]
           D == Assigned(S, stamp, items)
<1>1. /\ seen' = [seen EXCEPT ![r] = S \cup D]
      /\ latest' = [latest EXCEPT ![r] = last]
      /\ dropped' = dropped \cup Meant(S, items)
  BY DEF Assign
<1>2. Sound(S) /\ S \subseteq Made
  BY SoundAll
<1>3. New(Made, stamp) /\ \E m \in Nat \ {0} : stamp = m * NumReplicas + r
  BY StampIsNew
<1>a. last = [items |-> arr, keys |-> keys] /\ items = Keyed(arr, keys)
  OBVIOUS
<1> HIDE DEF last
<1> HIDE DEF stamp
<1>4. PICK e : items \in [e -> Item]
  BY KeyedIs
<1> HIDE DEF items
<1>5. New(S, stamp)
  BY <1>2, <1>3 DEF New
<1>6. Transaction(S, stamp, items, D) /\ Items(S \cup D) = items
  BY <1>2, <1>4, <1>5, AssignedIs
<1> HIDE DEF D
<1>7. /\ seen = [q \in Replica |-> seen[q]] /\ latest = [q \in Replica |-> latest[q]]
  BY DEF ArraysInv
<1>8. /\ seen' = [q \in Replica |-> seen'[q]] /\ latest' = [q \in Replica |-> latest'[q]]
      /\ seen'[r] = S \cup D /\ latest'[r] = last
      /\ \A q \in Replica : q # r => seen'[q] = seen[q] /\ latest'[q] = latest[q]
  BY <1>1, <1>7
<1> HIDE DEF S
<1>9. S = seen[r]
  BY DEF S
<1>10. Made' = Made \cup D
  BY <1>8, <1>9 DEF Made
<1>11. \A q \in Replica : seen[q] \subseteq seen'[q]
  BY <1>8, <1>9
<1>12. \A o \in D : o.stamp = stamp /\ o.over \subseteq Stamps(Made)
  BY <1>2, <1>6 DEF Transaction, Stamps
<1>13. stamp \in Nat \ {0} /\ \A o \in Made : o.stamp # stamp /\ stamp \notin o.over
  BY <1>3 DEF New
<1>14. (\E B \in Nat : \A o \in Made : o.stamp \in 1 .. B)'
  <2>1. PICK B \in Nat : \A o \in Made : o.stamp \in 1 .. B
    BY DEF ArraysInv
  <2>2. PICK z \in Nat : z = stamp /\ z # 0
    BY <1>13
  <2>3. \A o \in D : o.stamp = z
    BY <1>12, <2>2
  <2>4. \A o \in D : o.stamp \in 1 .. B + z
    <3>1. z \in 1 .. B + z
      BY <2>2
    <3> QED BY <2>3, <3>1
  <2>5. \A o \in Made : o.stamp \in 1 .. B + z
    <3>1. \A i \in 1 .. B : i \in 1 .. B + z
      OBVIOUS
    <3> QED BY <2>1, <3>1
  <2>6. \A o \in Made' : o.stamp \in 1 .. B + z
    BY <1>10, <2>4, <2>5
  <2>7. B + z \in Nat
    OBVIOUS
  <2> QED BY <2>6, <2>7
<1>15. (\A o \in Made : Owned(o) /\ o.over \subseteq Stamps(Made))'
  <2>1. \A o \in Made : Owned(o)'
    <3> SUFFICES ASSUME NEW o \in Made PROVE Owned(o)'
      OBVIOUS
    <3>1. PICK q \in Replica, m \in Nat \ {0} : o.stamp = m * NumReplicas + q /\ o \in seen[q]
      BY DEF ArraysInv, Owned
    <3> QED BY <1>11, <3>1 DEF Owned
  <2>2. \A o \in D : Owned(o)'
    BY <1>3, <1>8, <1>12 DEF Owned
  <2>3. Stamps(Made) \subseteq Stamps(Made)'
    BY <1>10 DEF Stamps
  <2>4. \A o \in Made : o.over \subseteq Stamps(Made)
    BY DEF ArraysInv
  <2> QED BY <1>10, <1>12, <2>1, <2>2, <2>3, <2>4
<1>16. (\A q \in Replica : \A o \in seen[q] : Placed(seen[q], o))'
  <2> SUFFICES ASSUME NEW q \in Replica, NEW o \in seen'[q] PROVE Placed(seen'[q], o)
    OBVIOUS
  <2>1. CASE o \in seen[q]
    <3>1. Placed(seen[q], o)
      BY <2>1 DEF ArraysInv
    <3> QED BY <1>11, <3>1, PlacedStays
  <2>2. CASE o \notin seen[q]
    <3>1. q = r /\ o \in D
      BY <1>8, <1>9, <2>2
    <3>2. Placed(S \cup D, o)
      BY <1>6, <3>1 DEF Transaction
    <3>3. seen'[q] = S \cup D
      BY <1>8, <3>1
    <3> QED BY <3>2, <3>3
  <2> QED BY <2>1, <2>2
<1>17. (\A o, q \in Made : o.stamp = q.stamp /\ SameItem(o, q) => o = q)'
  <2>1. \A o, q \in Made : o.stamp = q.stamp /\ SameItem(o, q) => o = q
    BY DEF ArraysInv
  <2>2. \A o, q \in D : SameItem(o, q) => o = q
    BY <1>6 DEF Transaction
  <2>3. \A o \in Made, q \in D : o.stamp # q.stamp
    BY <1>12, <1>13
  <2> QED BY <1>10, <2>1, <2>2, <2>3
<1>18. (\A o, q \in Made : DroppedFor(o, q))'
  <2> SUFFICES ASSUME NEW o \in Made', NEW q \in Made', q.obj # Top, SameItem(o, q), o.stamp \in q.over
               PROVE  o \in dropped'
    BY DEF DroppedFor
  <2>1. o \in Made
    <3> SUFFICES ASSUME o \in D PROVE FALSE
      BY <1>10
    <3>1. o.stamp = stamp
      BY <1>12
    <3>2. stamp \notin q.over
      BY <1>10, <1>12, <1>13 DEF Stamps
    <3> QED BY <3>1, <3>2
  <2>2. CASE q \in Made
    <3>1. o \in dropped
      BY <2>1, <2>2 DEF ArraysInv, DroppedFor
    <3> QED BY <1>1, <3>1
  <2>3. CASE q \in D
    <3>1. PICK l \in S \cap Meant(S, items) : l.stamp = o.stamp /\ SameItem(l, q)
      BY <1>6, <2>3 DEF Transaction
    <3>2. l \in Made /\ SameItem(o, l)
      BY <1>2, <3>1 DEF SameItem
    <3>3. o = l
      BY <2>1, <3>1, <3>2 DEF ArraysInv
    <3> QED BY <1>1, <3>1, <3>3
  <2> QED BY <1>10, <2>2, <2>3
<1>19. (\A q \in Replica : AsAssigned(seen[q], latest[q]))'
  <2> SUFFICES ASSUME NEW q \in Replica PROVE AsAssigned(seen'[q], latest'[q])
    BY DEF AsAssigned
  <2>1. CASE q = r
    <3>1. Items(seen'[q]) = Keyed(arr, keys)
      BY <1>6, <1>8, <1>a, <2>1
    <3>2. latest'[q] = [items |-> arr, keys |-> keys]
      BY <1>8, <1>a, <2>1
    <3> QED BY <3>1, <3>2 DEF AsAssigned
  <2>2. CASE q # r
    BY <1>8, <2>2 DEF ArraysInv
  <2> QED BY <2>1, <2>2
<1> QED BY <1>8, <1>14, <1>15, <1>16, <1>17, <1>18, <1>19 DEF ArraysInv

\* So does a merge.
LEMMA MergeStep ==
  ASSUME ArraysInv, NEW r \in Replica, NEW q \in Replica, Merge(r, q)
  PROVE  ArraysInv'
<1>1. /\ seen' = [seen EXCEPT ![r] = seen[r] \cup seen[q]]
      /\ latest' = [latest EXCEPT ![r] = Nothing]
      /\ dropped' = dropped
  BY DEF Merge
<1>2. /\ seen = [p \in Replica |-> seen[p]] /\ latest = [p \in Replica |-> latest[p]]
  BY DEF ArraysInv
<1>3. /\ seen' = [p \in Replica |-> seen'[p]] /\ latest' = [p \in Replica |-> latest'[p]]
      /\ seen'[r] = seen[r] \cup seen[q] /\ latest'[r] = Nothing
      /\ \A p \in Replica : p # r => seen'[p] = seen[p] /\ latest'[p] = latest[p]
  BY <1>1, <1>2
<1>4. Made' = Made
  BY <1>3 DEF Made
<1>5. \A p \in Replica : seen[p] \subseteq seen'[p]
  BY <1>3
<1>6. (\A o \in Made : Owned(o) /\ o.over \subseteq Stamps(Made))'
  <2>1. ASSUME NEW o \in Made PROVE Owned(o)'
    <3>1. PICK p \in Replica, n \in Nat \ {0} : o.stamp = n * NumReplicas + p /\ o \in seen[p]
      BY DEF ArraysInv, Owned
    <3> QED BY <1>5, <3>1 DEF Owned
  <2>2. Stamps(Made)' = Stamps(Made)
    BY <1>4 DEF Stamps
  <2> QED BY <1>4, <2>1, <2>2 DEF ArraysInv
<1>7. (\A p \in Replica : \A o \in seen[p] : Placed(seen[p], o))'
  <2> SUFFICES ASSUME NEW p \in Replica, NEW o \in seen'[p] PROVE Placed(seen'[p], o)
    OBVIOUS
  <2>1. CASE o \in seen[p]
    <3>1. Placed(seen[p], o)
      BY <2>1 DEF ArraysInv
    <3> QED BY <1>5, <3>1, PlacedStays
  <2>2. CASE o \notin seen[p]
    <3>1. p = r /\ o \in seen[q]
      BY <1>3, <2>2
    <3>2. Placed(seen[q], o) /\ seen[q] \subseteq seen'[p]
      BY <1>3, <3>1 DEF ArraysInv
    <3> QED BY <3>2, PlacedStays
  <2> QED BY <2>1, <2>2
<1>8. (\A o, p \in Made : DroppedFor(o, p))'
  BY <1>1, <1>4 DEF ArraysInv, DroppedFor
<1>9. (\A p \in Replica : AsAssigned(seen[p], latest[p]))'
  <2> SUFFICES ASSUME NEW p \in Replica PROVE AsAssigned(seen'[p], latest'[p])
    BY DEF AsAssigned
  <2>1. CASE p = r
    BY <1>3, <2>1 DEF AsAssigned
  <2>2. CASE p # r
    BY <1>3, <2>2 DEF ArraysInv
  <2> QED BY <2>1, <2>2
<1>10. (\E B \in Nat : \A o \in Made : o.stamp \in 1 .. B)'
  BY <1>4 DEF ArraysInv
<1>11. (\A o, p \in Made : o.stamp = p.stamp /\ SameItem(o, p) => o = p)'
  BY <1>4 DEF ArraysInv
<1> QED BY <1>3, <1>6, <1>7, <1>8, <1>9, <1>10, <1>11 DEF ArraysInv

\* The documents are in order in every state.
LEMMA AlwaysInOrder == ArraySpec => []ArraysInv
<1>1. ArrayInit => ArraysInv
  <2> SUFFICES ASSUME ArrayInit PROVE ArraysInv
    OBVIOUS
  <2>1. Made = {}
    BY DEF ArrayInit, Made
  <2>2. \E B \in Nat : \A o \in Made : o.stamp \in 1 .. B
    <3>1. \A o \in Made : o.stamp \in 1 .. 0
      BY <2>1
    <3> QED BY <3>1
  <2> QED BY <2>1, <2>2 DEF ArrayInit, ArraysInv, AsAssigned
<1>2. ArraysInv /\ [ArrayNext]_arrayVars => ArraysInv'
  <2> SUFFICES ASSUME ArraysInv, [ArrayNext]_arrayVars PROVE ArraysInv'
    OBVIOUS
  <2>1. ASSUME NEW r \in Replica, NEW n \in 0 .. MaxItems, NEW arr \in [1 .. n -> Item],
               NEW keys \in KeyChoices(arr), Assign(r, arr, keys)
        PROVE  ArraysInv'
    <3>1. n \in Nat
      BY ArrayConstantsOK
    <3>2. keys \in [1 .. n -> Key]
      BY DEF KeyChoices
    <3> QED BY <2>1, <3>1, <3>2, AssignStep
  <2>2. ASSUME NEW r \in Replica, NEW q \in Replica, Merge(r, q) PROVE ArraysInv'
    BY <2>2, MergeStep
  <2>3. CASE UNCHANGED arrayVars
    <3>1. seen' = seen /\ latest' = latest /\ dropped' = dropped
      BY <2>3 DEF arrayVars
    <3>2. Made' = Made
      BY <3>1 DEF Made
    <3>3. /\ \A o : Owned(o)' <=> Owned(o)
          /\ \A o, q : DroppedFor(o, q)' <=> DroppedFor(o, q)
      BY <3>1 DEF Owned, DroppedFor
    <3>4. (\A r \in Replica : AsAssigned(seen[r], latest[r]))'
      <4>1. \A r \in Replica : AsAssigned(seen'[r], latest'[r])
        BY <3>1 DEF ArraysInv
      <4> QED BY <4>1 DEF AsAssigned
    <3>5. (\A r \in Replica : \A o \in seen[r] : Placed(seen[r], o))'
      <4>1. \A r \in Replica : \A o \in seen'[r] : Placed(seen'[r], o)
        BY <3>1 DEF ArraysInv
      <4> QED BY <4>1 DEF Placed
    <3>6. Stamps(Made)' = Stamps(Made)
      BY <3>2 DEF Stamps
    <3> QED BY <3>1, <3>2, <3>3, <3>4, <3>5, <3>6 DEF ArraysInv
  <2> QED BY <2>1, <2>2, <2>3 DEF ArrayNext
<1> QED BY <1>1, <1>2, PTL DEF ArraySpec

\* What is assigned is read back, each item once, in the order of timestamps and keys, but for
\* those whose key comes again: for any number of replicas, items, keys and assignments,
\* whatever was stored or merged before (core.rs: update_array_as_map, automerge_to_json).
THEOREM AssignedIsReadBack == ArraySpec => []ReadsBack
<1>1. ArraysInv => ReadsBack
  <2> SUFFICES ASSUME ArraysInv, NEW r \in Replica, latest[r] # Nothing
               PROVE  LET arr == latest[r].items
                          keys == latest[r].keys
                      IN  /\ Len(Read(seen[r])) = Cardinality(Kept(keys))
                          /\ \A i \in Kept(keys) : Read(seen[r])[1 + Cardinality(Ahead(arr, keys, i))] = arr[i]
    BY DEF ReadsBack, Ahead
  <2>1. PICK n \in Nat : \E arr \in [1 .. n -> Item], keys \in [1 .. n -> Key] :
          latest[r] = [items |-> arr, keys |-> keys] /\ Items(seen[r]) = Keyed(arr, keys)
    BY DEF ArraysInv, AsAssigned
  <2>2. PICK arr \in [1 .. n -> Item], keys \in [1 .. n -> Key] :
          latest[r] = [items |-> arr, keys |-> keys] /\ Items(seen[r]) = Keyed(arr, keys)
    BY <2>1
  <2>3. latest[r].items = arr /\ latest[r].keys = keys
    BY <2>2
  <2>4. /\ Len(Read(seen[r])) = Cardinality(Kept(keys))
        /\ \A i \in Kept(keys) : Read(seen[r])[1 + Cardinality(Ahead(arr, keys, i))] = arr[i]
    BY <2>2, ReadAsAssigned
  <2> QED BY <2>3, <2>4
<1> QED BY <1>1, AlwaysInOrder, PTL

\* An item that nobody who saw it removed or changed stays, although whole arrays are
\* assigned at the same time, but where an array is made twice or emptied, or the item
\* changed by another (core.rs: update_array_as_map).
THEOREM ItemsStay == ArraySpec => []NoItemLost
<1>1. ASSUME ArraysInv, NEW r \in Replica, NEW o \in seen[r], o.obj # Top, o.body # Nothing, o \notin dropped
      PROVE  \/ ArrayLost(seen[r], o)
             \/ o.key \in DOMAIN Items(seen[r]) /\ Items(seen[r])[o.key] = o.body
             \/ Outdone(seen[r], o)
  <2> DEFINE S == seen[r]
             a == Array(S)
  <2>1. Sound(S) /\ S \subseteq Made
    BY <1>1, SoundAll
  <2>2. CASE a.stamp # o.obj
    <3>1. CASE Live(S, Top, Here) = {}
      <4>1. a.was = Nothing
        BY <3>1 DEF Array, Op
      <4> QED BY <2>2, <4>1, ArrayConstantsOK DEF ArrayLost
    <3>2. CASE Live(S, Top, Here) # {}
      <4>1. a \in S /\ a.obj = Top
        <5>1. a \in Live(S, Top, Here)
          BY <2>1, <3>2, NewestLive DEF Array
        <5> QED BY <5>1 DEF Live, At
      <4>2. Placed(S, a)
        BY <2>1, <4>1 DEF Sound
      <4>3. a.body = "list" \/ a.was # "map"
        BY <4>1, <4>2 DEF Placed
      <4> QED BY <2>2, <4>3 DEF ArrayLost
    <3> QED BY <3>1, <3>2
  <2>3. CASE a.stamp = o.obj
    <3>1. PICK b \in S : b.stamp = o.obj /\ b.obj = Top /\ b.key = Here /\ b.body = "map"
      BY <1>1, <2>1 DEF Sound, Placed
    <3>2. Live(S, Top, Here) # {}
      <4> SUFFICES ASSUME Live(S, Top, Here) = {} PROVE FALSE
        OBVIOUS
      <4>1. a.stamp = Top
        BY DEF Array, Op, Top
      <4> QED BY <1>1, <2>3, <4>1
    <3>3. a \in S /\ a.obj = Top /\ a.key = Here
      <4>1. a \in Live(S, Top, Here)
        BY <2>1, <3>2, NewestLive DEF Array
      <4> QED BY <4>1 DEF Live, At
    <3>4. a = b
      BY <2>1, <2>3, <3>1, <3>3 DEF Sound, SameItem
    <3>5. IsStored(S) /\ o.obj = Array(S).stamp
      BY <2>3, <3>1, <3>4 DEF IsStored
    <3> HIDE DEF a
    <3>6. o \in Live(S, o.obj, o.key)
      <4> SUFFICES ASSUME NEW q \in At(S, o.obj, o.key), o.stamp \in q.over PROVE FALSE
        BY <1>1 DEF Live, At
      <4>1. q \in S /\ q.obj = o.obj /\ SameItem(o, q)
        BY DEF At, SameItem
      <4>2. DroppedFor(o, q)
        BY <1>1, <2>1, <4>1 DEF ArraysInv
      <4> QED BY <1>1, <4>1, <4>2 DEF DroppedFor
    <3> DEFINE w == Newest(Live(S, o.obj, o.key))
    <3>7. w \in Live(S, o.obj, o.key)
      BY <2>1, <3>6, NewestLive
    <3>8. o.key \in DOMAIN Items(S) /\ Items(S)[o.key] = w.body
      <4>1. o.key \in DOMAIN Items(S) /\ Items(S)[o.key] = Value(S, o.obj, o.key)
        BY <3>5, <3>6, ItemsAre
      <4> QED BY <3>6, <4>1 DEF Value
    <3>9. CASE w = o
      BY <3>8, <3>9
    <3>10. CASE w # o
      <4>1. w \in S /\ w.obj # Top /\ w.body # Nothing
        BY <1>1, <3>7 DEF Live, At
      <4>2. w.was # w.body
        BY <2>1, <4>1 DEF Sound, Placed
      <4> QED BY <3>6, <3>10, <4>2 DEF Outdone
    <3> QED BY <3>9, <3>10
  <2> QED BY <2>2, <2>3
<1>2. ArraysInv => NoItemLost
  BY <1>1 DEF NoItemLost
<1> QED BY <1>2, AlwaysInOrder, PTL

-----------------------------------------------------------------------------
(* The codec. *)

\* s is f without its end.
Cut(s, f) == \E u \in Frame : u # <<>> /\ f = s \o u

\* One frame behind another.
LEMMA Joins ==
  ASSUME NEW a \in Frame, NEW b \in Frame
  PROVE  /\ a \o b \in Frame
         /\ Len(a) \in Nat /\ Len(b) \in Nat
         /\ Len(a \o b) = Len(a) + Len(b)
         /\ \A i \in 1 .. Len(a) : (a \o b)[i] = a[i]
         /\ \A i \in 1 .. Len(b) : (a \o b)[Len(a) + i] = b[i]
<1>1. /\ a \in Seq(Nat) /\ b \in Seq(Nat)
  BY DEF Frame
<1>2. PICK m \in Nat : m = Len(a)
  BY <1>1
<1>3. PICK n \in Nat : n = Len(b)
  BY <1>1
<1>4. /\ a \o b \in Seq(Nat) /\ Len(a \o b) = m + n
      /\ \A i \in 1 .. m + n : (a \o b)[i] = IF i <= m THEN a[i] ELSE b[i - m]
  BY <1>1, <1>2, <1>3, ConcatProperties
<1>5. \A i \in 1 .. m : i \in 1 .. m + n /\ i <= m
  OBVIOUS
<1>6. \A i \in 1 .. n : m + i \in 1 .. m + n /\ ~(m + i <= m) /\ (m + i) - m = i
  OBVIOUS
<1>7. \A i \in 1 .. m : (a \o b)[i] = a[i]
  BY <1>4, <1>5
<1>8. \A i \in 1 .. n : (a \o b)[m + i] = b[i]
  BY <1>4, <1>6
<1> QED BY <1>2, <1>3, <1>4, <1>7, <1>8 DEF Frame

\* It does not matter which of three frames are joined first.
LEMMA JoinsOver ==
  ASSUME NEW a \in Frame, NEW b \in Frame, NEW c \in Frame
  PROVE  (a \o b) \o c = a \o (b \o c)
BY ConcatAssociative, SMTT(30) DEF Frame

\* Nothing joined to a frame.
LEMMA JoinsNone ==
  ASSUME NEW a \in Frame
  PROVE  a \o <<>> = a /\ <<>> \o a = a /\ <<>> \in Frame
BY ConcatEmptySeq, EmptySeq DEF Frame

\* Frames with the same numbers are the same.
LEMMA SameFrame ==
  ASSUME NEW a \in Frame, NEW b \in Frame, Len(a) = Len(b), \A i \in 1 .. Len(a) : a[i] = b[i]
  PROVE  a = b
BY SeqEqual DEF Frame

\* The empty frame is the one without length.
LEMMA IsEmpty ==
  ASSUME NEW a \in Frame
  PROVE  Len(a) \in Nat /\ (a = <<>> <=> Len(a) = 0)
BY EmptySeq DEF Frame

\* What follows the first k numbers.
Beyond(s, k) == [i \in 1 .. Len(s) - k |-> s[k + i]]

\* What follows the first k numbers has the rest of them.
LEMMA BeyondIs ==
  ASSUME NEW s \in Frame, NEW k \in 0 .. Len(s)
  PROVE  /\ Beyond(s, k) \in Frame /\ Len(Beyond(s, k)) = Len(s) - k
         /\ \A i \in 1 .. Len(s) - k : Beyond(s, k)[i] = s[k + i]
<1>1. PICK m \in Nat : m = Len(s)
  BY IsEmpty
<1>2. s \in [1 .. m -> Nat]
  BY <1>1 DEF Frame
<1>3. \A i \in 1 .. m - k : k + i \in 1 .. m
  BY <1>1
<1>4. m - k \in Nat
  BY <1>1
<1>5. Beyond(s, k) \in [1 .. m - k -> Nat]
  BY <1>1, <1>2, <1>3 DEF Beyond
<1>6. Beyond(s, k) \in Seq(Nat) /\ Len(Beyond(s, k)) = m - k
  <2>1. PICK z \in [1 .. m - k -> Nat] : z = Beyond(s, k)
    BY <1>5
  <2>2. z \in Seq(Nat) /\ Len(z) = m - k
    BY <1>4
  <2> QED BY <2>1, <2>2
<1> QED BY <1>1, <1>6 DEF Beyond, Frame

\* A frame that starts with another is that one and something.
LEMMA StartsWith ==
  ASSUME NEW a \in Frame, NEW s \in Frame, Len(a) <= Len(s), \A i \in 1 .. Len(a) : s[i] = a[i]
  PROVE  s = a \o Beyond(s, Len(a)) /\ Beyond(s, Len(a)) \in Frame
<1>1. PICK m \in Nat : m = Len(a)
  BY IsEmpty
<1>2. PICK n \in Nat : n = Len(s)
  BY IsEmpty
<1>3. m \in 0 .. n
  BY <1>1, <1>2
<1>4. PICK t : t = Beyond(s, m)
  OBVIOUS
<1>5. t \in Frame /\ Len(t) = n - m /\ \A i \in 1 .. n - m : t[i] = s[m + i]
  BY <1>2, <1>3, <1>4, BeyondIs
<1>6. /\ a \o t \in Frame /\ Len(a \o t) = n
      /\ \A i \in 1 .. m : (a \o t)[i] = a[i]
      /\ \A i \in 1 .. n - m : (a \o t)[m + i] = t[i]
  <2>1. m + (n - m) = n
    OBVIOUS
  <2>2. PICK j : j = n - m
    OBVIOUS
  <2>3. t \in Frame /\ Len(t) = j
    BY <1>5, <2>2
  <2>4. /\ a \o t \in Frame /\ Len(a \o t) = m + j
        /\ \A i \in 1 .. m : (a \o t)[i] = a[i]
        /\ \A i \in 1 .. j : (a \o t)[m + i] = t[i]
    BY <1>1, <2>3, Joins
  <2> QED BY <2>1, <2>2, <2>4
<1>7. ASSUME NEW i \in 1 .. n PROVE s[i] = (a \o t)[i]
  <2>1. CASE i <= m
    <3>1. i \in 1 .. m
      BY <2>1
    <3> QED BY <1>1, <1>6, <3>1
  <2>2. CASE i > m
    <3>1. i - m \in 1 .. n - m /\ m + (i - m) = i
      BY <2>2
    <3>2. t[i - m] = s[m + (i - m)] /\ (a \o t)[m + (i - m)] = t[i - m]
      BY <1>5, <1>6, <3>1
    <3> QED BY <3>1, <3>2
  <2>3. i <= m \/ i > m
    OBVIOUS
  <2> QED BY <2>1, <2>2, <2>3
<1>8. s = a \o t
  BY <1>2, <1>6, <1>7, SameFrame
<1> QED BY <1>1, <1>4, <1>5, <1>8

\* A cut is shorter, and where it is cut in two parts it is cut in the first, or
\* behind it in the second.
LEMMA CutIs ==
  ASSUME NEW s \in Frame, NEW f \in Frame, Cut(s, f)
  PROVE  /\ Len(s) < Len(f) /\ Len(s) \in Nat /\ Len(f) \in Nat
         /\ \A i \in 1 .. Len(s) : f[i] = s[i]
<1>1. PICK u \in Frame : u # <<>> /\ f = s \o u
  BY DEF Cut
<1>2. Len(u) \in Nat \ {0} /\ Len(s) \in Nat
  BY <1>1, IsEmpty
<1>3. Len(f) = Len(s) + Len(u) /\ \A i \in 1 .. Len(s) : f[i] = s[i]
  BY <1>1, Joins
<1> QED BY <1>2, <1>3

\* Where two frames are cut, the first one is, or the second one behind it.
LEMMA CutSplits ==
  ASSUME NEW s \in Frame, NEW a \in Frame, NEW b \in Frame, Cut(s, a \o b)
  PROVE  Cut(s, a) \/ \E t \in Frame : s = a \o t /\ Cut(t, b)
<1>1. a \o b \in Frame
  BY Joins
<1>2. PICK m \in Nat : m = Len(a)
  BY IsEmpty
<1>3. PICK n \in Nat : n = Len(b)
  BY IsEmpty
<1>4. PICK k \in Nat : k = Len(s)
  BY IsEmpty
<1>5. /\ k < m + n /\ \A i \in 1 .. k : (a \o b)[i] = s[i]
  BY <1>1, <1>2, <1>3, <1>4, CutIs, Joins
<1>6. CASE k < m
  <2>1. \A i \in 1 .. k : i \in 1 .. m
    BY <1>6
  <2>2. \A i \in 1 .. k : a[i] = s[i]
    BY <1>2, <1>5, <2>1, Joins
  <2>3. a = s \o Beyond(a, k) /\ Beyond(a, k) \in Frame /\ Len(Beyond(a, k)) = m - k
    <3>1. k \in 0 .. m /\ k <= m
      BY <1>6
    <3>2. a = s \o Beyond(a, k) /\ Beyond(a, k) \in Frame
      BY <1>2, <1>4, <2>2, <3>1, StartsWith
    <3> QED BY <1>2, <3>1, <3>2, BeyondIs
  <2>4. Beyond(a, k) # <<>>
    <3>1. m - k # 0
      BY <1>6
    <3> QED BY <2>3, <3>1, IsEmpty
  <2> QED BY <2>3, <2>4 DEF Cut
<1>7. CASE m <= k
  <2>1. \A i \in 1 .. m : i \in 1 .. k
    BY <1>7
  <2>2. \A i \in 1 .. m : s[i] = a[i]
    BY <1>2, <1>5, <2>1, Joins
  <2>3. PICK t \in Frame : s = a \o t /\ t = Beyond(s, m)
    BY <1>2, <1>4, <1>7, <2>2, StartsWith
  <2>4. Len(t) = k - m /\ \A i \in 1 .. k - m : t[i] = s[m + i]
    <3>1. m \in 0 .. k
      BY <1>7
    <3> QED BY <1>4, <2>3, <3>1, BeyondIs
  <2>5. \A i \in 1 .. k - m : b[i] = t[i]
    <3>1. \A i \in 1 .. k - m : m + i \in 1 .. k /\ i \in 1 .. n
      BY <1>5, <1>7
    <3>2. \A i \in 1 .. n : (a \o b)[m + i] = b[i]
      BY <1>2, <1>3, Joins
    <3> QED BY <1>5, <2>4, <3>1, <3>2
  <2>6. k - m \in Nat /\ k - m < n /\ n - (k - m) # 0
    BY <1>5, <1>7
  <2>7. PICK j \in Nat : j = k - m
    BY <2>6
  <2>8. b = t \o Beyond(b, j) /\ Beyond(b, j) \in Frame /\ Len(Beyond(b, j)) = n - j
    <3>1. j \in 0 .. n /\ Len(t) <= Len(b) /\ Len(t) = j
      BY <1>3, <2>4, <2>6, <2>7
    <3>2. \A i \in 1 .. Len(t) : b[i] = t[i]
      BY <2>4, <2>5
    <3> QED BY <1>3, <3>1, <3>2, StartsWith, BeyondIs
  <2>9. Beyond(b, j) # <<>>
    BY <2>6, <2>7, <2>8, IsEmpty
  <2> QED BY <2>3, <2>8, <2>9 DEF Cut
<1> QED BY <1>6, <1>7

\* A number and what follows it.
LEMMA Leads ==
  ASSUME NEW n \in Nat, NEW t \in Frame
  PROVE  /\ <<n>> \in Frame /\ <<n>> \o t \in Frame /\ <<n>> \o t # <<>>
         /\ Head(<<n>> \o t) = n /\ Tail(<<n>> \o t) = t
         /\ Len(<<n>> \o t) = Len(t) + 1 /\ Len(t) \in Nat
<1>1. <<n>> \in Frame /\ Len(<<n>>) = 1 /\ <<n>>[1] = n
  BY DEF Frame
<1>2. PICK k \in Nat : k = Len(t)
  BY IsEmpty
<1>3. PICK s : s = <<n>> \o t
  OBVIOUS
<1>4. /\ s \in Frame /\ Len(s) = k + 1 /\ s[1] = n
      /\ \A i \in 1 .. k : s[1 + i] = t[i]
  <2>1. 1 \in 1 .. 1 /\ 1 + k = k + 1
    OBVIOUS
  <2> QED BY <1>1, <1>2, <1>3, <2>1, Joins
<1>5. s # <<>> /\ s \in Seq(Nat)
  BY <1>4, IsEmpty DEF Frame
<1>6. Head(s) = s[1]
  BY <1>5
<1>7. Tail(s) \in Frame /\ Len(Tail(s)) = k /\ \A i \in 1 .. Len(Tail(s)) : Tail(s)[i] = s[i + 1]
  <2>1. Tail(s) \in Seq(Nat) /\ Len(Tail(s)) = Len(s) - 1 /\ \A i \in 1 .. Len(Tail(s)) : Tail(s)[i] = s[i + 1]
    BY <1>5, HeadTailProperties
  <2>2. (k + 1) - 1 = k
    OBVIOUS
  <2> QED BY <1>4, <2>1, <2>2 DEF Frame
<1>8. Tail(s) = t
  <2>1. PICK q : q = Tail(s)
    OBVIOUS
  <2>2. \A i \in 1 .. k : q[i] = s[i + 1]
    BY <1>7, <2>1
  <2>3. \A i \in 1 .. k : q[i] = t[i]
    BY <1>4, <2>2
  <2> QED BY <1>2, <1>7, <2>1, <2>3, SameFrame
<1> QED BY <1>1, <1>2, <1>3, <1>4, <1>5, <1>6, <1>8

\* What is left of a number and what follows when it is cut.
LEMMA CutBehind ==
  ASSUME NEW s \in Frame, NEW n \in Nat, NEW t \in Frame, Cut(s, <<n>> \o t), s # <<>>
  PROVE  \E v \in Frame : s = <<n>> \o v /\ Cut(v, t)
<1>1. <<n>> \in Frame /\ Len(<<n>>) = 1
  BY DEF Frame
<1>2. ~Cut(s, <<n>>)
  <2> SUFFICES ASSUME Cut(s, <<n>>) PROVE FALSE
    OBVIOUS
  <2>1. Len(s) < 1 /\ Len(s) \in Nat
    BY <1>1, CutIs
  <2>2. Len(s) = 0
    BY <2>1
  <2> QED BY <2>2, IsEmpty
<1> QED BY <1>1, <1>2, CutSplits

\* What a reader of values of W gives.
Results(W) == [ok : BOOLEAN, value : W, rest : Frame]
Readers(W) == [Frame -> Results(W)]

\* What is read after a result.
After(sofar, read) ==
  LET next == read[sofar.rest] IN
  IF sofar.ok /\ next.ok THEN Result(Append(sofar.value, next.value), next.rest) ELSE Failed

\* r reads s, one reader after another.
ReadsTo(readers, s, W, r) ==
  /\ r \in [0 .. Len(readers) -> Results(Seq(W))]
  /\ r[0] = Result(<<>>, s) /\ r[Len(readers)] = ReadAll(readers, s)
  /\ \A i \in 1 .. Len(readers) : r[i] = After(r[i - 1], readers[i])

\* What is read after a result is a result.
LEMMA AfterIs ==
  ASSUME NEW W, NEW h \in Results(Seq(W)), NEW read \in Readers(W)
  PROVE  After(h, read) \in Results(Seq(W))
<1>1. /\ h.ok \in BOOLEAN /\ h.value \in Seq(W) /\ h.rest \in Frame
  BY DEF Results
<1>2. PICK next \in Results(W) : next = read[h.rest]
  BY <1>1 DEF Readers
<1>3. next.ok \in BOOLEAN /\ next.value \in W /\ next.rest \in Frame
  BY DEF Results
<1>4. PICK v : v = Append(h.value, next.value)
  OBVIOUS
<1>5. v \in Seq(W)
  BY <1>1, <1>3, <1>4
<1>6. Result(v, next.rest) \in Results(Seq(W))
  BY <1>3, <1>5 DEF Result, Results
<1>7. Failed \in Results(Seq(W))
  BY JoinsNone DEF Failed, Results, Frame
<1> QED BY <1>2, <1>4, <1>6, <1>7 DEF After

\* ReadAll reads with one reader after another.
LEMMA ReadSteps ==
  ASSUME NEW W, NEW readers \in Seq(Readers(W)), NEW s \in Frame
  PROVE  \E r : ReadsTo(readers, s, W, r)
<1> DEFINE A == Results(Seq(W))
           a == Result(<<>>, s)
           n == Len(readers)
           D == SUBSET (1 .. n)
           F == [i \in Nat |-> [h \in A |-> IF i \in 1 .. n THEN After(h, readers[i]) ELSE h]]
<1>1. n \in Nat /\ DOMAIN readers = 1 .. n /\ \A i \in 1 .. n : readers[i] \in Readers(W)
  OBVIOUS
<1>a. a \in A
  BY EmptySeq DEF Result, Results
<1>2. F \in [Nat -> [A -> A]]
  <2>1. \A i \in 1 .. n : \A h \in A : After(h, readers[i]) \in A
    BY <1>1, AfterIs
  <2> HIDE DEF A, n
  <2> QED BY <2>1
<1>3. PICK g : TakesMax(A, a, n, F, g)
  <2> HIDE DEF F, A, n, a
  <2> QED BY <1>1, <1>2, <1>a, MaxRecursion
<1>4. \A t \in D : t # {} => g[t] = After(g[t \ {Max(t)}], readers[Max(t)])
  <2> SUFFICES ASSUME NEW t \in D, t # {} PROVE g[t] = After(g[t \ {Max(t)}], readers[Max(t)])
    OBVIOUS
  <2>1. Max(t) \in 1 .. n
    BY <1>1, MaxOfFinite
  <2>2. PICK m \in 1 .. n : m = Max(t)
    BY <2>1
  <2>3. t \ {m} \in D /\ g \in [D -> A]
    BY <1>3 DEF TakesMax
  <2>4. PICK h \in A : h = g[t \ {m}]
    BY <2>3
  <2>5. F[m][h] = After(h, readers[m])
    <3> HIDE DEF A
    <3> QED BY <1>1
  <2> HIDE DEF F, A
  <2> QED BY <1>3, <2>2, <2>4, <2>5 DEF TakesMax
<1>5. g = [t \in SUBSET (DOMAIN readers) |-> IF t = {} THEN a ELSE After(g[t \ {Max(t)}], readers[Max(t)])]
  <2> HIDE DEF a, A, F
  <2>1. {} \in D /\ g \in [D -> A] /\ DOMAIN readers = 1 .. n
    BY <1>1, <1>3 DEF TakesMax
  <2>2. g[{}] = a
    BY <1>3 DEF TakesMax
  <2> QED BY <1>4, <2>1, <2>2
<1> DEFINE iter == CHOOSE g1 : g1 = [t \in SUBSET (DOMAIN readers) |-> IF t = {} THEN a ELSE After(g1[t \ {Max(t)}], readers[Max(t)])]
<1>6. iter = [t \in SUBSET (DOMAIN readers) |-> IF t = {} THEN a ELSE After(iter[t \ {Max(t)}], readers[Max(t)])]
  <2> HIDE DEF a, A, F, n, D
  <2> QED BY <1>5, Zenon
<1>7. ReadAll(readers, s) = iter[DOMAIN readers]
  BY Zenon DEF ReadAll, FoldLeft, MapThenFoldSet, After
<1> HIDE DEF iter, a, A
<1>8. iter[{}] = a
  BY <1>1, <1>6
<1>9. ASSUME NEW t \in D, t # {}, iter[t \ {Max(t)}] \in A
      PROVE  iter[t] = F[Max(t)][iter[t \ {Max(t)}]]
  <2>1. Max(t) \in 1 .. n
    BY <1>1, <1>9, MaxOfFinite
  <2>2. PICK m \in 1 .. n, h \in A : m = Max(t) /\ h = iter[t \ {Max(t)}]
    BY <1>9, <2>1
  <2>3. F[m][h] = After(h, readers[m])
    BY <1>1
  <2>4. iter[t] = After(h, readers[m])
    BY <1>1, <1>6, <1>9, <2>2
  <2> HIDE DEF F
  <2> QED BY <2>2, <2>3, <2>4
<1>10. PICK r : Runs(A, a, n, F, r, iter[1 .. n])
  <2>2. Follows(A, n, F, iter)
    <3> HIDE DEF F
    <3> QED BY <1>9 DEF Follows
  <2> HIDE DEF F, n
  <2> QED BY <1>1, <1>2, <1>8, <2>2, <1>a, MaxOrder
<1>11. ASSUME NEW i \in 1 .. n PROVE r[i] = After(r[i - 1], readers[i])
  <2>1. r[i - 1] \in A /\ i \in Nat
    BY <1>1, <1>10 DEF Runs
  <2>2. F[i][r[i - 1]] = After(r[i - 1], readers[i])
    BY <1>1, <2>1
  <2> QED BY <1>10, <2>2 DEF Runs
<1>12. ReadsTo(readers, s, W, r)
  BY <1>1, <1>7, <1>10, <1>11 DEF Runs, ReadsTo, a, A
<1> QED BY <1>12

\* j puts one form after another.
JoinedBy(forms, j) ==
  /\ j \in [0 .. Len(forms) -> Frame]
  /\ j[0] = <<>> /\ j[Len(forms)] = FlattenSeq(forms)
  /\ \A i \in 1 .. Len(forms) : j[i] = j[i - 1] \o forms[i]

\* FlattenSeq puts one form after another.
LEMMA FlattenSteps ==
  ASSUME NEW forms \in Seq(Frame)
  PROVE  \E j : JoinedBy(forms, j)
<1> DEFINE n == Len(forms)
           F == [i \in Nat |-> [h \in Frame |-> IF i + 1 \in 1 .. n THEN h \o forms[i + 1] ELSE h]]
<1>1. n \in Nat /\ DOMAIN forms = 1 .. n /\ \A i \in 1 .. n : forms[i] \in Frame
  OBVIOUS
<1>2. F \in [Nat -> [Frame -> Frame]]
  <2>1. \A i \in 1 .. n : \A h \in Frame : h \o forms[i] \in Frame
    BY <1>1, Joins
  <2> HIDE DEF n
  <2>2. ASSUME NEW i \in Nat, NEW h \in Frame
        PROVE  (IF i + 1 \in 1 .. n THEN h \o forms[i + 1] ELSE h) \in Frame
    BY <2>1
  <2> QED BY <2>2
<1>3. <<>> \in Frame
  BY EmptySeq DEF Frame
<1>4. PICK f : RecursiveBy(Frame, <<>>, F, f)
  <2> HIDE DEF F
  <2> QED BY <1>2, <1>3, NatRecursion
<1>5. ASSUME NEW i \in 1 .. n PROVE f[i] = f[i - 1] \o forms[i]
  <2>1. i - 1 \in Nat /\ (i - 1) + 1 = i
    BY <1>1
  <2>2. PICK h \in Frame : h = f[i - 1]
    BY <1>4, <2>1 DEF RecursiveBy
  <2>3. PICK k \in Nat : k = i - 1 /\ k + 1 = i
    BY <2>1
  <2>4. F[k][h] = h \o forms[i]
    <3> HIDE DEF n
    <3> QED BY <2>3
  <2>5. f[k + 1] = F[k][f[k]]
    <3> HIDE DEF F
    <3> QED BY <1>4 DEF RecursiveBy
  <2> HIDE DEF F
  <2> QED BY <2>2, <2>3, <2>4, <2>5
<1>6. f[0] = <<>> /\ \A i \in 0 .. n : f[i] \in Frame
  BY <1>1, <1>4 DEF RecursiveBy
<1>7. f[n] = FlattenSeq(forms)
  <2>1. CASE n = 0
    <3>1. forms = <<>>
      BY <2>1
    <3> QED BY <1>6, <2>1, <3>1 DEF FlattenSeq
  <2>2. CASE n # 0
    <3> DEFINE G(g) == [i \in 1 .. Len(forms) |-> IF i = 1 THEN forms[i] ELSE g[i - 1] \o forms[i]]
               flatten == CHOOSE g : g = G(g)
               g0 == [i \in 1 .. n |-> f[i]]
    <3>1. FlattenSeq(forms) = flatten[n]
      BY <2>2, Zenon DEF FlattenSeq
    <3>2. f[1] = forms[1]
      <4>1. 1 \in 1 .. n /\ 1 - 1 = 0
        BY <1>1, <2>2
      <4>2. f[1] = <<>> \o forms[1] /\ forms[1] \in Frame
        BY <1>1, <1>5, <1>6, <4>1
      <4> QED BY <4>2, JoinsNone
    <3>3. ASSUME NEW i \in 1 .. n PROVE g0[i] = IF i = 1 THEN forms[i] ELSE g0[i - 1] \o forms[i]
      <4>1. CASE i = 1
        BY <3>2, <4>1
      <4>2. CASE i # 1
        <5>1. i - 1 \in 1 .. n
          BY <1>1, <4>2
        <5> QED BY <1>5, <4>2, <5>1
      <4> QED BY <4>1, <4>2
    <3>4. g0 = G(g0)
      <4>1. DOMAIN g0 = 1 .. n /\ g0 = [i \in 1 .. n |-> g0[i]]
        OBVIOUS
      <4> HIDE DEF g0
      <4> QED BY <3>3, <4>1
    <3>5. flatten = G(flatten)
      <4> HIDE DEF g0, n
      <4> QED BY <3>4, Zenon
    <3> HIDE DEF flatten
    <3>6. ASSUME NEW i \in 1 .. n
          PROVE  flatten[i] = IF i = 1 THEN forms[i] ELSE flatten[i - 1] \o forms[i]
      BY <3>5
    <3> DEFINE S == {i \in Nat : i + 1 <= n => flatten[i + 1] = f[i + 1]}
    <3>7. 0 \in S
      <4>1. 1 \in 1 .. n
        BY <1>1, <2>2
      <4>2. flatten[1] = f[1]
        BY <3>2, <3>6, <4>1
      <4> QED BY <4>2
    <3>8. ASSUME NEW i \in Nat, i \in S PROVE i + 1 \in S
      <4> SUFFICES ASSUME (i + 1) + 1 <= n PROVE flatten[(i + 1) + 1] = f[(i + 1) + 1]
        OBVIOUS
      <4>1. PICK k : k = (i + 1) + 1
        OBVIOUS
      <4>2. k \in 1 .. n /\ k # 1 /\ k - 1 = i + 1 /\ i + 1 <= n
        BY <1>1, <4>1
      <4>3. flatten[i + 1] = f[i + 1]
        BY <3>8, <4>2
      <4>4. flatten[k] = flatten[k - 1] \o forms[k]
        BY <3>6, <4>2
      <4>5. f[k] = f[k - 1] \o forms[k]
        BY <1>5, <4>2
      <4> QED BY <4>1, <4>2, <4>3, <4>4, <4>5
    <3>9. n - 1 \in Nat /\ (n - 1) + 1 = n
      BY <1>1, <2>2
    <3>10. n - 1 \in S
      <4> HIDE DEF S
      <4> QED BY <3>7, <3>8, <3>9, SetInduction
    <3>11. flatten[n] = f[n]
      <4> HIDE DEF n
      <4> QED BY <1>1, <3>9, <3>10
    <3> QED BY <3>1, <3>11
  <2> QED BY <2>1, <2>2
<1> DEFINE j == [i \in 0 .. n |-> f[i]]
<1>8. j \in [0 .. n -> Frame] /\ j[0] = <<>> /\ j[n] = FlattenSeq(forms)
  <2>1. 0 \in 0 .. n /\ n \in 0 .. n
    BY <1>1
  <2> QED BY <1>6, <1>7, <2>1
<1>9. \A i \in 1 .. n : j[i] = j[i - 1] \o forms[i]
  <2>1. \A i \in 1 .. n : i - 1 \in 0 .. n /\ i \in 0 .. n
    BY <1>1
  <2> QED BY <1>5, <2>1
<1>10. JoinedBy(forms, j)
  <2> HIDE DEF j
  <2> QED BY <1>8, <1>9 DEF JoinedBy
<1> QED BY <1>10

\* A reader takes the form of a value off the front, if the value fits, and refuses it
\* otherwise; and refuses what is cut off.
Handles(reader, form, v, fits) ==
  /\ \A u \in Frame : IF fits THEN reader[form \o u] = Result(v, u) ELSE ~reader[form \o u].ok
  /\ \A s \in Frame : Cut(s, form) => ~reader[s].ok

AllFit(n, fit) == \A i \in 1 .. n : fit[i]

\* It matters only whether the value fits.
LEMMA SameFit ==
  ASSUME NEW reader, NEW form, NEW v, NEW p, NEW q, Handles(reader, form, v, p), p <=> q
  PROVE  Handles(reader, form, v, q)
BY DEF Handles

\* Where reading stands after k forms of s.
Stands(s, k, jk, rk, vals, fit) ==
  /\ \A t \in Frame : s = jk \o t =>
       IF \A i \in 1 .. k : fit[i] THEN rk = Result(SubSeq(vals, 1, k), t) ELSE ~rk.ok
  /\ Cut(s, jk) => ~rk.ok

\* The first k values and the next one.
LEMMA OneMore ==
  ASSUME NEW W, NEW vals \in Seq(W), NEW k \in Nat, k + 1 <= Len(vals)
  PROVE  Append(SubSeq(vals, 1, k), vals[k + 1]) = SubSeq(vals, 1, k + 1)
<1>1. PICK m \in Nat : m = Len(vals)
  OBVIOUS
<1>2. k + 1 \in 1 .. m /\ 1 \in 1 .. m /\ k + 1 \in 1 .. k + 1 /\ (k + 1) - 1 = k
  BY <1>1
<1>3. PICK p : p = SubSeq(vals, 1, k)
  OBVIOUS
<1>4. PICK q : q = SubSeq(vals, 1, k + 1)
  OBVIOUS
<1>5. \A i \in 1 .. k + 1 : i \in 1 .. m
  BY <1>2
<1>6. \A i \in 1 .. k + 1 : vals[i] \in W
  BY <1>1, <1>5
<1>7. \A i \in 1 .. k : vals[i] \in W
  BY <1>6
<1>8. p \in Seq(W) /\ Len(p) = k /\ \A i \in 1 .. k : p[i] = vals[i]
  <2>1. 1 \in Int /\ k \in Int /\ k - 1 + 1 = k
    OBVIOUS
  <2>2. /\ p \in Seq(W) /\ Len(p) = (IF 1 <= k THEN k - 1 + 1 ELSE 0)
        /\ \A i \in 1 .. k - 1 + 1 : p[i] = vals[1 + i - 1]
    BY <1>3, <1>7, <2>1, SubSeqProperties
  <2>3. \A i \in 1 .. k : 1 + i - 1 = i
    OBVIOUS
  <2>4. (IF 1 <= k THEN k - 1 + 1 ELSE 0) = k
    OBVIOUS
  <2>5. \A i \in 1 .. k : p[i] = vals[1 + i - 1]
    BY <2>1, <2>2
  <2> QED BY <2>2, <2>3, <2>4, <2>5
<1>9. q \in Seq(W) /\ Len(q) = k + 1 /\ \A i \in 1 .. k + 1 : q[i] = vals[i]
  <2>1. 1 \in Int /\ k + 1 \in Int /\ (k + 1) - 1 + 1 = k + 1 /\ 1 <= k + 1
    OBVIOUS
  <2>2. /\ q \in Seq(W) /\ Len(q) = (IF 1 <= k + 1 THEN (k + 1) - 1 + 1 ELSE 0)
        /\ \A i \in 1 .. (k + 1) - 1 + 1 : q[i] = vals[1 + i - 1]
    BY <1>4, <1>6, <2>1, SubSeqProperties
  <2>3. \A i \in 1 .. k + 1 : 1 + i - 1 = i
    OBVIOUS
  <2>5. \A i \in 1 .. k + 1 : q[i] = vals[1 + i - 1]
    BY <2>1, <2>2
  <2> QED BY <2>1, <2>2, <2>3, <2>5
<1>10. PICK e : e = Append(p, vals[k + 1])
  OBVIOUS
<1>11. vals[k + 1] \in W
  BY <1>2, <1>6
<1>12. e \in Seq(W) /\ Len(e) = k + 1 /\ e[k + 1] = vals[k + 1] /\ \A i \in 1 .. k : e[i] = p[i]
  BY <1>8, <1>10, <1>11
<1>13. \A i \in 1 .. k + 1 : i \in 1 .. k \/ i = k + 1
  OBVIOUS
<1>14. \A i \in 1 .. k + 1 : e[i] = q[i]
  BY <1>8, <1>9, <1>12, <1>13
<1>15. e = q
  BY <1>9, <1>12, <1>14, SeqEqual
<1> QED BY <1>3, <1>4, <1>10, <1>15

\* Reading on, after one more form.
LEMMA StandsNext ==
  ASSUME NEW W, NEW vals \in Seq(W), NEW n \in Nat, Len(vals) = n,
         NEW fit \in [1 .. n -> BOOLEAN], NEW s \in Frame,
         NEW k \in Nat, k + 1 <= n,
         NEW jk \in Frame, NEW rk \in Results(Seq(W)),
         NEW form \in Frame, NEW reader,
         Stands(s, k, jk, rk, vals, fit),
         Handles(reader, form, vals[k + 1], fit[k + 1])
  PROVE  Stands(s, k + 1, jk \o form, After(rk, reader), vals, fit)
<1>1. k + 1 \in 1 .. n /\ fit[k + 1] \in BOOLEAN
  OBVIOUS
<1>2. rk.ok \in BOOLEAN
  BY DEF Results
<1>3. (\A i \in 1 .. k + 1 : fit[i]) <=> (\A i \in 1 .. k : fit[i]) /\ fit[k + 1]
  OBVIOUS
<1>4. ~Failed.ok
  BY DEF Failed
<1>5. ASSUME NEW t \in Frame, s = (jk \o form) \o t
      PROVE  IF \A i \in 1 .. k + 1 : fit[i] THEN After(rk, reader) = Result(SubSeq(vals, 1, k + 1), t)
             ELSE ~After(rk, reader).ok
  <2>1. s = jk \o (form \o t) /\ form \o t \in Frame
    <3>1. form \o t \in Frame
      BY Joins
    <3>2. (jk \o form) \o t = jk \o (form \o t)
      BY JoinsOver
    <3> QED BY <1>5, <3>1, <3>2
  <2>2. PICK q \in Frame : q = form \o t
    BY <2>1
  <2>3. IF \A i \in 1 .. k : fit[i] THEN rk = Result(SubSeq(vals, 1, k), q) ELSE ~rk.ok
    BY <2>1, <2>2 DEF Stands
  <2>4. IF fit[k + 1] THEN reader[q] = Result(vals[k + 1], t) ELSE ~reader[q].ok
    BY <2>2 DEF Handles
  <2>5. CASE \A i \in 1 .. k : fit[i]
    <3>1. rk.ok /\ rk.value = SubSeq(vals, 1, k) /\ rk.rest = q
      BY <2>3, <2>5 DEF Result
    <3>2. CASE fit[k + 1]
      <4>1. reader[q].ok /\ reader[q].value = vals[k + 1] /\ reader[q].rest = t
        BY <2>4, <3>2 DEF Result
      <4>2. After(rk, reader) = Result(Append(SubSeq(vals, 1, k), vals[k + 1]), t)
        BY <3>1, <4>1 DEF After
      <4>3. After(rk, reader) = Result(SubSeq(vals, 1, k + 1), t)
        BY <4>2, OneMore
      <4> QED BY <1>3, <2>5, <3>2, <4>3
    <3>3. CASE ~fit[k + 1]
      <4>1. After(rk, reader) = Failed
        BY <2>4, <3>1, <3>3 DEF After
      <4> QED BY <1>3, <1>4, <3>3, <4>1
    <3> QED BY <1>1, <3>2, <3>3
  <2>6. CASE ~\A i \in 1 .. k : fit[i]
    <3>1. After(rk, reader) = Failed
      BY <2>3, <2>6 DEF After
    <3> QED BY <1>3, <1>4, <2>6, <3>1
  <2> QED BY <2>5, <2>6
<1>6. ASSUME Cut(s, jk \o form) PROVE ~After(rk, reader).ok
  <2>1. CASE Cut(s, jk)
    <3>1. ~rk.ok
      BY <2>1 DEF Stands
    <3> QED BY <1>4, <3>1 DEF After
  <2>2. CASE \E t \in Frame : s = jk \o t /\ Cut(t, form)
    <3>1. PICK t \in Frame : s = jk \o t /\ Cut(t, form)
      BY <2>2
    <3>2. ~reader[t].ok
      BY <3>1 DEF Handles
    <3>3. rk.ok => rk.rest = t
      <4>1. IF \A i \in 1 .. k : fit[i] THEN rk = Result(SubSeq(vals, 1, k), t) ELSE ~rk.ok
        BY <3>1 DEF Stands
      <4> QED BY <4>1 DEF Result
    <3> QED BY <1>4, <3>2, <3>3 DEF After
  <2> QED BY <1>6, <2>1, <2>2, CutSplits
<1>7. QED
  <2>1. /\ \A t \in Frame : s = (jk \o form) \o t =>
             (IF \A i \in 1 .. k + 1 : fit[i] THEN After(rk, reader) = Result(SubSeq(vals, 1, k + 1), t)
              ELSE ~After(rk, reader).ok)
    BY <1>5
  <2> QED BY <1>6, <2>1 DEF Stands

\* So do readers one after another, with the forms of a sequence of values.
LEMMA AllHandled ==
  ASSUME NEW W, NEW readers \in Seq(Readers(W)), NEW forms \in Seq(Frame), NEW vals \in Seq(W),
         NEW n \in Nat, Len(readers) = n, Len(forms) = n, Len(vals) = n,
         NEW fit \in [1 .. n -> BOOLEAN],
         \A i \in 1 .. n : Handles(readers[i], forms[i], vals[i], fit[i])
  PROVE  /\ FlattenSeq(forms) \in Frame
         /\ Handles([s \in Frame |-> ReadAll(readers, s)], FlattenSeq(forms), vals, AllFit(n, fit))
<1>1. PICK j : JoinedBy(forms, j)
  BY FlattenSteps
<1>2. /\ \A i \in 0 .. n : j[i] \in Frame
      /\ j[0] = <<>> /\ j[n] = FlattenSeq(forms)
      /\ \A i \in 1 .. n : j[i] = j[i - 1] \o forms[i]
  BY <1>1 DEF JoinedBy
<1>3. \A i \in 1 .. n : forms[i] \in Frame /\ vals[i] \in W
  OBVIOUS
<1>4. ASSUME NEW s \in Frame
      PROVE  Stands(s, n, j[n], ReadAll(readers, s), vals, fit)
  <2>1. PICK r : ReadsTo(readers, s, W, r)
    BY ReadSteps
  <2>2. /\ \A i \in 0 .. n : r[i] \in Results(Seq(W))
        /\ r[0] = Result(<<>>, s) /\ r[n] = ReadAll(readers, s)
        /\ \A i \in 1 .. n : r[i] = After(r[i - 1], readers[i])
    BY <2>1 DEF ReadsTo
  <2> DEFINE S == {k \in Nat : k <= n => Stands(s, k, j[k], r[k], vals, fit)}
  <2>3. 0 \in S
    <3>1. SubSeq(vals, 1, 0) = <<>>
      BY SubSeqEmpty
    <3>2. ~Cut(s, <<>>)
      <4> SUFFICES ASSUME Cut(s, <<>>) PROVE FALSE
        OBVIOUS
      <4>1. <<>> \in Frame /\ Len(<<>>) = 0
        BY EmptySeq DEF Frame
      <4>2. Len(s) < 0 /\ Len(s) \in Nat
        BY <4>1, CutIs
      <4> QED BY <4>2
    <3>3. \A t \in Frame : <<>> \o t = t
      BY JoinsNone
    <3>4. Stands(s, 0, <<>>, Result(<<>>, s), vals, fit)
      <4>1. \A i \in 1 .. 0 : fit[i]
        OBVIOUS
      <4>2. \A t \in Frame : s = <<>> \o t => t = s
        BY <3>3
      <4>3. \A t \in Frame : s = <<>> \o t =>
              (IF \A i \in 1 .. 0 : fit[i] THEN Result(<<>>, s) = Result(SubSeq(vals, 1, 0), t) ELSE ~Result(<<>>, s).ok)
        BY <3>1, <4>1, <4>2
      <4> QED BY <3>2, <4>3 DEF Stands
    <3> QED BY <1>2, <2>2, <3>4
  <2>4. ASSUME NEW k \in Nat, k \in S PROVE k + 1 \in S
    <3> SUFFICES ASSUME k + 1 <= n PROVE Stands(s, k + 1, j[k + 1], r[k + 1], vals, fit)
      OBVIOUS
    <3>1. k + 1 \in 1 .. n /\ (k + 1) - 1 = k /\ k \in 0 .. n /\ k <= n
      OBVIOUS
    <3>2. Stands(s, k, j[k], r[k], vals, fit) /\ Handles(readers[k + 1], forms[k + 1], vals[k + 1], fit[k + 1])
      BY <2>4, <3>1
    <3> HIDE DEF S
    <3>3. j[k] \in Frame /\ r[k] \in Results(Seq(W)) /\ forms[k + 1] \in Frame
      BY <1>2, <1>3, <2>2, <3>1
    <3>4. PICK jk \in Frame, rk \in Results(Seq(W)), form \in Frame :
            jk = j[k] /\ rk = r[k] /\ form = forms[k + 1]
      BY <3>3
    <3>5. PICK reader : reader = readers[k + 1]
      OBVIOUS
    <3>6. Stands(s, k, jk, rk, vals, fit) /\ Handles(reader, form, vals[k + 1], fit[k + 1])
      BY <3>2, <3>4, <3>5
    <3>7. Stands(s, k + 1, jk \o form, After(rk, reader), vals, fit)
      BY <3>6, StandsNext
    <3>8. j[k + 1] = jk \o form /\ r[k + 1] = After(rk, reader)
      BY <1>2, <2>2, <3>1, <3>4, <3>5
    <3> QED BY <3>7, <3>8
  <2>5. n \in S
    <3> HIDE DEF S
    <3> QED BY <2>3, <2>4, SetInduction
  <2> QED BY <2>2, <2>5
<1>5. FlattenSeq(forms) \in Frame
  BY <1>2
<1> DEFINE reader == [s \in Frame |-> ReadAll(readers, s)]
<1>6. SubSeq(vals, 1, n) = vals
  BY SubSeqFull
<1>7. PICK f \in Frame : f = FlattenSeq(forms)
  BY <1>5
<1>8. ASSUME NEW u \in Frame
      PROVE  IF \A i \in 1 .. n : fit[i] THEN reader[f \o u] = Result(vals, u) ELSE ~reader[f \o u].ok
  <2>1. PICK s \in Frame : s = f \o u
    BY Joins
  <2>2. Stands(s, n, f, reader[s], vals, fit)
    BY <1>2, <1>4, <1>7
  <2> HIDE DEF reader
  <2>3. IF \A i \in 1 .. n : fit[i] THEN reader[s] = Result(SubSeq(vals, 1, n), u) ELSE ~reader[s].ok
    BY <2>1, <2>2 DEF Stands
  <2> QED BY <1>6, <2>1, <2>3
<1>9. ASSUME NEW s \in Frame, Cut(s, f) PROVE ~reader[s].ok
  <2>2. Stands(s, n, f, reader[s], vals, fit)
    BY <1>2, <1>4, <1>7
  <2> QED BY <1>9, <2>2 DEF Stands
<1> HIDE DEF reader
<1>10. Handles(reader, f, vals, AllFit(n, fit))
  BY <1>8, <1>9 DEF Handles, AllFit
<1> QED BY <1>5, <1>7, <1>10 DEF reader

\* The encoding of what has no length of Wrap: lengths are written as they are.
PlainCounted(forms) == <<Len(forms)>> \o FlattenSeq(forms)

PlainBytes(b) == <<Len(b)>> \o b
PlainUpdate(u) == PlainBytes(u[1]) \o PlainBytes(u[2])

PlainField(kind, v) ==
  CASE kind \in {"string", "bytes"}    -> PlainBytes(v)
    [] kind \in {"strings", "changes"} -> PlainCounted([i \in DOMAIN v |-> PlainBytes(v[i])])
    [] kind = "updates"                -> PlainCounted([i \in DOMAIN v |-> PlainUpdate(v[i])])
    [] kind = "number"                 -> <<v>>

PlainEncode(m) ==
  <<Tag[m.type]>>
    \o FlattenSeq([i \in DOMAIN m.fields |-> PlainField(Fields[m.type][i], m.fields[i])])

\* Strings and byte strings.
LEMMA BytesRead ==
  ASSUME NEW max \in Nat, NEW s \in Frame, s # <<>>, Head(s) <= max, Head(s) < Len(s)
  PROVE  /\ SubSeq(s, 2, Head(s) + 1) \in Frame /\ Len(SubSeq(s, 2, Head(s) + 1)) = Head(s)
         /\ \A i \in 1 .. Head(s) : SubSeq(s, 2, Head(s) + 1)[i] = s[1 + i]
         /\ SubSeq(s, Head(s) + 2, Len(s)) \in Frame
         /\ Len(SubSeq(s, Head(s) + 2, Len(s))) = Len(s) - Head(s) - 1
         /\ \A i \in 1 .. Len(s) - Head(s) - 1 : SubSeq(s, Head(s) + 2, Len(s))[i] = s[1 + Head(s) + i]
<1>1. PICK n \in Nat : n = Head(s)
  BY DEF Frame
<1>2. PICK m \in Nat : m = Len(s)
  BY IsEmpty
<1>3. n < m /\ \A i \in 1 .. m : s[i] \in Nat
  BY <1>1, <1>2 DEF Frame
<1>4. PICK p : p = SubSeq(s, 2, n + 1)
  OBVIOUS
<1>5. PICK q : q = SubSeq(s, n + 2, m)
  OBVIOUS
<1>6. p \in Frame /\ Len(p) = n /\ \A i \in 1 .. n : p[i] = s[1 + i]
  <2>1. 2 \in Int /\ n + 1 \in Int /\ (n + 1) - 2 + 1 = n
    OBVIOUS
  <2>2. \A i \in 2 .. n + 1 : i \in 1 .. m
    BY <1>3
  <2>3. \A i \in 2 .. n + 1 : s[i] \in Nat
    BY <1>3, <2>2
  <2>4. /\ p \in Seq(Nat) /\ Len(p) = (IF 2 <= n + 1 THEN (n + 1) - 2 + 1 ELSE 0)
        /\ \A i \in 1 .. (n + 1) - 2 + 1 : p[i] = s[2 + i - 1]
    BY <1>4, <2>1, <2>3, SubSeqProperties
  <2>5. (IF 2 <= n + 1 THEN (n + 1) - 2 + 1 ELSE 0) = n
    OBVIOUS
  <2>6. \A i \in 1 .. n : 2 + i - 1 = 1 + i
    OBVIOUS
  <2>7. \A i \in 1 .. n : p[i] = s[2 + i - 1]
    BY <2>1, <2>4
  <2> QED BY <2>4, <2>5, <2>6, <2>7 DEF Frame
<1>7. q \in Frame /\ Len(q) = m - n - 1 /\ \A i \in 1 .. m - n - 1 : q[i] = s[1 + n + i]
  <2>1. n + 2 \in Int /\ m \in Int /\ m - (n + 2) + 1 = m - n - 1
    OBVIOUS
  <2>2. \A i \in n + 2 .. m : i \in 1 .. m
    BY <1>3
  <2>3. \A i \in n + 2 .. m : s[i] \in Nat
    BY <1>3, <2>2
  <2>4. /\ q \in Seq(Nat) /\ Len(q) = (IF n + 2 <= m THEN m - (n + 2) + 1 ELSE 0)
        /\ \A i \in 1 .. m - (n + 2) + 1 : q[i] = s[n + 2 + i - 1]
    BY <1>5, <2>1, <2>3, SubSeqProperties
  <2>5. (IF n + 2 <= m THEN m - (n + 2) + 1 ELSE 0) = m - n - 1
    BY <1>3
  <2>6. \A i \in 1 .. m - n - 1 : n + 2 + i - 1 = 1 + n + i
    OBVIOUS
  <2>7. \A i \in 1 .. m - n - 1 : q[i] = s[n + 2 + i - 1]
    BY <2>1, <2>4
  <2> QED BY <2>4, <2>5, <2>6, <2>7 DEF Frame
<1> QED BY <1>1, <1>2, <1>4, <1>5, <1>6, <1>7

BytesReader(max) == [s \in Frame |-> ReadBytes(s, max)]

\* To fail is a result.
LEMMA FailedIs ==
  ASSUME NEW W, <<>> \in W
  PROVE  Failed \in Results(W) /\ ~Failed.ok
BY EmptySeq DEF Failed, Results, Frame

\* A reader of byte strings gives byte strings.
LEMMA BytesReaderType ==
  ASSUME NEW max \in Nat
  PROVE  BytesReader(max) \in Readers(Frame)
<1> SUFFICES ASSUME NEW s \in Frame PROVE ReadBytes(s, max) \in Results(Frame)
  BY DEF BytesReader, Readers
<1>1. CASE s # <<>> /\ Head(s) <= max /\ Head(s) < Len(s)
  <2>1. ReadBytes(s, max) = Result(SubSeq(s, 2, Head(s) + 1), SubSeq(s, Head(s) + 2, Len(s)))
    BY <1>1 DEF ReadBytes, Within
  <2>2. PICK p \in Frame : p = SubSeq(s, 2, Head(s) + 1)
    BY <1>1, BytesRead
  <2>3. PICK q \in Frame : q = SubSeq(s, Head(s) + 2, Len(s))
    BY <1>1, BytesRead
  <2> QED BY <2>1, <2>2, <2>3 DEF Result, Results
<1>2. CASE ~(s # <<>> /\ Head(s) <= max /\ Head(s) < Len(s))
  <2>1. <<>> \in Frame
    BY EmptySeq DEF Frame
  <2>2. ReadBytes(s, max) = Failed
    BY <1>2 DEF ReadBytes, Within
  <2> QED BY <2>1, <2>2, FailedIs
<1> QED BY <1>1, <1>2

\* It takes a byte string off that is not too long.
LEMMA BytesHandled ==
  ASSUME NEW max \in Nat, NEW b \in Frame
  PROVE  /\ PlainBytes(b) \in Frame
         /\ Handles(BytesReader(max), PlainBytes(b), b, Len(b) <= max)
<1>1. PICK n \in Nat : n = Len(b)
  BY IsEmpty
<1>2. PlainBytes(b) = <<n>> \o b /\ <<n>> \o b \in Frame
  BY <1>1, Leads DEF PlainBytes
<1>3. ASSUME NEW u \in Frame
      PROVE  IF n <= max THEN ReadBytes((<<n>> \o b) \o u, max) = Result(b, u)
             ELSE ~ReadBytes((<<n>> \o b) \o u, max).ok
  <2>1. PICK t \in Frame : t = b \o u
    BY Joins
  <2>2. PICK s : s = <<n>> \o t
    OBVIOUS
  <2>3. (<<n>> \o b) \o u = s
    <3>1. <<n>> \in Frame
      BY Leads
    <3>2. (<<n>> \o b) \o u = <<n>> \o (b \o u)
      BY <3>1, JoinsOver
    <3> QED BY <2>1, <2>2, <3>2
  <2>4. s \in Frame /\ s # <<>> /\ Head(s) = n /\ Len(s) = Len(t) + 1
    BY <2>2, Leads
  <2>5. PICK k \in Nat : k = Len(u)
    BY IsEmpty
  <2>6. Len(t) = n + k /\ Len(s) = n + k + 1
    <3>1. Len(t) = n + k
      BY <1>1, <2>1, <2>5, Joins
    <3> QED BY <2>4, <3>1
  <2>7. CASE n <= max
    <3>1. Head(s) <= max /\ Head(s) < Len(s)
      BY <2>4, <2>6, <2>7
    <3>2. PICK p : p = SubSeq(s, 2, n + 1)
      OBVIOUS
    <3>3. PICK q : q = SubSeq(s, n + 2, Len(s))
      OBVIOUS
    <3>4. /\ p \in Frame /\ Len(p) = n /\ \A i \in 1 .. n : p[i] = s[1 + i]
          /\ q \in Frame /\ Len(q) = Len(s) - n - 1 /\ \A i \in 1 .. Len(s) - n - 1 : q[i] = s[1 + n + i]
      BY <2>4, <3>1, <3>2, <3>3, BytesRead
    <3>5. Len(s) - n - 1 = k
      BY <2>6
    <3>6. /\ \A i \in 1 .. n : t[i] = b[i]
          /\ \A i \in 1 .. k : t[n + i] = u[i]
      BY <1>1, <2>1, <2>5, Joins
    <3>7. \A i \in 1 .. n + k : s[1 + i] = t[i]
      <4>1. <<n>> \in Frame /\ Len(<<n>>) = 1
        BY Leads
      <4> QED BY <2>2, <2>6, <4>1, Joins
    <3>8. p = b
      <4>1. \A i \in 1 .. n : i \in 1 .. n + k
        BY <2>5
      <4>2. \A i \in 1 .. n : p[i] = b[i]
        BY <3>4, <3>6, <3>7, <4>1
      <4> QED BY <1>1, <3>4, <4>2, SameFrame
    <3>9. q = u
      <4>1. \A i \in 1 .. k : n + i \in 1 .. n + k /\ 1 + (n + i) = 1 + n + i
        BY <2>5
      <4>2. \A i \in 1 .. k : s[1 + (n + i)] = u[i]
        BY <3>6, <3>7, <4>1
      <4>3. \A i \in 1 .. k : q[i] = s[1 + n + i]
        BY <3>4, <3>5
      <4>4. \A i \in 1 .. k : q[i] = u[i]
        BY <4>1, <4>2, <4>3
      <4> QED BY <2>5, <3>4, <3>5, <4>4, SameFrame
    <3>10. ReadBytes(s, max) = Result(p, q)
      BY <2>4, <3>1, <3>2, <3>3 DEF ReadBytes, Within
    <3> QED BY <2>3, <2>7, <3>8, <3>9, <3>10
  <2>8. CASE ~(n <= max)
    <3>1. ReadBytes(s, max) = Failed
      BY <2>4, <2>8 DEF ReadBytes, Within
    <3>2. ~ReadBytes(s, max).ok
      BY <3>1 DEF Failed
    <3>3. ~ReadBytes((<<n>> \o b) \o u, max).ok
      BY <2>3, <3>2
    <3> QED BY <2>8, <3>3
  <2> QED BY <2>7, <2>8
<1>4. ASSUME NEW s \in Frame, Cut(s, <<n>> \o b)
      PROVE  ~ReadBytes(s, max).ok
  <2>1. CASE s = <<>>
    BY <2>1 DEF ReadBytes, Failed
  <2>2. CASE s # <<>>
    <3>1. PICK t \in Frame : s = <<n>> \o t /\ Cut(t, b)
      BY <1>4, <2>2, CutBehind
    <3>2. Len(t) < n /\ Len(t) \in Nat
      BY <1>1, <3>1, CutIs
    <3>3. Head(s) = n /\ Len(s) = Len(t) + 1
      BY <3>1, Leads
    <3>4. ~(Head(s) < Len(s))
      BY <3>2, <3>3
    <3> QED BY <3>4 DEF ReadBytes, Failed
  <2> QED BY <2>1, <2>2
<1>5. PICK f \in Frame : f = <<n>> \o b
  BY <1>2
<1>6. PICK reader : reader = BytesReader(max)
  OBVIOUS
<1>7. \A s \in Frame : reader[s] = ReadBytes(s, max)
  BY <1>6 DEF BytesReader
<1>8. \A u \in Frame : f \o u \in Frame
  BY Joins
<1>9. \A u \in Frame : IF n <= max THEN reader[f \o u] = Result(b, u) ELSE ~reader[f \o u].ok
  BY <1>3, <1>5, <1>7, <1>8
<1>10. \A s \in Frame : Cut(s, f) => ~reader[s].ok
  BY <1>4, <1>5, <1>7
<1>11. Handles(reader, f, b, n <= max)
  BY <1>9, <1>10 DEF Handles
<1> QED BY <1>1, <1>2, <1>5, <1>6, <1>11

\* Two frames, flattened.
LEMMA FlattenTwo ==
  ASSUME NEW a \in Frame, NEW b \in Frame
  PROVE  <<a, b>> \in Seq(Frame) /\ FlattenSeq(<<a, b>>) = a \o b
<1>1. PICK forms : forms = <<a, b>>
  OBVIOUS
<1>2. forms \in Seq(Frame) /\ Len(forms) = 2 /\ forms[1] = a /\ forms[2] = b
  BY <1>1
<1>3. PICK j : JoinedBy(forms, j)
  BY <1>2, FlattenSteps
<1>4. /\ j[0] = <<>> /\ j[2] = FlattenSeq(forms)
      /\ \A i \in 1 .. 2 : j[i] = j[i - 1] \o forms[i]
  BY <1>2, <1>3 DEF JoinedBy
<1>5. 1 \in 1 .. 2 /\ 2 \in 1 .. 2 /\ 1 - 1 = 0 /\ 2 - 1 = 1
  OBVIOUS
<1>6. j[1] = <<>> \o a /\ j[2] = j[1] \o b
  BY <1>2, <1>4, <1>5
<1>7. j[1] = a
  BY <1>6, JoinsNone
<1> QED BY <1>1, <1>2, <1>4, <1>6, <1>7

\* Three frames, flattened.
LEMMA FlattenThree ==
  ASSUME NEW a \in Frame, NEW b \in Frame, NEW c \in Frame
  PROVE  <<a, b, c>> \in Seq(Frame) /\ FlattenSeq(<<a, b, c>>) = (a \o b) \o c
<1>1. PICK forms : forms = <<a, b, c>>
  OBVIOUS
<1>2. forms \in Seq(Frame) /\ Len(forms) = 3 /\ forms[1] = a /\ forms[2] = b /\ forms[3] = c
  BY <1>1
<1>3. PICK j : JoinedBy(forms, j)
  BY <1>2, FlattenSteps
<1>4. /\ j[0] = <<>> /\ j[3] = FlattenSeq(forms)
      /\ \A i \in 1 .. 3 : j[i] = j[i - 1] \o forms[i]
  BY <1>2, <1>3 DEF JoinedBy
<1>5. /\ 1 \in 1 .. 3 /\ 2 \in 1 .. 3 /\ 3 \in 1 .. 3
      /\ 1 - 1 = 0 /\ 2 - 1 = 1 /\ 3 - 1 = 2
  OBVIOUS
<1>6. j[1] = <<>> \o a /\ j[2] = j[1] \o b /\ j[3] = j[2] \o c
  BY <1>2, <1>4, <1>5
<1>7. j[1] = a
  BY <1>6, JoinsNone
<1> QED BY <1>1, <1>2, <1>4, <1>6, <1>7

\* ReadAll gives a sequence of what its readers give.
LEMMA ReadAllType ==
  ASSUME NEW W, NEW readers \in Seq(Readers(W)), NEW s \in Frame
  PROVE  ReadAll(readers, s) \in Results(Seq(W))
<1>1. PICK r : ReadsTo(readers, s, W, r)
  BY ReadSteps
<1>2. Len(readers) \in 0 .. Len(readers)
  OBVIOUS
<1> QED BY <1>1, <1>2 DEF ReadsTo

-----------------------------------------------------------------------------

\* The limits are numbers; the readers of strings and of byte strings.
LEMMA PartReaders ==
  /\ MaxString \in Nat /\ MaxBytes \in Nat /\ MaxStrings \in Nat /\ MaxChanges \in Nat /\ MaxUpdates \in Nat
  /\ PartReader("string") = BytesReader(MaxString)
  /\ PartReader("bytes") = BytesReader(MaxBytes)
BY WireConstantsOK DEF PartReader, ReadPart, BytesReader

UpdateReader == [s \in Frame |-> ReadUpdate(s)]
UpdateFits(u) == Len(u[1]) <= MaxString /\ Len(u[2]) <= MaxBytes

\* The readers of the two parts of an ephemeral update.
LEMMA UpdateParts ==
  LET readers == [i \in DOMAIN Update |-> PartReader(Update[i])] IN
  /\ readers = <<BytesReader(MaxString), BytesReader(MaxBytes)>>
  /\ readers \in Seq(Readers(Frame)) /\ Len(readers) = 2
<1> DEFINE readers == [i \in DOMAIN Update |-> PartReader(Update[i])]
<1>1. PICK a : a = BytesReader(MaxString)
  OBVIOUS
<1>2. PICK b : b = BytesReader(MaxBytes)
  OBVIOUS
<1>3. a \in Readers(Frame) /\ b \in Readers(Frame)
  BY <1>1, <1>2, PartReaders, BytesReaderType
<1>4. DOMAIN Update = 1 .. 2 /\ Update[1] = "string" /\ Update[2] = "bytes"
  BY DEF Update
<1>5. readers[1] = a /\ readers[2] = b /\ DOMAIN readers = 1 .. 2
  BY <1>1, <1>2, <1>4, PartReaders
<1>6. readers = [i \in 1 .. 2 |-> readers[i]]
  BY <1>4
<1>7. readers = <<a, b>>
  <2> HIDE DEF readers
  <2>1. \A i \in 1 .. 2 : i = 1 \/ i = 2
    OBVIOUS
  <2>2. DOMAIN <<a, b>> = 1 .. 2 /\ <<a, b>>[1] = a /\ <<a, b>>[2] = b
    OBVIOUS
  <2>3. \A i \in 1 .. 2 : readers[i] = <<a, b>>[i]
    BY <1>5, <2>1, <2>2
  <2>4. <<a, b>> = [i \in 1 .. 2 |-> <<a, b>>[i]]
    OBVIOUS
  <2> QED BY <1>6, <2>3, <2>4
<1>8. readers \in Seq(Readers(Frame)) /\ Len(readers) = 2
  <2> HIDE DEF readers
  <2> QED BY <1>3, <1>7
<1> QED BY <1>1, <1>2, <1>7, <1>8

\* An ephemeral update is taken off whose parts fit.
LEMMA UpdateHandled ==
  ASSUME NEW u \in Frame \X Frame
  PROVE  /\ PlainUpdate(u) \in Frame /\ u \in Seq(Frame)
         /\ Handles(UpdateReader, PlainUpdate(u), u, UpdateFits(u))
<1>1. PICK a \in Frame, b \in Frame : u = <<a, b>>
  OBVIOUS
<1>2. u[1] = a /\ u[2] = b /\ u \in Seq(Frame) /\ Len(u) = 2
  BY <1>1
<1>3. PICK f \in Frame, g \in Frame : f = PlainBytes(a) /\ g = PlainBytes(b)
  BY PartReaders, BytesHandled
<1>4. PICK forms : forms = <<f, g>>
  OBVIOUS
<1>5. forms \in Seq(Frame) /\ Len(forms) = 2 /\ forms[1] = f /\ forms[2] = g
  BY <1>4
<1>6. FlattenSeq(forms) = PlainUpdate(u)
  BY <1>2, <1>3, <1>4, FlattenTwo DEF PlainUpdate
<1>7. PICK readers : readers = [i \in DOMAIN Update |-> PartReader(Update[i])]
  OBVIOUS
<1>8. readers \in Seq(Readers(Frame)) /\ Len(readers) = 2 /\ readers = <<BytesReader(MaxString), BytesReader(MaxBytes)>>
  BY <1>7, UpdateParts
<1>9. readers[1] = BytesReader(MaxString) /\ readers[2] = BytesReader(MaxBytes)
  BY <1>8
<1>10. PICK fit : fit = [i \in 1 .. 2 |-> IF i = 1 THEN Len(a) <= MaxString ELSE Len(b) <= MaxBytes]
  OBVIOUS
<1>11. /\ fit \in [1 .. 2 -> BOOLEAN]
       /\ fit[1] = (Len(a) <= MaxString) /\ fit[2] = (Len(b) <= MaxBytes)
  <2>1. Len(a) \in Nat /\ Len(b) \in Nat
    BY IsEmpty
  <2>2. (Len(a) <= MaxString) \in BOOLEAN /\ (Len(b) <= MaxBytes) \in BOOLEAN
    BY <2>1, PartReaders
  <2> QED BY <1>10, <2>2
<1>12. \A i \in 1 .. 2 : Handles(readers[i], forms[i], u[i], fit[i])
  <2>1. Handles(readers[1], forms[1], u[1], fit[1])
    BY <1>2, <1>3, <1>5, <1>9, <1>11, PartReaders, BytesHandled
  <2>2. Handles(readers[2], forms[2], u[2], fit[2])
    BY <1>2, <1>3, <1>5, <1>9, <1>11, PartReaders, BytesHandled
  <2>3. \A i \in 1 .. 2 : i = 1 \/ i = 2
    OBVIOUS
  <2> QED BY <2>1, <2>2, <2>3
<1>13. /\ FlattenSeq(forms) \in Frame
       /\ Handles([s \in Frame |-> ReadAll(readers, s)], FlattenSeq(forms), u, AllFit(2, fit))
  <2>1. 2 \in Nat
    OBVIOUS
  <2> QED BY <1>2, <1>5, <1>8, <1>11, <1>12, <2>1, AllHandled
<1>14. UpdateReader = [s \in Frame |-> ReadAll(readers, s)]
  BY <1>7, Zenon DEF UpdateReader, ReadUpdate
<1>15. AllFit(2, fit) <=> UpdateFits(u)
  <2>1. \A i \in 1 .. 2 : i = 1 \/ i = 2
    OBVIOUS
  <2>2. UpdateFits(u) <=> (fit[1] /\ fit[2])
    BY <1>2, <1>11 DEF UpdateFits
  <2>3. AllFit(2, fit) <=> (fit[1] /\ fit[2])
    BY <2>1 DEF AllFit
  <2> QED BY <2>2, <2>3
<1>16. Handles(UpdateReader, PlainUpdate(u), u, AllFit(2, fit))
  BY <1>6, <1>13, <1>14
<1>17. Handles(UpdateReader, PlainUpdate(u), u, UpdateFits(u))
  BY <1>15, <1>16, SameFit
<1> QED BY <1>2, <1>6, <1>13, <1>17

\* The reader of ephemeral updates gives sequences of byte strings.
LEMMA UpdateReaderType == UpdateReader \in Readers(Seq(Frame))
<1>1. PICK readers : readers = [i \in DOMAIN Update |-> PartReader(Update[i])]
  OBVIOUS
<1>2. readers \in Seq(Readers(Frame))
  BY <1>1, UpdateParts
<1>3. \A s \in Frame : ReadAll(readers, s) \in Results(Seq(Frame))
  BY <1>2, ReadAllType
<1>4. UpdateReader = [s \in Frame |-> ReadAll(readers, s)]
  BY <1>1, Zenon DEF UpdateReader, ReadUpdate
<1> QED BY <1>3, <1>4 DEF Readers

-----------------------------------------------------------------------------

ListReader(max, kind) == [s \in Frame |-> ReadList(s, max, kind)]

\* The same reader, several times.
LEMMA SameReaders ==
  ASSUME NEW W, NEW n \in Nat, NEW reader \in Readers(W)
  PROVE  /\ [i \in 1 .. n |-> reader] \in Seq(Readers(W))
         /\ Len([i \in 1 .. n |-> reader]) = n
         /\ \A i \in 1 .. n : [k \in 1 .. n |-> reader][i] = reader
OBVIOUS

\* A frame that is not empty is its head and its tail.
LEMMA HeadAndTail ==
  ASSUME NEW s \in Frame, s # <<>>
  PROVE  Head(s) \in Nat /\ Tail(s) \in Frame /\ s = <<Head(s)>> \o Tail(s)
<1>1. Head(s) \in Nat /\ Tail(s) \in Frame
  BY HeadTailProperties DEF Frame
<1>2. PICK n \in Nat, t \in Frame : n = Head(s) /\ t = Tail(s)
  BY <1>1
<1>3. PICK m \in Nat : m = Len(t)
  BY IsEmpty
<1>4. Len(s) \in Nat \ {0} /\ Len(t) = Len(s) - 1 /\ \A i \in 1 .. Len(t) : t[i] = s[i + 1]
  BY <1>2, HeadTailProperties, EmptySeq DEF Frame
<1>5. Len(s) = m + 1 /\ s[1] = n
  <2>1. s[1] = n
    BY <1>2 DEF Frame
  <2> QED BY <1>3, <1>4, <2>1
<1>6. PICK q : q = <<n>> \o t
  OBVIOUS
<1>7. <<n>> \in Frame /\ Len(<<n>>) = 1 /\ <<n>>[1] = n
  BY Leads
<1>8. q \in Frame /\ Len(q) = 1 + m /\ q[1] = n /\ \A i \in 1 .. m : q[1 + i] = t[i]
  <2>1. 1 \in 1 .. 1
    OBVIOUS
  <2> QED BY <1>3, <1>6, <1>7, <2>1, Joins
<1>9. ASSUME NEW i \in 1 .. m + 1 PROVE i = 1 \/ \E k \in 1 .. m : i = 1 + k /\ i = k + 1
  <2>1. i = 1 \/ (i - 1 \in 1 .. m /\ i = 1 + (i - 1) /\ i = (i - 1) + 1)
    OBVIOUS
  <2> QED BY <2>1
<1>10. ASSUME NEW i \in 1 .. m + 1 PROVE q[i] = s[i]
  <2>1. CASE i = 1
    BY <1>5, <1>8, <2>1
  <2>2. CASE \E k \in 1 .. m : i = 1 + k /\ i = k + 1
    <3>1. PICK k \in 1 .. m : i = 1 + k /\ i = k + 1
      BY <2>2
    <3>2. q[1 + k] = t[k] /\ t[k] = s[k + 1]
      BY <1>3, <1>4, <1>8
    <3> QED BY <3>1, <3>2
  <2> QED BY <1>9, <2>1, <2>2
<1>11. 1 + m = m + 1
  OBVIOUS
<1>12. q = s
  BY <1>5, <1>8, <1>10, <1>11, SameFrame
<1> QED BY <1>2, <1>6, <1>12

\* The reader of a list gives sequences of what its elements are read as.
LEMMA ListReaderType ==
  ASSUME NEW W, NEW max \in Nat, NEW kind, ElementReader(kind) \in Readers(W)
  PROVE  ListReader(max, kind) \in Readers(Seq(W))
<1> SUFFICES ASSUME NEW s \in Frame PROVE ReadList(s, max, kind) \in Results(Seq(W))
  BY DEF ListReader, Readers
<1>1. CASE s # <<>> /\ Head(s) <= max
  <2>1. PICK n \in Nat, t \in Frame : n = Head(s) /\ t = Tail(s)
    BY <1>1, HeadAndTail
  <2>2. PICK reader \in Readers(W) : reader = ElementReader(kind)
    OBVIOUS
  <2>3. PICK readers \in Seq(Readers(W)) : readers = [i \in 1 .. n |-> reader]
    BY SameReaders
  <2>4. ReadList(s, max, kind) = ReadAll(readers, t)
    BY <1>1, <2>1, <2>2, <2>3 DEF ReadList, Within
  <2> QED BY <2>4, ReadAllType
<1>2. CASE ~(s # <<>> /\ Head(s) <= max)
  <2>1. ReadList(s, max, kind) = Failed
    BY <1>2 DEF ReadList, Within
  <2>2. <<>> \in Seq(W)
    BY EmptySeq
  <2> QED BY <2>1, <2>2, FailedIs
<1> QED BY <1>1, <1>2

\* A list is taken off whose number and elements all fit.
LEMMA CountedHandled ==
  ASSUME NEW W, NEW max \in Nat, NEW kind, ElementReader(kind) \in Readers(W),
         NEW n \in Nat, NEW forms \in Seq(Frame), NEW vals \in Seq(W), Len(forms) = n, Len(vals) = n,
         NEW fit \in [1 .. n -> BOOLEAN],
         \A i \in 1 .. n : Handles(ElementReader(kind), forms[i], vals[i], fit[i])
  PROVE  /\ PlainCounted(forms) \in Frame /\ PlainCounted(forms) # <<>>
         /\ Handles(ListReader(max, kind), PlainCounted(forms), vals, n <= max /\ AllFit(n, fit))
<1>1. PICK reader \in Readers(W) : reader = ElementReader(kind)
  OBVIOUS
<1>2. PICK readers \in Seq(Readers(W)) :
        readers = [i \in 1 .. n |-> reader] /\ Len(readers) = n /\ \A i \in 1 .. n : readers[i] = reader
  <2>1. PICK readers : readers = [i \in 1 .. n |-> reader]
    OBVIOUS
  <2>2. readers \in Seq(Readers(W)) /\ Len(readers) = n
    BY <2>1, SameReaders
  <2>3. \A i \in 1 .. n : readers[i] = reader
    BY <2>1
  <2> QED BY <2>1, <2>2, <2>3
<1>3. \A i \in 1 .. n : Handles(readers[i], forms[i], vals[i], fit[i])
  BY <1>1, <1>2
<1>4. PICK all : all = [s \in Frame |-> ReadAll(readers, s)]
  OBVIOUS
<1>5. PICK fits \in BOOLEAN : fits = AllFit(n, fit)
  BY DEF AllFit
<1>6. FlattenSeq(forms) \in Frame /\ Handles(all, FlattenSeq(forms), vals, fits)
  BY <1>2, <1>3, <1>4, <1>5, AllHandled
<1>7. PICK f \in Frame : f = FlattenSeq(forms)
  BY <1>6
<1>8. PlainCounted(forms) = <<n>> \o f /\ <<n>> \o f \in Frame /\ <<n>> \o f # <<>> /\ <<n>> \in Frame
  BY <1>7, Leads DEF PlainCounted
<1>9. ASSUME NEW s \in Frame, NEW t \in Frame, s = <<n>> \o t
      PROVE  ReadList(s, max, kind) = IF n <= max THEN all[t] ELSE Failed
  <2>1. s # <<>> /\ Head(s) = n /\ Tail(s) = t
    BY <1>9, Leads
  <2>2. all[t] = ReadAll(readers, t)
    BY <1>4
  <2> QED BY <1>1, <1>2, <2>1, <2>2 DEF ReadList, Within
<1>10. ASSUME NEW u \in Frame
       PROVE  IF n <= max /\ fits THEN ReadList((<<n>> \o f) \o u, max, kind) = Result(vals, u)
              ELSE ~ReadList((<<n>> \o f) \o u, max, kind).ok
  <2>1. PICK t \in Frame : t = f \o u
    BY Joins
  <2>2. PICK s \in Frame : s = <<n>> \o t
    BY <1>8, Joins
  <2>3. (<<n>> \o f) \o u = s
    BY <1>8, <2>1, <2>2, JoinsOver
  <2>4. IF fits THEN all[t] = Result(vals, u) ELSE ~all[t].ok
    BY <1>6, <1>7, <2>1 DEF Handles
  <2>5. IF n <= max /\ fits THEN ReadList(s, max, kind) = Result(vals, u)
        ELSE ~ReadList(s, max, kind).ok
    <3>1. ReadList(s, max, kind) = IF n <= max THEN all[t] ELSE Failed
      BY <1>9, <2>2
    <3>2. ~Failed.ok
      BY DEF Failed
    <3> QED BY <2>4, <3>1, <3>2
  <2> QED BY <2>3, <2>5
<1>11. ASSUME NEW s \in Frame, Cut(s, <<n>> \o f)
       PROVE  ~ReadList(s, max, kind).ok
  <2>1. CASE s = <<>>
    BY <2>1 DEF ReadList, Failed
  <2>2. CASE s # <<>>
    <3>1. PICK t \in Frame : s = <<n>> \o t /\ Cut(t, f)
      BY <1>11, <2>2, CutBehind
    <3>2. ~all[t].ok
      BY <1>6, <1>7, <3>1 DEF Handles
    <3>3. ReadList(s, max, kind) = IF n <= max THEN all[t] ELSE Failed
      BY <1>9, <3>1
    <3>4. ~Failed.ok
      BY DEF Failed
    <3> QED BY <3>2, <3>3, <3>4
  <2> QED BY <2>1, <2>2
<1>12. PICK g \in Frame : g = <<n>> \o f
  BY <1>8
<1>13. PICK lists : lists = ListReader(max, kind)
  OBVIOUS
<1>14. \A s \in Frame : lists[s] = ReadList(s, max, kind)
  BY <1>13 DEF ListReader
<1>15. \A u \in Frame : g \o u \in Frame
  BY Joins
<1>16. \A u \in Frame : IF n <= max /\ fits THEN lists[g \o u] = Result(vals, u) ELSE ~lists[g \o u].ok
  BY <1>10, <1>12, <1>14, <1>15
<1>17. \A s \in Frame : Cut(s, g) => ~lists[s].ok
  BY <1>11, <1>12, <1>14
<1>18. Handles(lists, g, vals, n <= max /\ fits)
  BY <1>16, <1>17 DEF Handles
<1> QED BY <1>5, <1>8, <1>12, <1>13, <1>18

Kinds == {"string", "bytes", "strings", "changes", "updates", "number"}

FieldValue(kind) ==
  IF kind \in {"string", "bytes"} THEN Frame
  ELSE IF kind \in {"strings", "changes"} THEN Seq(Frame)
  ELSE IF kind = "updates" THEN Seq(Frame \X Frame) ELSE Nat

AnyValue == Nat \cup Frame \cup Seq(Frame) \cup Seq(Seq(Frame))

\* The readers of the elements of lists.
LEMMA Elements ==
  /\ ElementReader("string") = BytesReader(MaxString)
  /\ ElementReader("bytes") = BytesReader(MaxBytes)
  /\ ElementReader("update") = UpdateReader
  /\ ElementReader("string") \in Readers(Frame)
  /\ ElementReader("bytes") \in Readers(Frame)
  /\ ElementReader("update") \in Readers(Seq(Frame))
<1>1. ElementReader("string") = BytesReader(MaxString)
  BY PartReaders DEF ElementReader
<1>2. ElementReader("bytes") = BytesReader(MaxBytes)
  BY PartReaders DEF ElementReader
<1>3. ElementReader("update") = UpdateReader
  BY DEF ElementReader, UpdateReader
<1>4. BytesReader(MaxString) \in Readers(Frame) /\ BytesReader(MaxBytes) \in Readers(Frame)
  BY PartReaders, BytesReaderType
<1> QED BY <1>1, <1>2, <1>3, <1>4, UpdateReaderType

\* The readers of the fields.
LEMMA FieldReadersAre ==
  /\ FieldReader("string") = BytesReader(MaxString)
  /\ FieldReader("bytes") = BytesReader(MaxBytes)
  /\ FieldReader("strings") = ListReader(MaxStrings, "string")
  /\ FieldReader("changes") = ListReader(MaxChanges, "bytes")
  /\ FieldReader("updates") = ListReader(MaxUpdates, "update")
  /\ FieldReader("number") = [s \in Frame |-> IF s = <<>> THEN Failed ELSE Result(Head(s), Tail(s))]
<1>1. \A s \in Frame : ReadField("string", s) = ReadBytes(s, MaxString)
  BY DEF ReadField, ReadPart
<1>2. \A s \in Frame : ReadField("bytes", s) = ReadBytes(s, MaxBytes)
  BY DEF ReadField, ReadPart
<1>3. \A s \in Frame : ReadField("strings", s) = ReadList(s, MaxStrings, "string")
  BY DEF ReadField
<1>4. \A s \in Frame : ReadField("changes", s) = ReadList(s, MaxChanges, "bytes")
  BY DEF ReadField
<1>5. \A s \in Frame : ReadField("updates", s) = ReadList(s, MaxUpdates, "update")
  BY DEF ReadField
<1>6. \A s \in Frame : ReadField("number", s) = IF s = <<>> THEN Failed ELSE Result(Head(s), Tail(s))
  BY DEF ReadField
<1>7. FieldReader("string") = BytesReader(MaxString) /\ FieldReader("bytes") = BytesReader(MaxBytes)
  BY <1>1, <1>2 DEF FieldReader, BytesReader
<1>8. /\ FieldReader("strings") = ListReader(MaxStrings, "string")
      /\ FieldReader("changes") = ListReader(MaxChanges, "bytes")
      /\ FieldReader("updates") = ListReader(MaxUpdates, "update")
  BY <1>3, <1>4, <1>5 DEF FieldReader, ListReader
<1>9. FieldReader("number") = [s \in Frame |-> IF s = <<>> THEN Failed ELSE Result(Head(s), Tail(s))]
  BY <1>6 DEF FieldReader
<1> QED BY <1>7, <1>8, <1>9

\* A reader of some values reads values of a larger set.
LEMMA Wider ==
  ASSUME NEW W, NEW V, W \subseteq V, NEW reader \in Readers(W)
  PROVE  reader \in Readers(V)
<1>1. Results(W) \subseteq Results(V)
  BY DEF Results
<1> QED BY <1>1 DEF Readers

\* The readers of the fields give values of fields.
LEMMA FieldReaderType ==
  ASSUME NEW kind \in Kinds
  PROVE  FieldReader(kind) \in Readers(AnyValue)
<1>1. Frame \subseteq AnyValue /\ Seq(Frame) \subseteq AnyValue /\ Seq(Seq(Frame)) \subseteq AnyValue /\ Nat \subseteq AnyValue
  BY DEF AnyValue
<1>2. CASE kind = "string"
  <2>1. FieldReader(kind) \in Readers(Frame)
    BY <1>2, FieldReadersAre, PartReaders, BytesReaderType
  <2> QED BY <1>1, <2>1, Wider
<1>3. CASE kind = "bytes"
  <2>1. FieldReader(kind) \in Readers(Frame)
    BY <1>3, FieldReadersAre, PartReaders, BytesReaderType
  <2> QED BY <1>1, <2>1, Wider
<1>4. CASE kind = "strings"
  <2>1. FieldReader(kind) \in Readers(Seq(Frame))
    BY <1>4, FieldReadersAre, PartReaders, Elements, ListReaderType
  <2> QED BY <1>1, <2>1, Wider
<1>5. CASE kind = "changes"
  <2>1. FieldReader(kind) \in Readers(Seq(Frame))
    BY <1>5, FieldReadersAre, PartReaders, Elements, ListReaderType
  <2> QED BY <1>1, <2>1, Wider
<1>6. CASE kind = "updates"
  <2>1. FieldReader(kind) \in Readers(Seq(Seq(Frame)))
    BY <1>6, FieldReadersAre, PartReaders, Elements, ListReaderType
  <2> QED BY <1>1, <2>1, Wider
<1>7. CASE kind = "number"
  <2>1. ASSUME NEW s \in Frame
        PROVE  (IF s = <<>> THEN Failed ELSE Result(Head(s), Tail(s))) \in Results(AnyValue)
    <3>1. CASE s = <<>>
      <4>1. <<>> \in AnyValue
        BY <1>1, EmptySeq DEF Frame
      <4> QED BY <3>1, <4>1, FailedIs
    <3>2. CASE s # <<>>
      <4>1. Head(s) \in AnyValue /\ Tail(s) \in Frame
        BY <1>1, <3>2, HeadAndTail
      <4> QED BY <3>2, <4>1 DEF Result, Results
    <3> QED BY <3>1, <3>2
  <2> QED BY <1>7, <2>1, FieldReadersAre DEF Readers
<1> QED BY <1>2, <1>3, <1>4, <1>5, <1>6, <1>7 DEF Kinds

-----------------------------------------------------------------------------

\* A list of byte strings.
LEMMA PartsHandled ==
  ASSUME NEW v \in Seq(Frame), NEW size \in Nat, NEW max \in Nat, NEW kind,
         ElementReader(kind) = BytesReader(size), ElementReader(kind) \in Readers(Frame)
  PROVE  LET form == PlainCounted([i \in DOMAIN v |-> PlainBytes(v[i])]) IN
         /\ form \in Frame /\ form # <<>>
         /\ Handles(ListReader(max, kind), form, v,
                    Len(v) <= max /\ \A i \in DOMAIN v : Len(v[i]) <= size)
<1>1. PICK n \in Nat : n = Len(v)
  OBVIOUS
<1>2. DOMAIN v = 1 .. n /\ \A i \in 1 .. n : v[i] \in Frame
  BY <1>1
<1>3. PICK forms : forms = [i \in 1 .. n |-> PlainBytes(v[i])]
  OBVIOUS
<1>4. \A i \in 1 .. n : PlainBytes(v[i]) \in Frame
  BY <1>2, BytesHandled
<1>5. forms \in Seq(Frame) /\ Len(forms) = n /\ \A i \in 1 .. n : forms[i] = PlainBytes(v[i])
  BY <1>3, <1>4
<1>6. PICK fit : fit = [i \in 1 .. n |-> Len(v[i]) <= size]
  OBVIOUS
<1>7. fit \in [1 .. n -> BOOLEAN] /\ \A i \in 1 .. n : fit[i] <=> Len(v[i]) <= size
  <2>1. \A i \in 1 .. n : (Len(v[i]) <= size) \in BOOLEAN
    BY <1>2, IsEmpty
  <2> QED BY <1>6, <2>1
<1>8. ASSUME NEW i \in 1 .. n PROVE Handles(ElementReader(kind), forms[i], v[i], fit[i])
  <2>1. PICK b \in Frame : b = v[i]
    BY <1>2
  <2>2. Handles(BytesReader(size), PlainBytes(b), b, Len(b) <= size)
    BY BytesHandled
  <2>3. Handles(BytesReader(size), PlainBytes(b), b, fit[i])
    BY <1>7, <2>1, <2>2, SameFit
  <2> QED BY <1>5, <2>1, <2>3
<1>9. PICK form : form = PlainCounted(forms)
  OBVIOUS
<1>10. form \in Frame /\ form # <<>> /\ Handles(ListReader(max, kind), form, v, n <= max /\ AllFit(n, fit))
  <2>1. Len(v) = n /\ ElementReader(kind) \in Readers(Frame)
    BY <1>1
  <2>2. forms \in Seq(Frame) /\ Len(forms) = n /\ fit \in [1 .. n -> BOOLEAN]
    BY <1>5, <1>7
  <2>3. \A i \in 1 .. n : Handles(ElementReader(kind), forms[i], v[i], fit[i])
    BY <1>8
  <2>4. /\ PlainCounted(forms) \in Frame /\ PlainCounted(forms) # <<>>
        /\ Handles(ListReader(max, kind), PlainCounted(forms), v, n <= max /\ AllFit(n, fit))
    BY ONLY <2>1, <2>2, <2>3, v \in Seq(Frame), max \in Nat, n \in Nat, CountedHandled
  <2> QED BY <1>9, <2>4
<1>11. n <= max /\ AllFit(n, fit) <=> Len(v) <= max /\ \A i \in DOMAIN v : Len(v[i]) <= size
  BY <1>1, <1>2, <1>7 DEF AllFit
<1>12. Handles(ListReader(max, kind), form, v, Len(v) <= max /\ \A i \in DOMAIN v : Len(v[i]) <= size)
  BY <1>10, <1>11, SameFit
<1>13. form = PlainCounted([i \in DOMAIN v |-> PlainBytes(v[i])])
  BY <1>2, <1>3, <1>9
<1> QED BY <1>10, <1>12, <1>13

\* A list of ephemeral updates.
LEMMA UpdatesHandled ==
  ASSUME NEW v \in Seq(Frame \X Frame)
  PROVE  LET form == PlainCounted([i \in DOMAIN v |-> PlainUpdate(v[i])]) IN
         /\ form \in Frame /\ form # <<>> /\ v \in Seq(Seq(Frame))
         /\ Handles(ListReader(MaxUpdates, "update"), form, v,
                    Len(v) <= MaxUpdates /\ \A i \in DOMAIN v : UpdateFits(v[i]))
<1>1. PICK n \in Nat : n = Len(v)
  OBVIOUS
<1>2. DOMAIN v = 1 .. n /\ \A i \in 1 .. n : v[i] \in Frame \X Frame
  BY <1>1
<1>3. PICK forms : forms = [i \in 1 .. n |-> PlainUpdate(v[i])]
  OBVIOUS
<1>4. \A i \in 1 .. n : PlainUpdate(v[i]) \in Frame /\ v[i] \in Seq(Frame)
  BY <1>2, UpdateHandled
<1>5. forms \in Seq(Frame) /\ Len(forms) = n /\ \A i \in 1 .. n : forms[i] = PlainUpdate(v[i])
  BY <1>3, <1>4
<1>6. v \in Seq(Seq(Frame))
  <2>1. v = [i \in 1 .. n |-> v[i]]
    BY <1>1
  <2>2. v \in [1 .. n -> Seq(Frame)]
    BY <1>4, <2>1
  <2> QED BY <2>2
<1>7. PICK fit : fit = [i \in 1 .. n |-> UpdateFits(v[i])]
  OBVIOUS
<1>8. fit \in [1 .. n -> BOOLEAN] /\ \A i \in 1 .. n : fit[i] <=> UpdateFits(v[i])
  <2>1. \A i \in 1 .. n : UpdateFits(v[i]) \in BOOLEAN
    BY DEF UpdateFits
  <2> QED BY <1>7, <2>1
<1>9. ASSUME NEW i \in 1 .. n PROVE Handles(ElementReader("update"), forms[i], v[i], fit[i])
  <2>1. PICK u \in Frame \X Frame : u = v[i]
    BY <1>2
  <2>2. Handles(UpdateReader, PlainUpdate(u), u, UpdateFits(u))
    BY UpdateHandled
  <2>3. Handles(UpdateReader, PlainUpdate(u), u, fit[i])
    BY <1>8, <2>1, <2>2, SameFit
  <2> QED BY <1>5, <2>1, <2>3, Elements
<1>10. PICK form : form = PlainCounted(forms)
  OBVIOUS
<1>11. /\ form \in Frame /\ form # <<>>
       /\ Handles(ListReader(MaxUpdates, "update"), form, v, n <= MaxUpdates /\ AllFit(n, fit))
  <2>1. MaxUpdates \in Nat /\ ElementReader("update") \in Readers(Seq(Frame)) /\ Len(v) = n
    BY <1>1, PartReaders, Elements
  <2>2. /\ PlainCounted(forms) \in Frame /\ PlainCounted(forms) # <<>>
        /\ Handles(ListReader(MaxUpdates, "update"), PlainCounted(forms), v, n <= MaxUpdates /\ AllFit(n, fit))
    BY <1>5, <1>6, <1>8, <1>9, <2>1, CountedHandled
  <2> QED BY <1>10, <2>2
<1>12. n <= MaxUpdates /\ AllFit(n, fit) <=> Len(v) <= MaxUpdates /\ \A i \in DOMAIN v : UpdateFits(v[i])
  BY <1>1, <1>2, <1>8 DEF AllFit
<1>13. Handles(ListReader(MaxUpdates, "update"), form, v,
               Len(v) <= MaxUpdates /\ \A i \in DOMAIN v : UpdateFits(v[i]))
  BY <1>11, <1>12, SameFit
<1>14. form = PlainCounted([i \in DOMAIN v |-> PlainUpdate(v[i])])
  BY <1>2, <1>3, <1>10
<1> QED BY <1>6, <1>11, <1>13, <1>14

\* A number.
LEMMA NumberHandled ==
  ASSUME NEW n \in Nat
  PROVE  /\ <<n>> \in Frame /\ <<n>> # <<>>
         /\ Handles(FieldReader("number"), <<n>>, n, TRUE)
<1>1. <<n>> \in Frame /\ <<n>> # <<>>
  <2>1. <<n>> \in Frame
    BY DEF Frame
  <2> QED BY <2>1
<1>2. PICK reader : reader = FieldReader("number")
  OBVIOUS
<1>3. \A s \in Frame : reader[s] = IF s = <<>> THEN Failed ELSE Result(Head(s), Tail(s))
  BY <1>2, FieldReadersAre
<1>4. \A u \in Frame : reader[<<n>> \o u] = Result(n, u)
  BY <1>3, Leads
<1>5. ASSUME NEW s \in Frame, Cut(s, <<n>>) PROVE ~reader[s].ok
  <2>1. Len(<<n>>) = 1
    OBVIOUS
  <2>2. Len(s) < 1 /\ Len(s) \in Nat
    BY <1>1, <1>5, <2>1, CutIs
  <2>3. s = <<>>
    <3>1. Len(s) = 0
      BY <2>2
    <3> QED BY <3>1, IsEmpty
  <2> QED BY <1>3, <2>3 DEF Failed
<1> QED BY <1>1, <1>2, <1>4, <1>5 DEF Handles

\* Each field is written so that its reader takes it off again.
FieldGood(kind, v) ==
  /\ PlainField(kind, v) \in Frame /\ PlainField(kind, v) # <<>>
  /\ v \in AnyValue
  /\ Handles(FieldReader(kind), PlainField(kind, v), v, FitsIn(kind, v))

\* It is so for every kind of field and every value of it, however long.
LEMMA FieldHandled ==
  ASSUME NEW kind \in Kinds, NEW v \in FieldValue(kind)
  PROVE  FieldGood(kind, v)
<1>1. CASE kind = "string"
  <2>1. v \in Frame /\ PlainField(kind, v) = PlainBytes(v) /\ (FitsIn(kind, v) <=> Len(v) <= MaxString)
    BY <1>1 DEF FieldValue, PlainField, FitsIn
  <2>2. PlainBytes(v) \in Frame /\ Handles(FieldReader(kind), PlainBytes(v), v, Len(v) <= MaxString)
    BY <1>1, <2>1, PartReaders, FieldReadersAre, BytesHandled
  <2>3. Handles(FieldReader(kind), PlainBytes(v), v, FitsIn(kind, v))
    BY <2>1, <2>2 DEF Handles
  <2>4. PlainBytes(v) # <<>> /\ v \in AnyValue
    BY <2>1, IsEmpty, Leads DEF PlainBytes, AnyValue
  <2> QED BY <2>1, <2>2, <2>3, <2>4 DEF FieldGood
<1>2. CASE kind = "bytes"
  <2>1. v \in Frame /\ PlainField(kind, v) = PlainBytes(v) /\ (FitsIn(kind, v) <=> Len(v) <= MaxBytes)
    BY <1>2 DEF FieldValue, PlainField, FitsIn
  <2>2. PlainBytes(v) \in Frame /\ Handles(FieldReader(kind), PlainBytes(v), v, Len(v) <= MaxBytes)
    BY <1>2, <2>1, PartReaders, FieldReadersAre, BytesHandled
  <2>3. Handles(FieldReader(kind), PlainBytes(v), v, FitsIn(kind, v))
    BY <2>1, <2>2 DEF Handles
  <2>4. PlainBytes(v) # <<>> /\ v \in AnyValue
    BY <2>1, IsEmpty, Leads DEF PlainBytes, AnyValue
  <2> QED BY <2>1, <2>2, <2>3, <2>4 DEF FieldGood
<1>3. CASE kind = "strings"
  <2>1. /\ v \in Seq(Frame) /\ v \in AnyValue
        /\ PlainField(kind, v) = PlainCounted([i \in DOMAIN v |-> PlainBytes(v[i])])
        /\ (FitsIn(kind, v) <=> Len(v) <= MaxStrings /\ \A i \in DOMAIN v : Len(v[i]) <= MaxString)
    BY <1>3 DEF FieldValue, PlainField, FitsIn, AnyValue
  <2>2. PICK form : form = PlainCounted([i \in DOMAIN v |-> PlainBytes(v[i])])
    OBVIOUS
  <2>3. /\ form \in Frame /\ form # <<>>
        /\ Handles(ListReader(MaxStrings, "string"), form, v,
                   Len(v) <= MaxStrings /\ \A i \in DOMAIN v : Len(v[i]) <= MaxString)
    BY <2>1, <2>2, PartReaders, Elements, PartsHandled
  <2>4. Handles(ListReader(MaxStrings, "string"), form, v, FitsIn(kind, v))
    BY <2>1, <2>3, SameFit
  <2> QED BY <1>3, <2>1, <2>2, <2>3, <2>4, FieldReadersAre DEF FieldGood
<1>4. CASE kind = "changes"
  <2>1. /\ v \in Seq(Frame) /\ v \in AnyValue
        /\ PlainField(kind, v) = PlainCounted([i \in DOMAIN v |-> PlainBytes(v[i])])
        /\ (FitsIn(kind, v) <=> Len(v) <= MaxChanges /\ \A i \in DOMAIN v : Len(v[i]) <= MaxBytes)
    BY <1>4 DEF FieldValue, PlainField, FitsIn, AnyValue
  <2>2. PICK form : form = PlainCounted([i \in DOMAIN v |-> PlainBytes(v[i])])
    OBVIOUS
  <2>3. /\ form \in Frame /\ form # <<>>
        /\ Handles(ListReader(MaxChanges, "bytes"), form, v,
                   Len(v) <= MaxChanges /\ \A i \in DOMAIN v : Len(v[i]) <= MaxBytes)
    BY <2>1, <2>2, PartReaders, Elements, PartsHandled
  <2>4. Handles(ListReader(MaxChanges, "bytes"), form, v, FitsIn(kind, v))
    BY <2>1, <2>3, SameFit
  <2> QED BY <1>4, <2>1, <2>2, <2>3, <2>4, FieldReadersAre DEF FieldGood
<1>5. CASE kind = "updates"
  <2>1. /\ v \in Seq(Frame \X Frame)
        /\ PlainField(kind, v) = PlainCounted([i \in DOMAIN v |-> PlainUpdate(v[i])])
        /\ (FitsIn(kind, v) <=> Len(v) <= MaxUpdates /\ \A i \in DOMAIN v : UpdateFits(v[i]))
    BY <1>5 DEF FieldValue, PlainField, FitsIn, UpdateFits
  <2>2. PICK form : form = PlainCounted([i \in DOMAIN v |-> PlainUpdate(v[i])])
    OBVIOUS
  <2>3. /\ form \in Frame /\ form # <<>> /\ v \in Seq(Seq(Frame))
        /\ Handles(ListReader(MaxUpdates, "update"), form, v,
                   Len(v) <= MaxUpdates /\ \A i \in DOMAIN v : UpdateFits(v[i]))
    BY <2>1, <2>2, UpdatesHandled
  <2>4. Handles(ListReader(MaxUpdates, "update"), form, v, FitsIn(kind, v))
    BY <2>1, <2>3, SameFit
  <2>5. v \in AnyValue
    BY <2>3 DEF AnyValue
  <2> QED BY <1>5, <2>1, <2>2, <2>3, <2>4, <2>5, FieldReadersAre DEF FieldGood
<1>6. CASE kind = "number"
  <2>1. v \in Nat /\ v \in AnyValue /\ PlainField(kind, v) = <<v>> /\ (FitsIn(kind, v) <=> TRUE)
    BY <1>6 DEF FieldValue, PlainField, FitsIn, AnyValue
  <2>2. Handles(FieldReader(kind), <<v>>, v, FitsIn(kind, v))
    BY <1>6, <2>1, NumberHandled, SameFit
  <2> QED BY <2>1, <2>2, NumberHandled DEF FieldGood
<1> QED BY <1>1, <1>2, <1>3, <1>4, <1>5, <1>6 DEF Kinds

\* The types of messages, their fields and tags.
LEMMA FieldsAre ==
  /\ Type = {"Connect", "Sync", "Push", "Broadcast", "PushAck", "SubscribeAck", "Subscribe", "Ping",
             "Pong", "Ephemeral", "EphemeralBatch", "EphemeralRelay", "Error"}
  /\ \A t \in Type : Fields[t] \in Seq(Kinds) /\ Tag[t] \in Nat
  /\ \A t, tt \in Type : Tag[t] = Tag[tt] => t = tt
  /\ Fields.Connect = <<"string", "strings", "bytes">>
<1>1. Type = {"Connect", "Sync", "Push", "Broadcast", "PushAck", "SubscribeAck", "Subscribe", "Ping",
             "Pong", "Ephemeral", "EphemeralBatch", "EphemeralRelay", "Error"}
  BY DEF Type, Fields
<1>2. \A t \in Type : Tag[t] \in Nat
  BY <1>1 DEF Tag
<1>3. \A t, tt \in Type : Tag[t] = Tag[tt] => t = tt
  BY <1>1 DEF Tag
<1>4. \A t \in Type : Fields[t] \in Seq(Kinds)
  <2>1. /\ <<"string", "strings", "bytes">> \in Seq(Kinds) /\ <<"bytes", "changes">> \in Seq(Kinds)
        /\ <<"string", "changes", "strings">> \in Seq(Kinds) /\ <<"bytes">> \in Seq(Kinds)
        /\ <<"strings", "strings">> \in Seq(Kinds) /\ <<>> \in Seq(Kinds)
        /\ <<"string", "bytes">> \in Seq(Kinds) /\ <<"updates">> \in Seq(Kinds)
        /\ <<"string", "number", "strings", "updates">> \in Seq(Kinds) /\ <<"string">> \in Seq(Kinds)
    BY DEF Kinds
  <2>2. /\ Fields["Connect"] = <<"string", "strings", "bytes">>
        /\ Fields["Sync"] = <<"bytes", "changes">> /\ Fields["Push"] = <<"bytes", "changes">>
        /\ Fields["Broadcast"] = <<"string", "changes", "strings">> /\ Fields["PushAck"] = <<"bytes">>
        /\ Fields["SubscribeAck"] = <<"strings", "strings">>
        /\ Fields["Subscribe"] = <<"strings", "strings">>
        /\ Fields["Ping"] = <<>> /\ Fields["Pong"] = <<>>
        /\ Fields["Ephemeral"] = <<"string", "bytes">> /\ Fields["EphemeralBatch"] = <<"updates">>
        /\ Fields["EphemeralRelay"] = <<"string", "number", "strings", "updates">>
        /\ Fields["Error"] = <<"string">>
    BY DEF Fields
  <2> QED BY <1>1, <2>1, <2>2
<1> QED BY <1>1, <1>2, <1>3, <1>4 DEF Fields

\* The fields and the tag of a type.
LEMMA KindsAre ==
  ASSUME NEW t \in Type
  PROVE  Fields[t] \in Seq(Kinds) /\ Len(Fields[t]) \in Nat /\ Tag[t] \in Nat
<1>1. Fields[t] \in Seq(Kinds) /\ Tag[t] \in Nat
  BY FieldsAre
<1> QED BY <1>1

\* No two types have the same tag.
LEMMA TagsDiffer ==
  ASSUME NEW t \in Type, NEW tt \in Type, Tag[t] = Tag[tt]
  PROVE  t = tt
BY FieldsAre

FormsOf(kinds, vals) == [i \in DOMAIN vals |-> PlainField(kinds[i], vals[i])]
FieldsReader(kinds) == [s \in Frame |-> ReadFields(kinds, s)]
AllFitIn(kinds, vals) == \A i \in DOMAIN vals : FitsIn(kinds[i], vals[i])
ValuesOf(kinds, vals) ==
  vals \in Seq(AnyValue) /\ Len(vals) = Len(kinds) /\ \A i \in 1 .. Len(kinds) : vals[i] \in FieldValue(kinds[i])

\* The fields of a message are written so that they are taken off again.
LEMMA FieldsHandled ==
  ASSUME NEW kinds \in Seq(Kinds), NEW vals, ValuesOf(kinds, vals)
  PROVE  /\ FormsOf(kinds, vals) \in Seq(Frame) /\ Len(FormsOf(kinds, vals)) = Len(kinds)
         /\ \A i \in 1 .. Len(kinds) : FormsOf(kinds, vals)[i] # <<>>
         /\ FlattenSeq(FormsOf(kinds, vals)) \in Frame
         /\ Handles(FieldsReader(kinds), FlattenSeq(FormsOf(kinds, vals)), vals, AllFitIn(kinds, vals))
<1>1. PICK n \in Nat : n = Len(kinds)
  OBVIOUS
<1>2. vals \in Seq(AnyValue) /\ Len(vals) = n /\ DOMAIN vals = 1 .. n /\ DOMAIN kinds = 1 .. n
  BY <1>1 DEF ValuesOf
<1>3. \A i \in 1 .. n : kinds[i] \in Kinds /\ vals[i] \in FieldValue(kinds[i])
  BY <1>1, <1>2 DEF ValuesOf
<1>4. \A i \in 1 .. n : FieldGood(kinds[i], vals[i])
  BY <1>3, FieldHandled
<1>5. PICK forms : forms = FormsOf(kinds, vals)
  OBVIOUS
<1>6. forms = [i \in 1 .. n |-> PlainField(kinds[i], vals[i])]
  BY <1>2, <1>5 DEF FormsOf
<1>7. \A i \in 1 .. n : PlainField(kinds[i], vals[i]) \in Frame /\ PlainField(kinds[i], vals[i]) # <<>>
  BY <1>4 DEF FieldGood
<1>8. forms \in Seq(Frame) /\ Len(forms) = n
  BY <1>6, <1>7
<1>9. \A i \in 1 .. n : forms[i] = PlainField(kinds[i], vals[i])
  BY <1>6
<1>10. PICK readers : readers = [i \in DOMAIN kinds |-> FieldReader(kinds[i])]
  OBVIOUS
<1>11. /\ readers \in Seq(Readers(AnyValue)) /\ Len(readers) = n
       /\ \A i \in 1 .. n : readers[i] = FieldReader(kinds[i])
  <2>1. \A i \in 1 .. n : FieldReader(kinds[i]) \in Readers(AnyValue)
    BY <1>3, FieldReaderType
  <2> QED BY <1>2, <1>10, <2>1
<1>12. PICK fit : fit = [i \in 1 .. n |-> IF FitsIn(kinds[i], vals[i]) THEN TRUE ELSE FALSE]
  OBVIOUS
<1>13. fit \in [1 .. n -> BOOLEAN] /\ \A i \in 1 .. n : fit[i] <=> FitsIn(kinds[i], vals[i])
  BY <1>12
<1>14. ASSUME NEW i \in 1 .. n PROVE Handles(readers[i], forms[i], vals[i], fit[i])
  <2>1. PICK kind, v : kind = kinds[i] /\ v = vals[i]
    OBVIOUS
  <2>2. Handles(FieldReader(kind), PlainField(kind, v), v, FitsIn(kind, v))
    BY <1>4, <2>1 DEF FieldGood
  <2>3. Handles(FieldReader(kind), PlainField(kind, v), v, fit[i])
    BY <1>13, <2>1, <2>2 DEF Handles
  <2> QED BY <1>9, <1>11, <2>1, <2>3
<1>15. \A i \in 1 .. n : Handles(readers[i], forms[i], vals[i], fit[i])
  BY <1>14
<1>16. PICK all : all = [s \in Frame |-> ReadAll(readers, s)]
  OBVIOUS
<1>17. FlattenSeq(forms) \in Frame /\ Handles(all, FlattenSeq(forms), vals, AllFit(n, fit))
  <2>1. readers \in Seq(Readers(AnyValue)) /\ Len(readers) = n /\ fit \in [1 .. n -> BOOLEAN]
    BY <1>11, <1>13
  <2>2. vals \in Seq(AnyValue) /\ Len(vals) = n
    BY <1>2
  <2> QED BY <1>8, <1>15, <1>16, <2>1, <2>2, AllHandled
<1>18. all = FieldsReader(kinds)
  BY <1>10, <1>16, Zenon DEF FieldsReader, ReadFields
<1>19. AllFit(n, fit) <=> AllFitIn(kinds, vals)
  BY <1>2, <1>13 DEF AllFit, AllFitIn
<1>20. Handles(all, FlattenSeq(forms), vals, AllFitIn(kinds, vals))
  BY <1>17, <1>19, SameFit
<1> QED BY <1>1, <1>5, <1>7, <1>8, <1>9, <1>17, <1>18, <1>20

-----------------------------------------------------------------------------
(* Connect. *)

\* A number appended is a number joined.
LEMMA AppendIsJoin ==
  ASSUME NEW s \in Frame, NEW n \in Nat
  PROVE  Append(s, n) = s \o <<n>> /\ Append(s, n) \in Frame
<1>1. PICK k \in Nat : k = Len(s)
  BY IsEmpty
<1>2. PICK a : a = Append(s, n)
  OBVIOUS
<1>3. PICK j : j = s \o <<n>>
  OBVIOUS
<1>4. a \in Frame /\ Len(a) = k + 1 /\ a[k + 1] = n /\ \A i \in 1 .. k : a[i] = s[i]
  BY <1>1, <1>2 DEF Frame
<1>5. j \in Frame /\ Len(j) = k + 1 /\ j[k + 1] = n /\ \A i \in 1 .. k : j[i] = s[i]
  <2>1. <<n>> \in Frame /\ Len(<<n>>) = 1 /\ <<n>>[1] = n /\ 1 \in 1 .. 1
    BY DEF Frame
  <2> QED BY <1>1, <1>3, <2>1, Joins
<1>6. \A i \in 1 .. k + 1 : i \in 1 .. k \/ i = k + 1
  OBVIOUS
<1>7. \A i \in 1 .. k + 1 : a[i] = j[i]
  BY <1>4, <1>5, <1>6
<1> QED BY <1>2, <1>3, <1>4, <1>5, <1>7, SameFrame

\* The first two fields of a Connect, and what is read where they stand alone or not.
LEMMA ConnectStart ==
  ASSUME NEW v1 \in Frame, NEW v2 \in Seq(Frame), NEW v3 \in Frame
  PROVE  LET p == PlainField("string", v1) \o PlainField("strings", v2)
             fits == FitsIn("string", v1) /\ FitsIn("strings", v2)
             vals == <<v1, v2, v3>> IN
         /\ p \in Frame
         /\ \A t \in Frame : HeadsLeftOut("Connect", p \o t) => fits /\ t = <<>>
         /\ \A s \in Frame : Cut(s, p) => ~HeadsLeftOut("Connect", s)
         /\ ValuesOf(Fields.Connect, vals)
         /\ FlattenSeq(FormsOf(Fields.Connect, vals)) = p \o PlainBytes(v3)
         /\ PlainBytes(v3) \in Frame /\ PlainBytes(v3) # <<>>
         /\ AllFitIn(Fields.Connect, vals) <=> fits /\ Len(v3) <= MaxBytes
<1>1. PICK f1 \in Frame, f2 \in Frame, f3 \in Frame :
        /\ f1 = PlainField("string", v1) /\ f2 = PlainField("strings", v2) /\ f3 = PlainBytes(v3)
        /\ f3 = PlainField("bytes", v3) /\ f3 # <<>>
  <2>1. FieldGood("string", v1) /\ FieldGood("strings", v2) /\ FieldGood("bytes", v3)
    <3>1. v1 \in FieldValue("string") /\ v2 \in FieldValue("strings") /\ v3 \in FieldValue("bytes")
      BY DEF FieldValue
    <3> QED BY <3>1, FieldHandled DEF Kinds
  <2>2. PlainField("bytes", v3) = PlainBytes(v3)
    BY DEF PlainField
  <2> QED BY <2>1, <2>2 DEF FieldGood
<1>2. v1 \in AnyValue /\ v2 \in AnyValue /\ v3 \in AnyValue
  BY DEF AnyValue
<1>3. PICK kinds : kinds = <<"string", "strings">>
  OBVIOUS
<1>4. kinds \in Seq(Kinds) /\ Len(kinds) = 2 /\ kinds[1] = "string" /\ kinds[2] = "strings"
  BY <1>3 DEF Kinds
<1>5. PICK start : start = <<v1, v2>>
  OBVIOUS
<1>6. start \in Seq(AnyValue) /\ Len(start) = 2 /\ start[1] = v1 /\ start[2] = v2 /\ DOMAIN start = 1 .. 2
  BY <1>2, <1>5
<1>7. ValuesOf(kinds, start)
  <2>1. start[1] \in FieldValue(kinds[1]) /\ start[2] \in FieldValue(kinds[2])
    BY <1>4, <1>6 DEF FieldValue
  <2>2. \A i \in 1 .. 2 : i = 1 \/ i = 2
    OBVIOUS
  <2> QED BY <1>4, <1>6, <2>1, <2>2 DEF ValuesOf
<1>8. FormsOf(kinds, start) = <<f1, f2>>
  <2>1. PICK forms : forms = FormsOf(kinds, start)
    OBVIOUS
  <2>2. forms \in Seq(Frame) /\ Len(forms) = 2
    BY <1>4, <1>7, <2>1, FieldsHandled
  <2>3. forms[1] = f1 /\ forms[2] = f2
    BY <1>1, <1>4, <1>6, <2>1 DEF FormsOf
  <2>4. <<f1, f2>> \in Seq(Frame) /\ Len(<<f1, f2>>) = 2 /\ <<f1, f2>>[1] = f1 /\ <<f1, f2>>[2] = f2
    OBVIOUS
  <2>5. \A i \in 1 .. 2 : i = 1 \/ i = 2
    OBVIOUS
  <2>6. \A i \in 1 .. 2 : forms[i] = <<f1, f2>>[i]
    BY <2>3, <2>4, <2>5
  <2> QED BY <2>1, <2>2, <2>4, <2>6, SeqEqual
<1>9. PICK p \in Frame : p = f1 \o f2
  BY Joins
<1>10. FlattenSeq(FormsOf(kinds, start)) = p
  BY <1>8, <1>9, FlattenTwo
<1>11. Handles(FieldsReader(kinds), p, start, AllFitIn(kinds, start))
  BY <1>4, <1>7, <1>10, FieldsHandled
<1>12. AllFitIn(kinds, start) <=> FitsIn("string", v1) /\ FitsIn("strings", v2)
  <2>1. \A i \in 1 .. 2 : i = 1 \/ i = 2
    OBVIOUS
  <2> QED BY <1>4, <1>6, <2>1 DEF AllFitIn
<1>13. SubSeq(Fields.Connect, 1, 2) = kinds
  <2>1. PICK all : all = Fields.Connect
    OBVIOUS
  <2>2. all = <<"string", "strings", "bytes">>
    BY <2>1, FieldsAre
  <2>3. all[1] = "string" /\ all[2] = "strings"
    BY <2>2
  <2>4. \A i \in 1 .. 2 : i = 1 \/ i = 2
    OBVIOUS
  <2>5. \A i \in 1 .. 2 : all[i] \in Kinds
    BY <2>3, <2>4 DEF Kinds
  <2>6. PICK q : q = SubSeq(all, 1, 2)
    OBVIOUS
  <2>7. 1 \in Int /\ 2 \in Int /\ 2 - 1 + 1 = 2 /\ 1 <= 2 /\ 1 + 1 - 1 = 1 /\ 1 + 2 - 1 = 2
    OBVIOUS
  <2>8. /\ q \in Seq(Kinds) /\ Len(q) = (IF 1 <= 2 THEN 2 - 1 + 1 ELSE 0)
        /\ \A i \in 1 .. 2 - 1 + 1 : q[i] = all[1 + i - 1]
    BY <2>5, <2>6, <2>7, SubSeqProperties
  <2>9. Len(q) = 2 /\ \A i \in 1 .. 2 : q[i] = all[1 + i - 1]
    BY <2>7, <2>8
  <2>10. q[1] = "string" /\ q[2] = "strings"
    BY <2>3, <2>7, <2>9
  <2>11. \A i \in 1 .. 2 : q[i] = kinds[i]
    BY <1>4, <2>4, <2>10
  <2> QED BY <1>4, <2>1, <2>6, <2>8, <2>9, <2>11, SeqEqual
<1>14. ASSUME NEW s \in Frame
       PROVE  HeadsLeftOut("Connect", s) <=> FieldsReader(kinds)[s].ok /\ FieldsReader(kinds)[s].rest = <<>>
  BY <1>13 DEF HeadsLeftOut, FieldsReader
<1>15. ASSUME NEW t \in Frame, HeadsLeftOut("Connect", p \o t)
       PROVE  FitsIn("string", v1) /\ FitsIn("strings", v2) /\ t = <<>>
  <2>1. PICK s \in Frame : s = p \o t
    BY Joins
  <2>2. PICK got : got = FieldsReader(kinds)[s]
    OBVIOUS
  <2>3. got.ok /\ got.rest = <<>>
    BY <1>14, <1>15, <2>1, <2>2
  <2>4. IF AllFitIn(kinds, start) THEN got = Result(start, t) ELSE ~got.ok
    BY <1>11, <2>1, <2>2 DEF Handles
  <2> QED BY <1>12, <2>3, <2>4 DEF Result
<1>16. ASSUME NEW s \in Frame, Cut(s, p) PROVE ~HeadsLeftOut("Connect", s)
  <2>1. ~FieldsReader(kinds)[s].ok
    BY <1>11, <1>16 DEF Handles
  <2> QED BY <1>14, <2>1
<1>17. PICK vals : vals = <<v1, v2, v3>>
  OBVIOUS
<1>18. vals \in Seq(AnyValue) /\ Len(vals) = 3 /\ vals[1] = v1 /\ vals[2] = v2 /\ vals[3] = v3 /\ DOMAIN vals = 1 .. 3
  BY <1>2, <1>17
<1>19. PICK all : all = Fields.Connect
  OBVIOUS
<1>20. all \in Seq(Kinds) /\ Len(all) = 3 /\ all[1] = "string" /\ all[2] = "strings" /\ all[3] = "bytes"
  BY <1>19, FieldsAre DEF Kinds
<1>21. \A i \in 1 .. 3 : i = 1 \/ i = 2 \/ i = 3
  OBVIOUS
<1>22. ValuesOf(all, vals)
  <2>1. vals[1] \in FieldValue(all[1]) /\ vals[2] \in FieldValue(all[2]) /\ vals[3] \in FieldValue(all[3])
    BY <1>18, <1>20 DEF FieldValue
  <2> QED BY <1>18, <1>20, <1>21, <2>1 DEF ValuesOf
<1>23. FormsOf(all, vals) = <<f1, f2, f3>>
  <2>1. PICK forms : forms = FormsOf(all, vals)
    OBVIOUS
  <2>2. forms \in Seq(Frame) /\ Len(forms) = 3
    BY <1>20, <1>22, <2>1, FieldsHandled
  <2>3. forms[1] = f1 /\ forms[2] = f2 /\ forms[3] = f3
    BY <1>1, <1>18, <1>20, <2>1 DEF FormsOf
  <2>4. PICK fs : fs = <<f1, f2, f3>>
    OBVIOUS
  <2>5. fs \in Seq(Frame) /\ Len(fs) = 3 /\ fs[1] = f1 /\ fs[2] = f2 /\ fs[3] = f3
    BY <2>4
  <2>6. \A i \in 1 .. 3 : forms[i] = fs[i]
    BY <1>21, <2>3, <2>5
  <2> QED BY <2>1, <2>2, <2>4, <2>5, <2>6, SeqEqual
<1>24. FlattenSeq(FormsOf(all, vals)) = p \o f3
  <2>1. FlattenSeq(<<f1, f2, f3>>) = (f1 \o f2) \o f3
    BY FlattenThree
  <2> QED BY <1>9, <1>23, <2>1
<1>25. AllFitIn(all, vals) <=> (FitsIn("string", v1) /\ FitsIn("strings", v2)) /\ Len(v3) <= MaxBytes
  <2>1. FitsIn("bytes", v3) <=> Len(v3) <= MaxBytes
    BY DEF FitsIn
  <2> QED BY <1>18, <1>20, <1>21, <2>1 DEF AllFitIn
<1>26. p = PlainField("string", v1) \o PlainField("strings", v2)
  BY <1>1, <1>9
<1> QED BY <1>1, <1>15, <1>16, <1>17, <1>19, <1>22, <1>24, <1>25, <1>26

\* A message with all its fields.
WholeMessage(m) == m \in [type : Type, fields : Seq(AnyValue)] /\ ValuesOf(Fields[m.type], m.fields)

\* What stands behind the tag.
Payload(m) == FlattenSeq(FormsOf(Fields[m.type], m.fields))

\* A message is encoded as its tag and its fields, which are taken off again.
LEMMA EncodeIs ==
  ASSUME NEW m, WholeMessage(m)
  PROVE  /\ PlainEncode(m) = <<Tag[m.type]>> \o Payload(m) /\ Tag[m.type] \in Nat
         /\ Payload(m) \in Frame /\ PlainEncode(m) \in Frame /\ PlainEncode(m) # <<>>
         /\ Handles(FieldsReader(Fields[m.type]), Payload(m), m.fields, AllFitIn(Fields[m.type], m.fields))
         /\ Fits(m) <=> AllFitIn(Fields[m.type], m.fields)
<1>1. m.type \in Type /\ ValuesOf(Fields[m.type], m.fields)
  BY DEF WholeMessage
<1>2. Fields[m.type] \in Seq(Kinds) /\ Tag[m.type] \in Nat
  BY <1>1, FieldsAre
<1>3. PICK kinds \in Seq(Kinds) : kinds = Fields[m.type]
  BY <1>2
<1>4. PICK vals : vals = m.fields
  OBVIOUS
<1>5. ValuesOf(kinds, vals)
  BY <1>1, <1>3, <1>4
<1>6. /\ FlattenSeq(FormsOf(kinds, vals)) \in Frame
      /\ Handles(FieldsReader(kinds), FlattenSeq(FormsOf(kinds, vals)), vals, AllFitIn(kinds, vals))
  BY <1>5, FieldsHandled
<1>7. Payload(m) = FlattenSeq(FormsOf(kinds, vals))
  BY <1>3, <1>4 DEF Payload
<1>8. PlainEncode(m) = <<Tag[m.type]>> \o Payload(m)
  BY DEF PlainEncode, Payload, FormsOf
<1>9. <<Tag[m.type]>> \o Payload(m) \in Frame /\ <<Tag[m.type]>> \o Payload(m) # <<>>
  BY <1>2, <1>6, <1>7, Leads
<1>10. Fits(m) <=> AllFitIn(kinds, vals)
  BY <1>3, <1>4 DEF Fits, AllFitIn
<1> QED BY <1>2, <1>3, <1>4, <1>6, <1>7, <1>8, <1>9, <1>10

\* What is decoded behind a tag.
Decoded(t, b) ==
  FieldsReader(Fields[t])[IF HeadsLeftOut(t, b) THEN Append(b, 0) ELSE b]

\* The tag is found again, and what is behind it is read as fields of its type.
LEMMA DecodeIs ==
  ASSUME NEW t \in Type, NEW b \in Frame
  PROVE  /\ <<Tag[t]>> \o b \in Frame
         /\ Decode(<<Tag[t]>> \o b)
              = [ok |-> Decoded(t, b).ok, value |-> [type |-> t, fields |-> Decoded(t, b).value]]
<1>1. PICK n \in Nat : n = Tag[t]
  BY FieldsAre
<1>2. PICK s : s = <<n>> \o b
  OBVIOUS
<1>3. s \in Frame /\ s # <<>> /\ Head(s) = n /\ Tail(s) = b
  BY <1>2, Leads
<1>4. Tag[t] = Head(s)
  BY <1>1, <1>3
<1>5. (CHOOSE tt \in Type : Tag[tt] = Head(s)) = t
  <2>1. \A tt \in Type : Tag[tt] = Head(s) => tt = t
    <3>1. \A tt \in Type : Tag[tt] = Tag[t] => tt = t
      BY TagsDiffer
    <3> QED BY <1>4, <3>1
  <2> QED BY <1>4, <2>1
<1>6. PICK body \in Frame : body = IF HeadsLeftOut(t, b) THEN Append(b, 0) ELSE b
  <2>1. Append(b, 0) \in Frame
    BY AppendIsJoin
  <2> QED BY <2>1
<1>7. ReadFields(Fields[t], body) = Decoded(t, b)
  BY <1>6 DEF Decoded, FieldsReader
<1>8. ~(s = <<>> \/ \A tt \in Type : Tag[tt] # Head(s))
  BY <1>3, <1>4
<1>9. Decode(s) = [ok |-> ReadFields(Fields[t], body).ok,
                   value |-> [type |-> t, fields |-> ReadFields(Fields[t], body).value]]
  <2>1. PICK tt : tt = (CHOOSE k \in Type : Tag[k] = Head(s))
    OBVIOUS
  <2>2. tt = t
    BY <1>5, <2>1
  <2>3. Decode(s) = LET bo == IF HeadsLeftOut(tt, Tail(s)) THEN Append(Tail(s), 0) ELSE Tail(s)
                        read == ReadFields(Fields[tt], bo)
                    IN  [ok |-> read.ok, value |-> [type |-> tt, fields |-> read.value]]
    BY <1>8, <2>1, Zenon DEF Decode
  <2> QED BY <1>3, <1>6, <2>2, <2>3
<1> QED BY <1>1, <1>2, <1>3, <1>7, <1>9

\* Heads are left out of a Connect only.
LEMMA OnlyConnect == ASSUME NEW t, NEW b, HeadsLeftOut(t, b) PROVE t = "Connect"
BY DEF HeadsLeftOut

\* The fields of a Connect.
LEMMA ConnectIs ==
  ASSUME NEW m, WholeMessage(m), m.type = "Connect"
  PROVE  \E v1 \in Frame, v2 \in Seq(Frame), v3 \in Frame : m.fields = <<v1, v2, v3>>
<1>1. PICK kinds : kinds = Fields["Connect"]
  OBVIOUS
<1>2. kinds = <<"string", "strings", "bytes">>
  BY <1>1, FieldsAre
<1>3. Len(kinds) = 3 /\ kinds[1] = "string" /\ kinds[2] = "strings" /\ kinds[3] = "bytes"
  BY <1>2
<1>4. ValuesOf(kinds, m.fields)
  BY <1>1 DEF WholeMessage
<1>5. PICK vals : vals = m.fields
  OBVIOUS
<1>6. vals \in Seq(AnyValue) /\ Len(vals) = 3 /\ \A i \in 1 .. 3 : vals[i] \in FieldValue(kinds[i])
  BY <1>3, <1>4, <1>5 DEF ValuesOf
<1>7. vals[1] \in Frame /\ vals[2] \in Seq(Frame) /\ vals[3] \in Frame
  <2>1. 1 \in 1 .. 3 /\ 2 \in 1 .. 3 /\ 3 \in 1 .. 3
    OBVIOUS
  <2>2. /\ vals[1] \in FieldValue("string") /\ vals[2] \in FieldValue("strings")
        /\ vals[3] \in FieldValue("bytes")
    BY <1>3, <1>6, <2>1
  <2> QED BY <2>2 DEF FieldValue
<1>8. vals = <<vals[1], vals[2], vals[3]>>
  BY <1>6
<1> QED BY <1>5, <1>7, <1>8

\* A whole message is decoded as it was, or refused.
LEMMA WholeDecoded ==
  ASSUME NEW m, WholeMessage(m), NEW u \in Frame
  PROVE  IF Fits(m) THEN Decode(PlainEncode(m) \o u) = [ok |-> TRUE, value |-> m]
         ELSE ~Decode(PlainEncode(m) \o u).ok
<1>1. PICK t \in Type, b \in Frame : t = m.type /\ b = Payload(m)
  BY EncodeIs DEF WholeMessage
<1>2. PICK d \in Frame : d = b \o u
  BY Joins
<1>3. PlainEncode(m) \o u = <<Tag[t]>> \o d
  <2>1. <<Tag[t]>> \in Frame
    BY EncodeIs, <1>1, Leads
  <2>2. (<<Tag[t]>> \o b) \o u = <<Tag[t]>> \o (b \o u)
    BY <2>1, JoinsOver
  <2>3. PlainEncode(m) = <<Tag[t]>> \o b
    BY <1>1, EncodeIs
  <2> QED BY <1>2, <2>2, <2>3, Zenon
<1>a. ASSUME NEW x \in Frame, NEW y \in Frame PROVE (x \o y) \o u = x \o (y \o u)
  BY JoinsOver
<1>4. ~HeadsLeftOut(t, d)
  <2> SUFFICES ASSUME HeadsLeftOut(t, d) PROVE FALSE
    OBVIOUS
  <2>1. t = "Connect"
    BY OnlyConnect
  <2>2. PICK v1 \in Frame, v2 \in Seq(Frame), v3 \in Frame : m.fields = <<v1, v2, v3>>
    BY <1>1, <2>1, ConnectIs
  <2>3. PICK p : p = PlainField("string", v1) \o PlainField("strings", v2)
    OBVIOUS
  <2>4. PICK f : f = PlainBytes(v3)
    OBVIOUS
  <2>5. /\ p \in Frame /\ f \in Frame /\ f # <<>>
        /\ \A x \in Frame : HeadsLeftOut("Connect", p \o x) => x = <<>>
        /\ FlattenSeq(FormsOf(Fields.Connect, <<v1, v2, v3>>)) = p \o f
    BY <2>3, <2>4, ConnectStart, ZenonT(40)
  <2>6. b = p \o f
    BY <1>1, <2>1, <2>2, <2>5 DEF Payload
  <2>7. d = p \o (f \o u) /\ f \o u \in Frame
    <3>1. f \o u \in Frame
      BY <2>5, Joins
    <3>2. (p \o f) \o u = p \o (f \o u)
      BY <1>a, <2>5
    <3> QED BY <1>2, <2>6, <3>1, <3>2
  <2>8. f \o u = <<>>
    BY <2>1, <2>5, <2>7
  <2>9. Len(f) + Len(u) = 0 /\ Len(f) \in Nat /\ Len(u) \in Nat
    <3>1. Len(f \o u) = Len(f) + Len(u)
      BY <2>5, Joins
    <3> QED BY <2>5, <2>7, <2>8, <3>1, IsEmpty
  <2>10. Len(f) = 0
    BY <2>9
  <2> QED BY <2>5, <2>10, IsEmpty
<1>5. PICK got : got = FieldsReader(Fields[t])[d]
  OBVIOUS
<1>6. Decoded(t, d) = got
  BY <1>4, <1>5 DEF Decoded
<1>7. Decode(PlainEncode(m) \o u) = [ok |-> got.ok, value |-> [type |-> t, fields |-> got.value]]
  BY <1>3, <1>6, DecodeIs
<1>8. IF AllFitIn(Fields[t], m.fields) THEN got = Result(m.fields, u) ELSE ~got.ok
  <2>1. Handles(FieldsReader(Fields[t]), b, m.fields, AllFitIn(Fields[t], m.fields))
    BY <1>1, EncodeIs
  <2> QED BY <1>2, <1>5, <2>1 DEF Handles
<1>9. Fits(m) <=> AllFitIn(Fields[t], m.fields)
  BY <1>1, EncodeIs
<1>10. CASE Fits(m)
  <2>1. got.ok = TRUE /\ got.value = m.fields
    BY <1>8, <1>9, <1>10 DEF Result
  <2>2. m = [type |-> m.type, fields |-> m.fields]
    BY DEF WholeMessage
  <2> QED BY <1>1, <1>7, <1>10, <2>1, <2>2
<1>11. CASE ~Fits(m)
  BY <1>7, <1>8, <1>9, <1>11
<1> QED BY <1>10, <1>11

\* A message cut short is refused, but for a Connect cut where its heads begin.
LEMMA CutDecoded ==
  ASSUME NEW m, WholeMessage(m), NEW s \in Frame, s # <<>>, Cut(s, PlainEncode(m)), Decode(s).ok
  PROVE  m.type = "Connect" /\ Decode(s).value.fields = [m.fields EXCEPT ![3] = <<>>]
<1>1. PICK t \in Type, b \in Frame : t = m.type /\ b = Payload(m)
  BY EncodeIs DEF WholeMessage
<1>2. PICK d \in Frame : s = <<Tag[t]>> \o d /\ Cut(d, b)
  <2>1. Cut(s, <<Tag[t]>> \o b) /\ Tag[t] \in Nat
    BY <1>1, EncodeIs
  <2> QED BY <2>1, CutBehind
<1>3. PICK got : got = Decoded(t, d)
  OBVIOUS
<1>4. Decode(s) = [ok |-> got.ok, value |-> [type |-> t, fields |-> got.value]]
  BY <1>2, <1>3, DecodeIs
<1>5. got.ok
  BY <1>4
<1>6. HeadsLeftOut(t, d)
  <2> SUFFICES ASSUME ~HeadsLeftOut(t, d) PROVE FALSE
    OBVIOUS
  <2>1. got = FieldsReader(Fields[t])[d]
    BY <1>3 DEF Decoded
  <2>2. Handles(FieldsReader(Fields[t]), b, m.fields, AllFitIn(Fields[t], m.fields))
    BY <1>1, EncodeIs
  <2> QED BY <1>2, <1>5, <2>1, <2>2 DEF Handles
<1>7. t = "Connect"
  BY <1>6, OnlyConnect
<1>8. PICK v1 \in Frame, v2 \in Seq(Frame), v3 \in Frame : m.fields = <<v1, v2, v3>>
  BY <1>1, <1>7, ConnectIs
<1>9. PICK p : p = PlainField("string", v1) \o PlainField("strings", v2)
  OBVIOUS
<1>10. PICK fits \in BOOLEAN : fits <=> FitsIn("string", v1) /\ FitsIn("strings", v2)
  OBVIOUS
<1>11. /\ p \in Frame
       /\ \A x \in Frame : HeadsLeftOut("Connect", p \o x) => fits /\ x = <<>>
       /\ \A x \in Frame : Cut(x, p) => ~HeadsLeftOut("Connect", x)
  BY <1>9, <1>10, ConnectStart
<1>12. b = p \o PlainBytes(v3) /\ PlainBytes(v3) \in Frame
  <2>1. /\ FlattenSeq(FormsOf(Fields.Connect, <<v1, v2, v3>>)) = p \o PlainBytes(v3)
        /\ PlainBytes(v3) \in Frame
    BY <1>9, ConnectStart, ZenonT(40)
  <2> QED BY <1>1, <1>7, <1>8, <2>1 DEF Payload
<1>13. ~Cut(d, p)
  BY <1>6, <1>7, <1>11
<1>14. PICK x \in Frame : d = p \o x
  <2>1. PICK f \in Frame : f = PlainBytes(v3)
    BY <1>12
  <2>2. p \in Frame /\ Cut(d, p \o f)
    BY <1>2, <1>11, <1>12, <2>1
  <2>3. Cut(d, p) \/ \E x \in Frame : d = p \o x /\ Cut(x, f)
    BY <2>2, CutSplits
  <2> QED BY <1>13, <2>3
<1>15. fits /\ d = p
  <2>1. fits /\ x = <<>>
    BY <1>6, <1>7, <1>11, <1>14
  <2> QED BY <1>11, <1>14, <2>1, JoinsNone
<1>16. got = FieldsReader(Fields.Connect)[p \o <<0>>]
  <2>1. got = FieldsReader(Fields[t])[Append(d, 0)]
    BY <1>3, <1>6 DEF Decoded
  <2>2. Append(p, 0) = p \o <<0>>
    BY <1>11, AppendIsJoin
  <2>3. got = FieldsReader(Fields.Connect)[Append(p, 0)]
    BY <1>7, <1>15, <2>1, Zenon
  <2> QED BY <2>2, <2>3, Zenon
<1>17. PICK none \in Frame : none = <<>>
  BY EmptySeq DEF Frame
<1>18. PICK vals : vals = <<v1, v2, none>>
  OBVIOUS
<1>19. /\ ValuesOf(Fields.Connect, vals)
       /\ FlattenSeq(FormsOf(Fields.Connect, vals)) = p \o PlainBytes(none)
       /\ AllFitIn(Fields.Connect, vals) <=> fits /\ Len(none) <= MaxBytes
  BY <1>9, <1>10, <1>18, ConnectStart, ZenonT(40)
<1>20. PlainBytes(none) = <<0>>
  <2>1. Len(none) = 0 /\ <<0>> \in Frame
    BY <1>17, Leads
  <2> QED BY <1>17, <2>1, JoinsNone DEF PlainBytes
<1>21. AllFitIn(Fields.Connect, vals)
  <2>1. Len(none) = 0 /\ 0 <= MaxBytes
    BY <1>17, PartReaders
  <2> QED BY <1>15, <1>19, <2>1
<1>22. Fields.Connect \in Seq(Kinds)
  BY FieldsAre
<1>23. PICK f \in Frame : f = p \o <<0>>
  BY <1>11, <1>17, Joins, Leads
<1>24. Handles(FieldsReader(Fields.Connect), f, vals, AllFitIn(Fields.Connect, vals))
  BY <1>19, <1>20, <1>22, <1>23, FieldsHandled
<1>25. FieldsReader(Fields.Connect)[f \o <<>>] = Result(vals, <<>>)
  BY <1>17, <1>21, <1>24 DEF Handles
<1>26. got = Result(vals, <<>>)
  BY <1>16, <1>23, <1>25, JoinsNone
<1>27. Decode(s).value.fields = vals
  BY <1>4, <1>26 DEF Result
<1>28. [m.fields EXCEPT ![3] = <<>>] = vals
  BY <1>8, <1>17, <1>18
<1> QED BY <1>1, <1>7, <1>27, <1>28

\* A length below Wrap is written as it is.
LEMMA ShortLength ==
  ASSUME NEW n \in Nat, n < Wrap
  PROVE  n % Wrap = n
<1>1. Wrap \in Nat /\ Wrap > 0
  BY WireConstantsOK
<1> QED BY <1>1

\* A string without too many bytes is.
LEMMA BytesPlain ==
  ASSUME NEW b \in Frame, Len(b) < Wrap
  PROVE  WriteBytes(b) = PlainBytes(b)
<1>1. Len(b) \in Nat
  BY IsEmpty
<1>2. Len(b) % Wrap = Len(b)
  BY <1>1, ShortLength
<1> QED BY <1>2 DEF WriteBytes, PlainBytes

\* A list is, with its elements.
LEMMA CountedPlain ==
  ASSUME NEW S, NEW v \in Seq(S), Len(v) < Wrap, NEW forms, NEW plain,
         forms = plain, Len(plain) = Len(v)
  PROVE  Counted(forms) = PlainCounted(plain)
<1>1. Len(v) \in Nat
  OBVIOUS
<1>2. Len(v) % Wrap = Len(v)
  BY <1>1, ShortLength
<1> QED BY <1>2 DEF Counted, PlainCounted

\* Every field is.
LEMMA FieldPlain ==
  ASSUME NEW kind \in Kinds, NEW v \in FieldValue(kind), Representable(kind, v)
  PROVE  WriteField(kind, v) = PlainField(kind, v)
<1>1. CASE kind \in {"string", "bytes"}
  <2>1. v \in Frame /\ Len(v) < Wrap
    BY <1>1 DEF FieldValue, Representable
  <2> QED BY <1>1, <2>1, BytesPlain DEF WriteField, PlainField
<1>2. CASE kind \in {"strings", "changes"}
  <2>1. v \in Seq(Frame) /\ Len(v) < Wrap /\ \A i \in DOMAIN v : Len(v[i]) < Wrap
    BY <1>2 DEF FieldValue, Representable
  <2>2. PICK forms, plain : /\ forms = [i \in DOMAIN v |-> WriteBytes(v[i])]
                           /\ plain = [i \in DOMAIN v |-> PlainBytes(v[i])]
    OBVIOUS
  <2>3. \A i \in DOMAIN v : WriteBytes(v[i]) = PlainBytes(v[i])
    BY <2>1, BytesPlain
  <2>4. forms = plain /\ Len(plain) = Len(v)
    BY <2>1, <2>2, <2>3
  <2>5. Counted(forms) = PlainCounted(plain)
    BY <2>1, <2>4, CountedPlain
  <2> QED BY <1>2, <2>2, <2>5 DEF WriteField, PlainField
<1>3. CASE kind = "updates"
  <2>1. v \in Seq(Frame \X Frame) /\ Len(v) < Wrap
    BY <1>3 DEF FieldValue, Representable
  <2>2. PICK forms, plain : /\ forms = [i \in DOMAIN v |-> WriteUpdate(v[i])]
                           /\ plain = [i \in DOMAIN v |-> PlainUpdate(v[i])]
    OBVIOUS
  <2>3. ASSUME NEW i \in DOMAIN v PROVE WriteUpdate(v[i]) = PlainUpdate(v[i])
    <3>1. Len(v[i][1]) < Wrap /\ Len(v[i][2]) < Wrap
      BY <1>3 DEF Representable
    <3>2. v[i] \in Frame \X Frame
      BY <2>1
    <3>3. v[i][1] \in Frame /\ v[i][2] \in Frame
      BY <3>2
    <3> QED BY <3>1, <3>3, BytesPlain DEF WriteUpdate, PlainUpdate
  <2>4. forms = plain /\ Len(plain) = Len(v)
    BY <2>1, <2>2, <2>3
  <2>5. Counted(forms) = PlainCounted(plain)
    BY <2>1, <2>4, CountedPlain
  <2> QED BY <1>3, <2>2, <2>5 DEF WriteField, PlainField
<1>4. CASE kind = "number"
  BY <1>4 DEF WriteField, PlainField
<1> QED BY <1>1, <1>2, <1>3, <1>4 DEF Kinds

\* And so is every message without a length of Wrap.
LEMMA EncodedPlain ==
  ASSUME NEW m, WholeMessage(m), AllRepresentable(m)
  PROVE  Encode(m) = PlainEncode(m) /\ Encode(m) \in Frame /\ Encode(m) # <<>>
<1>1. m.type \in Type /\ ValuesOf(Fields[m.type], m.fields)
  BY DEF WholeMessage
<1>2. PICK kinds \in Seq(Kinds) : kinds = Fields[m.type]
  BY <1>1, FieldsAre
<1>3. PICK vals : vals = m.fields
  OBVIOUS
<1>4. /\ vals \in Seq(AnyValue) /\ Len(vals) = Len(kinds)
      /\ \A i \in 1 .. Len(vals) : vals[i] \in FieldValue(kinds[i])
  BY <1>1, <1>2, <1>3 DEF ValuesOf
<1>5. ASSUME NEW i \in DOMAIN vals PROVE WriteField(kinds[i], vals[i]) = PlainField(kinds[i], vals[i])
  <2>1. kinds[i] \in Kinds /\ vals[i] \in FieldValue(kinds[i])
    BY <1>4
  <2>2. Representable(kinds[i], vals[i])
    BY <1>2, <1>3 DEF AllRepresentable
  <2> QED BY <2>1, <2>2, FieldPlain
<1>6. [i \in DOMAIN vals |-> WriteField(kinds[i], vals[i])] = [i \in DOMAIN vals |-> PlainField(kinds[i], vals[i])]
  BY <1>5
<1>7. Encode(m) = PlainEncode(m)
  BY <1>2, <1>3, <1>6 DEF Encode, PlainEncode
<1> QED BY <1>7, EncodeIs

\* What fits in has no length of Wrap.
LEMMA FitsIsRepresentable ==
  ASSUME NEW m, WholeMessage(m), Fits(m)
  PROVE  AllRepresentable(m)
<1>1. m.type \in Type /\ ValuesOf(Fields[m.type], m.fields)
  BY DEF WholeMessage
<1>2. PICK kinds \in Seq(Kinds) : kinds = Fields[m.type]
  BY <1>1, FieldsAre
<1>3. PICK vals : vals = m.fields
  OBVIOUS
<1>4. /\ vals \in Seq(AnyValue) /\ Len(vals) = Len(kinds)
      /\ \A i \in 1 .. Len(vals) : vals[i] \in FieldValue(kinds[i])
  BY <1>1, <1>2, <1>3 DEF ValuesOf
<1>5. ASSUME NEW kind \in Kinds, NEW v \in FieldValue(kind), FitsIn(kind, v)
      PROVE  Representable(kind, v)
  <2>1. /\ MaxString < Wrap /\ MaxBytes < Wrap /\ MaxStrings < Wrap /\ MaxChanges < Wrap
        /\ MaxUpdates < Wrap /\ Wrap \in Nat
    BY WireConstantsOK
  <2>2. \A f \in Frame, max \in Nat : Len(f) <= max /\ max < Wrap => Len(f) < Wrap
    BY <2>1, IsEmpty
  <2>3. CASE kind \in {"string", "bytes"}
    BY <1>5, <2>1, <2>2, <2>3, PartReaders DEF FieldValue, FitsIn, Representable
  <2>4. CASE kind = "strings"
    <3>1. v \in Seq(Frame) /\ Len(v) <= MaxStrings /\ \A i \in DOMAIN v : Len(v[i]) <= MaxString
      BY <1>5, <2>4 DEF FieldValue, FitsIn
    <3>2. Len(v) < Wrap /\ \A i \in DOMAIN v : Len(v[i]) < Wrap
      BY <2>1, <2>2, <3>1, PartReaders
    <3> QED BY <2>4, <3>2 DEF Representable
  <2>5. CASE kind = "changes"
    <3>1. v \in Seq(Frame) /\ Len(v) <= MaxChanges /\ \A i \in DOMAIN v : Len(v[i]) <= MaxBytes
      BY <1>5, <2>5 DEF FieldValue, FitsIn
    <3>2. Len(v) < Wrap /\ \A i \in DOMAIN v : Len(v[i]) < Wrap
      BY <2>1, <2>2, <3>1, PartReaders
    <3> QED BY <2>5, <3>2 DEF Representable
  <2>6. CASE kind = "updates"
    <3>1. /\ v \in Seq(Frame \X Frame) /\ Len(v) <= MaxUpdates
          /\ \A i \in DOMAIN v : Len(v[i][1]) <= MaxString /\ Len(v[i][2]) <= MaxBytes
      BY <1>5, <2>6 DEF FieldValue, FitsIn
    <3>2. Len(v) < Wrap
      BY <2>1, <3>1, PartReaders
    <3>3. ASSUME NEW i \in DOMAIN v PROVE Len(v[i][1]) < Wrap /\ Len(v[i][2]) < Wrap
      <4>1. v[i] \in Frame \X Frame
        BY <3>1
      <4>2. v[i][1] \in Frame /\ v[i][2] \in Frame
        BY <4>1
      <4> QED BY <2>1, <2>2, <3>1, <4>2, PartReaders
    <3> QED BY <2>6, <3>2, <3>3 DEF Representable
  <2>7. CASE kind = "number"
    BY <2>7 DEF Representable
  <2> QED BY <2>3, <2>4, <2>5, <2>6, <2>7 DEF Kinds
<1>6. ASSUME NEW i \in DOMAIN vals PROVE Representable(kinds[i], vals[i])
  <2>1. kinds[i] \in Kinds /\ vals[i] \in FieldValue(kinds[i])
    BY <1>4
  <2>2. FitsIn(kinds[i], vals[i])
    BY <1>2, <1>3 DEF Fits
  <2> QED BY <1>5, <2>1, <2>2
<1> QED BY <1>2, <1>3, <1>6 DEF AllRepresentable

\* A message as far as it is made.
Making(m) ==
  /\ m \in [type : Type, fields : Seq(AnyValue)]
  /\ Len(m.fields) <= Len(Fields[m.type])
  /\ \A i \in 1 .. Len(m.fields) : m.fields[i] \in FieldValue(Fields[m.type][i])

\* A message is complete when it goes out.  What is on the way of it is the message with
\* something behind it, or a part of it, if its lengths are below Wrap.
OnTheWay(m, s) == (\E u \in Frame : s = Encode(m) \o u) \/ Cut(s, Encode(m))

WireInv ==
  /\ Making(message)
  /\ frame # <<>> => Complete
  /\ frame # <<>> /\ AllRepresentable(message) => frame \in Frame /\ OnTheWay(message, frame)

\* The lists an application may give are sequences.
LEMMA ListsIn ==
  ASSUME NEW S, NEW T, S \subseteq T
  PROVE  Lists(S) \subseteq Seq(T)
<1> SUFFICES ASSUME NEW n \in 0 .. Longest, NEW f \in [1 .. n -> S] PROVE f \in Seq(T)
  BY DEF Lists
<1>1. n \in Nat
  BY WireConstantsOK
<1>2. f \in [1 .. n -> T]
  OBVIOUS
<1> QED BY <1>1, <1>2

\* And so are the overlong ones.
LEMMA OverlongIn ==
  ASSUME NEW T, NEW e \in T
  PROVE  Overlong(e) \in Seq(T)
<1>1. Wrap \in Nat
  BY WireConstantsOK
<1>2. Overlong(e) \in [1 .. Wrap -> T]
  BY DEF Overlong
<1> QED BY <1>1, <1>2

\* The values an application may give are values of fields.
LEMMA ValuesAre ==
  ASSUME NEW kind \in Kinds, NEW v \in Values[kind]
  PROVE  v \in FieldValue(kind) /\ v \in AnyValue
<1>1. Bytes \subseteq Frame
  <2>1. {1} \subseteq Nat
    OBVIOUS
  <2> QED BY <2>1, ListsIn DEF Bytes, Frame
<1>2. Overlong(1) \in Frame /\ <<>> \in Frame
  <2>1. Overlong(1) \in Seq(Nat)
    BY OverlongIn
  <2> QED BY <2>1, EmptySeq DEF Frame
<1>3. Strings \subseteq Frame
  BY <1>1, <1>2 DEF Strings
<1>4. StringLists \subseteq Seq(Frame)
  <2>1. Lists(Bytes) \subseteq Seq(Frame)
    BY <1>1, ListsIn
  <2>2. Overlong(<<>>) \in Seq(Frame)
    BY <1>2, OverlongIn
  <2>3. PICK w \in Frame : w = Overlong(1)
    BY <1>2
  <2>4. <<w>> \in Seq(Frame)
    OBVIOUS
  <2> QED BY <2>1, <2>2, <2>3, <2>4 DEF StringLists
<1>5. UpdateLists \subseteq Seq(Frame \X Frame)
  <2>1. Bytes \X Bytes \subseteq Frame \X Frame
    BY <1>1
  <2>2. Lists(Bytes \X Bytes) \subseteq Seq(Frame \X Frame)
    BY <2>1, ListsIn
  <2>3. PICK none \in Frame, w \in Frame : none = <<>> /\ w = Overlong(1)
    BY <1>2
  <2>4. <<none, none>> \in Frame \X Frame /\ <<none, w>> \in Frame \X Frame
    OBVIOUS
  <2>5. Overlong(<<none, none>>) \in Seq(Frame \X Frame)
    BY <2>4, OverlongIn
  <2>6. << <<none, w>> >> \in Seq(Frame \X Frame)
    BY <2>4
  <2> QED BY <2>2, <2>3, <2>5, <2>6 DEF UpdateLists
<1>6. v \in FieldValue(kind)
  <2>1. CASE kind \in {"string", "bytes"}
    BY <1>3, <2>1 DEF Values, FieldValue
  <2>2. CASE kind \in {"strings", "changes"}
    BY <1>4, <2>2 DEF Values, FieldValue
  <2>3. CASE kind = "updates"
    BY <1>5, <2>3 DEF Values, FieldValue
  <2>4. CASE kind = "number"
    BY <2>4 DEF Values, FieldValue
  <2> QED BY <2>1, <2>2, <2>3, <2>4 DEF Kinds
<1>7. v \in AnyValue
  BY <1>6, FieldHandled DEF FieldGood
<1> QED BY <1>6, <1>7

\* A message that is complete is whole.
LEMMA WholeIs ==
  ASSUME Making(message), Complete
  PROVE  WholeMessage(message)
<1>1. PICK n \in Nat : n = Len(Fields[message.type])
  <2>1. message.type \in Type
    BY DEF Making
  <2> QED BY <2>1, KindsAre
<1>2. Len(message.fields) = n
  BY <1>1 DEF Complete
<1>3. message.fields \in Seq(AnyValue) /\ \A i \in 1 .. n : message.fields[i] \in FieldValue(Fields[message.type][i])
  BY <1>2 DEF Making
<1> QED BY <1>1, <1>2, <1>3 DEF Making, WholeMessage, ValuesOf

\* The invariant holds at first.
LEMMA WireStarts == WireInit => WireInv
<1> SUFFICES ASSUME WireInit PROVE WireInv
  OBVIOUS
<1>1. NoMessage \in [type : Type, fields : Seq(AnyValue)]
  BY FieldsAre, EmptySeq DEF NoMessage
<1>2. NoMessage.fields = <<>> /\ NoMessage.type = "Ping"
  BY DEF NoMessage
<1>3. Len(NoMessage.fields) = 0
  BY <1>2
<1>4. Len(Fields[NoMessage.type]) \in Nat
  <2>1. NoMessage.type \in Type
    BY <1>1
  <2> QED BY <2>1, KindsAre
<1>5. Making(NoMessage)
  BY <1>1, <1>3, <1>4 DEF Making
<1> QED BY <1>5 DEF WireInit, WireInv

\* Making a message keeps it.
LEMMA ComposeStep ==
  ASSUME WireInv, Compose, frame = <<>>, UNCHANGED frame
  PROVE  WireInv'
<1>1. Making(message')
  <2>1. CASE message = NoMessage /\ \E t \in Type : message' = [type |-> t, fields |-> <<>>]
    <3>1. PICK t \in Type : message' = [type |-> t, fields |-> <<>>]
      BY <2>1
    <3>2. message' \in [type : Type, fields : Seq(AnyValue)] /\ message'.type = t /\ message'.fields = <<>>
      BY <3>1, EmptySeq
    <3>3. Len(message'.fields) = 0 /\ Len(Fields[t]) \in Nat
      <4>1. Len(<<>>) = 0
        OBVIOUS
      <4> QED BY <3>2, <4>1, KindsAre
    <3> QED BY <3>2, <3>3 DEF Making
  <2>2. CASE /\ Len(message.fields) < Len(Fields[message.type])
             /\ \E fields \in NextFields(message.type, message.fields) :
                  message' = [message EXCEPT !.fields = fields]
    <3>1. PICK t \in Type, soFar \in Seq(AnyValue) : t = message.type /\ soFar = message.fields
      BY DEF WireInv, Making
    <3>2. PICK kinds \in Seq(Kinds) : kinds = Fields[t]
      BY KindsAre
    <3>3. PICK k \in Nat : k = Len(soFar)
      OBVIOUS
    <3>4. PICK n \in Nat : n = Len(kinds)
      OBVIOUS
    <3>5. k < n /\ \A i \in 1 .. k : soFar[i] \in FieldValue(kinds[i])
      BY <2>2, <3>1, <3>2, <3>3, <3>4 DEF WireInv, Making
    <3>6. PICK v \in Values[kinds[k + 1]] : message' = [message EXCEPT !.fields = Append(soFar, v)]
      BY <2>2, <3>1, <3>2, <3>3 DEF NextFields
    <3>7. kinds[k + 1] \in Kinds
      BY <3>4, <3>5
    <3>8. v \in FieldValue(kinds[k + 1]) /\ v \in AnyValue
      BY <3>7, ValuesAre
    <3>9. PICK fields : fields = Append(soFar, v)
      OBVIOUS
    <3>10. /\ fields \in Seq(AnyValue) /\ Len(fields) = k + 1 /\ fields[k + 1] = v
           /\ \A i \in 1 .. k : fields[i] = soFar[i]
      BY <3>3, <3>8, <3>9
    <3>11. \A i \in 1 .. k + 1 : i \in 1 .. k \/ i = k + 1
      OBVIOUS
    <3>12. \A i \in 1 .. k + 1 : fields[i] \in FieldValue(kinds[i])
      BY <3>5, <3>8, <3>10, <3>11
    <3>13. message' \in [type : Type, fields : Seq(AnyValue)] /\ message'.type = t /\ message'.fields = fields
      <4>1. message \in [type : Type, fields : Seq(AnyValue)]
        BY DEF WireInv, Making
      <4> QED BY <3>1, <3>6, <3>9, <3>10, <4>1
    <3>14. k + 1 <= n
      BY <3>5
    <3> QED BY <3>2, <3>4, <3>10, <3>12, <3>13, <3>14 DEF Making
  <2> QED BY <2>1, <2>2 DEF Compose
<1> QED BY <1>1 DEF WireInv

\* Sending keeps it.
LEMMA SendStep ==
  ASSUME WireInv, Send
  PROVE  WireInv'
<1>1. WholeMessage(message) /\ frame' = Encode(message) /\ message' = message
  BY WholeIs DEF WireInv, Send
<1>2. Making(message') /\ Complete'
  BY <1>1 DEF WireInv, Send, Complete
<1>3. ASSUME AllRepresentable(message) PROVE frame' \in Frame /\ OnTheWay(message', frame')
  <2>1. PICK e \in Frame, none \in Frame : e = Encode(message) /\ none = <<>>
    BY <1>1, <1>3, EncodedPlain, EmptySeq DEF Frame
  <2>2. frame' = e \o none
    BY <1>1, <2>1, JoinsNone
  <2> QED BY <1>1, <2>1, <2>2 DEF OnTheWay
<1> QED BY <1>1, <1>2, <1>3 DEF WireInv

\* The front of a frame is the frame cut short.
LEMMA FrontIs ==
  ASSUME NEW s \in Frame, s # <<>>
  PROVE  Front(s) \in Frame /\ \E u \in Frame : u # <<>> /\ s = Front(s) \o u
<1>1. PICK m \in Nat : m = Len(s)
  BY IsEmpty
<1>2. m # 0
  BY <1>1, IsEmpty
<1>3. PICK k \in Nat : m = k + 1
  <2>1. m - 1 \in Nat /\ m = (m - 1) + 1
    BY <1>2
  <2> QED BY <2>1
<1>4. k + 1 - 1 = k /\ k <= m
  BY <1>3
<1>5. PICK f : f = SubSeq(s, 1, k)
  OBVIOUS
<1>6. Front(s) = f
  <2>1. Front(s) = SubSeq(s, 1, m - 1) /\ m - 1 = k
    BY <1>1, <1>3 DEF Front
  <2> QED BY <1>5, <2>1
<1>7. f \in Frame /\ Len(f) = k /\ \A i \in 1 .. k : f[i] = s[i]
  <2>1. \A i \in 1 .. k : i \in 1 .. m
    BY <1>3
  <2>2. \A i \in 1 .. k : s[i] \in Nat
    BY <1>1, <2>1 DEF Frame
  <2>3. 1 \in Int /\ k \in Int /\ k - 1 + 1 = k /\ (IF 1 <= k THEN k - 1 + 1 ELSE 0) = k
    OBVIOUS
  <2>4. /\ f \in Seq(Nat) /\ Len(f) = (IF 1 <= k THEN k - 1 + 1 ELSE 0)
        /\ \A i \in 1 .. k - 1 + 1 : f[i] = s[1 + i - 1]
    BY <1>5, <2>2, <2>3, SubSeqProperties
  <2>5. \A i \in 1 .. k : f[i] = s[1 + i - 1]
    BY <2>3, <2>4
  <2>6. \A i \in 1 .. k : 1 + i - 1 = i
    OBVIOUS
  <2> QED BY <2>3, <2>4, <2>5, <2>6 DEF Frame
<1>8. s = f \o Beyond(s, k) /\ Beyond(s, k) \in Frame /\ Len(Beyond(s, k)) = m - k
  <2>1. k \in 0 .. m
    BY <1>3
  <2>2. Len(f) <= Len(s) /\ \A i \in 1 .. Len(f) : s[i] = f[i]
    BY <1>1, <1>4, <1>7
  <2> QED BY <1>1, <1>7, <2>1, <2>2, StartsWith, BeyondIs
<1>9. m - k = 1
  BY <1>3
<1>10. Beyond(s, k) # <<>>
  BY <1>8, <1>9, IsEmpty
<1> QED BY <1>6, <1>7, <1>8, <1>10

\* A loss at the end keeps it.
LEMMA CutShortStep ==
  ASSUME WireInv, CutShort, AllRepresentable(message)
  PROVE  frame' \in Frame /\ OnTheWay(message', frame')
<1>1. /\ frame # <<>> /\ Len(frame) <= Len(Encode(message))
      /\ frame' = Front(frame) /\ message' = message
  BY DEF CutShort
<1>2. frame \in Frame /\ Complete /\ OnTheWay(message, frame) /\ Making(message)
  BY <1>1 DEF WireInv
<1>3. PICK e \in Frame : e = Encode(message)
  BY <1>2, WholeIs, EncodedPlain
<1>4. PICK f \in Frame, u \in Frame : f = Front(frame) /\ u # <<>> /\ frame = f \o u
  BY <1>1, <1>2, FrontIs
<1>5. Cut(f, e)
  <2>1. CASE \E v \in Frame : frame = e \o v
    <3>1. PICK v \in Frame : frame = e \o v
      BY <2>1
    <3>2. Len(frame) = Len(e) + Len(v) /\ Len(e) \in Nat /\ Len(v) \in Nat
      BY <3>1, Joins
    <3>3. Len(v) = 0
      BY <1>1, <1>3, <3>2
    <3>4. frame = e
      BY <3>1, <3>3, IsEmpty, JoinsNone
    <3> QED BY <1>4, <3>4 DEF Cut
  <2>2. CASE Cut(frame, e)
    <3>1. PICK v \in Frame : v # <<>> /\ e = frame \o v
      BY <2>2 DEF Cut
    <3>2. e = f \o (u \o v) /\ u \o v \in Frame
      <4>1. u \o v \in Frame
        BY Joins
      <4>2. (f \o u) \o v = f \o (u \o v)
        BY JoinsOver
      <4> QED BY <1>4, <3>1, <4>1, <4>2
    <3>3. u \o v # <<>>
      <4>1. Len(u \o v) = Len(u) + Len(v) /\ Len(u) \in Nat /\ Len(v) \in Nat
        BY Joins
      <4>2. Len(u) # 0
        BY <1>4, IsEmpty
      <4>3. Len(u \o v) # 0
        BY <4>1, <4>2
      <4> QED BY <3>2, <4>3, IsEmpty
    <3> QED BY <3>2, <3>3 DEF Cut
  <2> QED BY <1>2, <1>3, <2>1, <2>2 DEF OnTheWay
<1> QED BY <1>1, <1>3, <1>4, <1>5 DEF OnTheWay

\* What follows a message keeps it.
LEMMA ExtendStep ==
  ASSUME WireInv, Extend, AllRepresentable(message)
  PROVE  frame' \in Frame /\ OnTheWay(message', frame')
<1>1. /\ frame # <<>> /\ Len(frame) >= Len(Encode(message))
      /\ frame' = Append(frame, 1) /\ message' = message
  BY DEF Extend
<1>2. frame \in Frame /\ Complete /\ OnTheWay(message, frame) /\ Making(message)
  BY <1>1 DEF WireInv
<1>3. PICK e \in Frame : e = Encode(message)
  BY <1>2, WholeIs, EncodedPlain
<1>4. ~Cut(frame, e)
  <2> SUFFICES ASSUME Cut(frame, e) PROVE FALSE
    OBVIOUS
  <2>1. Len(frame) < Len(e) /\ Len(frame) \in Nat /\ Len(e) \in Nat
    BY <1>2, CutIs
  <2> QED BY <1>1, <1>3, <2>1
<1>5. PICK u \in Frame : frame = e \o u
  BY <1>2, <1>3, <1>4 DEF OnTheWay
<1>6. PICK one \in Frame : one = <<1>>
  BY Leads
<1>7. frame' = frame \o one /\ frame' \in Frame
  BY <1>1, <1>2, <1>6, AppendIsJoin
<1>8. frame' = e \o (u \o one) /\ u \o one \in Frame
  <2>1. u \o one \in Frame
    BY Joins
  <2>2. (e \o u) \o one = e \o (u \o one)
    BY JoinsOver
  <2> QED BY <1>5, <1>7, <2>1, <2>2
<1> QED BY <1>1, <1>3, <1>7, <1>8 DEF OnTheWay

\* It holds always.
LEMMA WireAlways == WireSpec => []WireInv
<1>1. WireInit => WireInv
  BY WireStarts
<1>2. WireInv /\ [WireNext]_wireVars => WireInv'
  <2> SUFFICES ASSUME WireInv, [WireNext]_wireVars PROVE WireInv'
    OBVIOUS
  <2>1. CASE frame = <<>> /\ Compose /\ UNCHANGED frame
    BY <2>1, ComposeStep
  <2>2. CASE Send
    BY <2>2, SendStep
  <2>3. CASE CutShort \/ Extend
    <3>1. message' = message /\ frame # <<>>
      BY <2>3 DEF CutShort, Extend
    <3>2. Making(message') /\ Complete'
      BY <3>1 DEF WireInv, Complete
    <3>3. AllRepresentable(message') => frame' \in Frame /\ OnTheWay(message', frame')
      BY <2>3, <3>1, CutShortStep, ExtendStep
    <3> QED BY <3>2, <3>3 DEF WireInv
  <2>4. CASE UNCHANGED wireVars
    BY <2>4 DEF wireVars, WireInv, Complete
  <2> QED BY <2>1, <2>2, <2>3, <2>4 DEF WireNext
<1> QED BY <1>1, <1>2, PTL DEF WireSpec

\* A message within the limits arrives as it was sent, whatever follows it; one beyond a
\* limit anywhere is refused as a whole, if all its lengths are below 2^32.
THEOREM MessagesArrive == WireSpec => []ArrivesAsSent
<1>1. WireInv => ArrivesAsSent
  <2> SUFFICES ASSUME WireInv, frame # <<>>, Len(frame) >= Len(Encode(message))
               PROVE  /\ Fits(message) => Decode(frame) = [ok |-> TRUE, value |-> message]
                      /\ ~Fits(message) /\ AllRepresentable(message) => ~Decode(frame).ok
    BY DEF ArrivesAsSent
  <2>1. WholeMessage(message)
    BY WholeIs DEF WireInv
  <2>2. Fits(message) => AllRepresentable(message)
    BY <2>1, FitsIsRepresentable
  <2>3. ASSUME AllRepresentable(message)
        PROVE  IF Fits(message) THEN Decode(frame) = [ok |-> TRUE, value |-> message]
               ELSE ~Decode(frame).ok
    <3>1. PICK e \in Frame : e = Encode(message) /\ e = PlainEncode(message)
      BY <2>1, <2>3, EncodedPlain
    <3>2. frame \in Frame /\ ((\E u \in Frame : frame = e \o u) \/ Cut(frame, e))
      BY <2>3, <3>1 DEF WireInv, OnTheWay
    <3>3. ~Cut(frame, e)
      <4> SUFFICES ASSUME Cut(frame, e) PROVE FALSE
        OBVIOUS
      <4>1. Len(frame) < Len(e) /\ Len(frame) \in Nat /\ Len(e) \in Nat
        BY <3>2, CutIs
      <4> QED BY <3>1, <4>1
    <3>4. PICK u \in Frame : frame = PlainEncode(message) \o u
      BY <3>1, <3>2, <3>3
    <3> QED BY <2>1, <3>4, WholeDecoded
  <2> QED BY <2>2, <2>3
<1> QED BY <1>1, WireAlways, PTL

\* A message cut short is refused wherever it is cut, but for a Connect that loses exactly
\* its heads, if all its lengths are below 2^32.
THEOREM CutMessagesAreRefused == WireSpec => []CutIsRefused
<1>1. WireInv => CutIsRefused
  <2> SUFFICES ASSUME WireInv, frame # <<>>, Len(frame) < Len(Encode(message)), Decode(frame).ok,
                      AllRepresentable(message)
               PROVE  /\ message.type = "Connect"
                      /\ Decode(frame).value.fields = [message.fields EXCEPT ![3] = <<>>]
    BY DEF CutIsRefused
  <2>1. WholeMessage(message)
    BY WholeIs DEF WireInv
  <2>2. PICK e \in Frame : e = Encode(message) /\ e = PlainEncode(message)
    BY <2>1, EncodedPlain
  <2>3. frame \in Frame /\ ((\E u \in Frame : frame = e \o u) \/ Cut(frame, e))
    BY <2>2 DEF WireInv, OnTheWay
  <2>4. ASSUME NEW u \in Frame, frame = e \o u PROVE FALSE
    <3>1. Len(frame) = Len(e) + Len(u) /\ Len(e) \in Nat /\ Len(u) \in Nat
      BY <2>4, Joins
    <3> QED BY <2>2, <3>1
  <2>5. Cut(frame, PlainEncode(message))
    BY <2>2, <2>3, <2>4
  <2> QED BY <2>1, <2>3, <2>5, CutDecoded
<1> QED BY <1>1, WireAlways, PTL
=============================================================================
