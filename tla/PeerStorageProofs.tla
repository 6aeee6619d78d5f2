------------------------- MODULE PeerStorageProofs -------------------------
(***************************************************************************)
(* What the peer manager was given to keep is stored, or flagged, or being *)
(* saved: proved for every set of changes and any number of failed writes. *)
(***************************************************************************)
EXTENDS PeerStorage, TLAPS

\* The types are right at the start.
LEMMA InitType == Init => TypeOK
<1>. SUFFICES ASSUME Init PROVE TypeOK
  OBVIOUS
<1>1. pc \in [Task -> {"waiting", "applied", "checking", "ticked", "uncalled",
                      "saving", "writing", "saved", "returned", "stopped"}]
  BY DEF Init, Task
<1>2. fails \in 0..MaxFails
  BY MaxFailsOK DEF Init
<1>. QED
  BY <1>1, <1>2 DEF Init, TypeOK

\* The steps of persist() keep the types.
LEMMA PersistType ==
  ASSUME TypeOK, NEW t \in Task, Persist(t)
  PROVE  TypeOK'
<1> USE DEF TypeOK, Task, At, Go, Resume
<1>1. CASE Snapshot(t)
  BY <1>1 DEF Snapshot
<1>2. CASE WriteImage(t)
  BY <1>2 DEF WriteImage
<1>3. CASE WriteFails(t)
  <2>1. fails' \in 0..MaxFails
    BY <1>3, MaxFailsOK DEF WriteFails
  <2>2. dirty' \in BOOLEAN
    BY <1>3 DEF WriteFails, RaisesFlag
  <2>3. dropped' \subseteq Change /\ snap' \in [Task -> SUBSET Change]
    BY <1>3 DEF WriteFails
  <2>. QED
    BY <1>3, <2>1, <2>2, <2>3 DEF WriteFails
<1>. QED
  BY <1>1, <1>2, <1>3 DEF Persist

\* No step breaks the types.
LEMMA StepType ==
  ASSUME TypeOK, Next
  PROVE  TypeOK'
<1> USE DEF TypeOK, Task, At, Go
<1>1. ASSUME NEW S \in SUBSET Change, Receive(S)
      PROVE  TypeOK'
  BY <1>1 DEF Receive, ReceivePush, ReceiveSync
<1>2. CASE FlagPush \/ CheckShutDown
  BY <1>2 DEF FlagPush, CheckShutDown
<1>3. CASE Tick \/ Swap
  BY <1>3 DEF Tick, Swap
<1>4. CASE Shutdown \/ SetShutDown
  BY <1>4 DEF Shutdown, SetShutDown
<1>5. CASE \E t \in Task : Persist(t)
  BY <1>5, PersistType
<1>. QED
  BY <1>1, <1>2, <1>3, <1>4, <1>5 DEF Next, Loop, Timer, Stop

\* The types are right in every behaviour of the model.
THEOREM TypeCorrect == Spec => []TypeOK
<1>1. TypeOK /\ [Next]_vars => TypeOK'
  <2>1. ASSUME TypeOK, UNCHANGED vars PROVE TypeOK'
    BY <2>1 DEF TypeOK, vars
  <2>. QED
    BY <2>1, StepType
<1>. QED
  BY InitType, <1>1, PTL DEF Spec

-----------------------------------------------------------------------------
\* A change that is dealt with: stored, given up, or still to be saved.
Dealt(x) == x \in store \/ x \in dropped \/ ToBeSaved(x)

\* No step loses sight of a change that was dealt with.
LEMMA StaysDealt ==
  ASSUME TypeOK, Next, NEW x \in Change, Dealt(x), x \in db
  PROVE  Dealt(x)'
<1> USE DEF TypeOK, Task, At, Go, Dealt, ToBeSaved
<1>1. ASSUME NEW S \in SUBSET Change, Receive(S)
      PROVE  Dealt(x)'
  BY <1>1 DEF Receive, ReceivePush, ReceiveSync
<1>2. CASE FlagPush
  BY <1>2 DEF FlagPush
<1>3. CASE CheckShutDown
  BY <1>3 DEF CheckShutDown
<1>4. CASE Tick
  BY <1>4 DEF Tick
<1>5. CASE Swap
  \* If the flag was up, the timer now has a save to do.
  BY <1>5 DEF Swap
<1>6. CASE Shutdown
  BY <1>6 DEF Shutdown
<1>7. CASE SetShutDown
  BY <1>7 DEF SetShutDown
<1>8. ASSUME NEW t \in Task, Persist(t)
      PROVE  Dealt(x)'
  <2>1. CASE Snapshot(t)
    \* The snapshot is of the whole document, so x is in it.
    BY <2>1 DEF Snapshot
  <2>2. CASE WriteImage(t)
    \* What the new image lacks and the old one had is dropped.
    BY <2>2 DEF WriteImage, Resume
  <2>3. CASE WriteFails(t)
    \* The flag is up again, or what only this save had is dropped.
    BY <2>3 DEF WriteFails, RaisesFlag, Resume
  <2>. QED
    BY <1>8, <2>1, <2>2, <2>3 DEF Persist
<1>. QED
  BY <1>1, <1>2, <1>3, <1>4, <1>5, <1>6, <1>7, <1>8 DEF Next, Loop, Timer, Stop

\* A change that a step brings into the document is to be saved.
LEMMA NewIsDealt ==
  ASSUME TypeOK, Next, NEW x \in Change, x \notin db, x \in db'
  PROVE  Dealt(x)'
<1>1. PICK S \in SUBSET Change : Receive(S)
  BY DEF Next, Loop, FlagPush, CheckShutDown, Timer, Tick, Swap, Shutdown, Stop,
         SetShutDown, Persist, Snapshot, WriteImage, WriteFails
<1>2. CASE ReceivePush(S)
  BY <1>2 DEF ReceivePush, Dealt, ToBeSaved, TypeOK, Task, At, Go
<1>3. CASE ReceiveSync(S)
  BY <1>3 DEF ReceiveSync, Dealt, ToBeSaved, TypeOK, Task, At, Go
<1>. QED
  BY <1>1, <1>2, <1>3 DEF Receive

\* Every received change is stored, or somebody still has to save it, or it was dropped
\* in one of the two ways the property names: apply, flag, swap, snapshot and write are
\* in an order that leaves no other way to lose one.
THEOREM NothingIsForgotten == Spec => []NothingForgotten
<1>1. Init => NothingForgotten
  BY DEF Init, NothingForgotten
<1>2. TypeOK /\ NothingForgotten /\ [Next]_vars => NothingForgotten'
  <2>1. ASSUME TypeOK, TypeOK', NothingForgotten, Next, NEW x \in db'
        PROVE  Dealt(x)'
    <3>1. x \in Change
      BY <2>1 DEF TypeOK
    <3>2. CASE x \in db
      BY <2>1, <3>1, <3>2, StaysDealt DEF NothingForgotten, Dealt
    <3>3. CASE x \notin db
      BY <2>1, <3>1, <3>3, NewIsDealt
    <3>. QED
      BY <3>2, <3>3
  <2>2. ASSUME NothingForgotten, UNCHANGED vars PROVE NothingForgotten'
    BY <2>2 DEF NothingForgotten, ToBeSaved, At, vars
  <2>. QED
    BY <2>1, <2>2, StepType DEF NothingForgotten, Dealt
<1>. QED
  BY TypeCorrect, <1>1, <1>2, PTL DEF Spec
=============================================================================
