---------------------------- MODULE PeerStorage ----------------------------
(***************************************************************************)
(* How the peer manager (peer_manager.rs) saves the changes it receives.   *)
(* Three tasks share the document, the flag persist_needed and the stored  *)
(* image: the transport loop, which applies Push (saved later) and Sync    *)
(* (saved at once), the timer that saves when the flag is up, and a call   *)
(* of shutdown.  persist() takes its snapshot of the document first and    *)
(* writes it on a thread of its own; all hold the read lock at most, so    *)
(* several saves may be under way.  A change is an opaque value.           *)
(***************************************************************************)
EXTENDS Naturals

CONSTANTS
  Change,    \* Automerge changes
  MaxFails   \* bound: how many writes to storage fail

ASSUME MaxFailsOK == MaxFails \in Nat

VARIABLES
  db,        \* the changes in the document
  store,     \* the changes in the stored image
  dirty,     \* persist_needed
  shut,      \* shut_down
  pc,        \* where each task is
  arg,       \* the changes of the Push the transport loop handles
  snap,      \* the bytes each task's persist() took from the document
  last,      \* did the timer see shut_down at its tick?
  dropped,   \* history: changes that a save put back or failed to write, unflagged
  fails      \* history: the writes that failed

vars == <<db, store, dirty, shut, pc, arg, snap, last, dropped, fails>>

Task == {"loop", "timer", "shutdown"}

At(t, place) == pc[t] = place
Go(t, place) == pc' = [pc EXCEPT ![t] = place]

Init ==
  /\ db = {} /\ store = {}
  /\ dirty = FALSE /\ shut = FALSE /\ last = FALSE
  /\ pc = [t \in Task |-> IF t = "shutdown" THEN "uncalled" ELSE "waiting"]
  /\ arg = {}
  /\ snap = [t \in Task |-> {}]
  /\ dropped = {} /\ fails = 0

-----------------------------------------------------------------------------
(* The transport loop. *)

ReceivePush(S) ==
  /\ At("loop", "waiting")
  /\ db' = db \cup S
  /\ arg' = S
  /\ Go("loop", "applied")
  /\ UNCHANGED <<store, dirty, shut, snap, last, dropped, fails>>

FlagPush ==
  /\ At("loop", "applied")
  /\ dirty' = TRUE
  /\ arg' = {}
  /\ Go("loop", "checking")
  /\ UNCHANGED <<db, store, shut, snap, last, dropped, fails>>

ReceiveSync(S) ==
  /\ At("loop", "waiting")
  /\ db' = db \cup S
  /\ Go("loop", "saving")
  /\ UNCHANGED <<store, dirty, shut, arg, snap, last, dropped, fails>>

\* The loop reads shut_down before it waits for the next event, so one more event
\* may be handled after the shutdown; the closed transport ends the wait.
CheckShutDown ==
  /\ At("loop", "checking") \/ (At("loop", "waiting") /\ shut)
  /\ Go("loop", IF shut THEN "stopped" ELSE "waiting")
  /\ UNCHANGED <<db, store, dirty, shut, arg, snap, last, dropped, fails>>

-----------------------------------------------------------------------------
(* The timer and shutdown. *)

Tick ==
  /\ At("timer", "waiting")
  /\ last' = shut
  /\ Go("timer", "ticked")
  /\ UNCHANGED <<db, store, dirty, shut, arg, snap, dropped, fails>>

\* persist_needed.swap(false): save if it was up.
Swap ==
  /\ At("timer", "ticked")
  /\ dirty' = FALSE
  /\ Go("timer", IF dirty THEN "saving" ELSE IF last THEN "stopped" ELSE "waiting")
  /\ UNCHANGED <<db, store, shut, arg, snap, last, dropped, fails>>

Shutdown ==
  /\ At("shutdown", "uncalled")
  /\ dirty' = FALSE
  /\ Go("shutdown", IF dirty THEN "saving" ELSE "saved")
  /\ UNCHANGED <<db, store, shut, arg, snap, last, dropped, fails>>

SetShutDown ==
  /\ At("shutdown", "saved")
  /\ shut' = TRUE
  /\ Go("shutdown", "returned")
  /\ UNCHANGED <<db, store, dirty, arg, snap, last, dropped, fails>>

-----------------------------------------------------------------------------
(* persist(), called by each task. *)

Resume(t) ==
  Go(t, CASE t = "loop" -> "checking"
          [] t = "timer" -> IF last THEN "stopped" ELSE "waiting"
          [] t = "shutdown" -> "saved")

Snapshot(t) ==
  /\ At(t, "saving")
  /\ snap' = [snap EXCEPT ![t] = db]
  /\ Go(t, "writing")
  /\ UNCHANGED <<db, store, dirty, shut, arg, last, dropped, fails>>

\* Mutant: the flag is lowered when the save is done, not only before it begins.
WriteThenLower(t) ==
  /\ At(t, "writing")
  /\ store' = snap[t]
  /\ dirty' = FALSE
  /\ dropped' = (dropped \cup store) \ snap[t]
  /\ snap' = [snap EXCEPT ![t] = {}]
  /\ Resume(t)
  /\ UNCHANGED <<db, shut, arg, last, fails>>

\* The image is replaced by the snapshot, even by one older than the image.
WriteImage(t) ==
  /\ At(t, "writing")
  /\ store' = snap[t]
  /\ dropped' = (dropped \cup store) \ snap[t]
  /\ snap' = [snap EXCEPT ![t] = {}]
  /\ Resume(t)
  /\ UNCHANGED <<db, dirty, shut, arg, last, fails>>

\* Mutant: the failed save of the timer is only logged.
OnlyLogged(t) == FALSE

\* After a failed save the timer raises the flag again, unless it was its last save.
RaisesFlag(t) == t = "timer" /\ ~last

WriteFails(t) ==
  /\ At(t, "writing")
  /\ fails < MaxFails
  /\ fails' = fails + 1
  /\ dirty' = (dirty \/ RaisesFlag(t))
  /\ dropped' = IF t = "timer" /\ ~last THEN dropped
                ELSE dropped \cup (snap[t] \ store)
  /\ snap' = [snap EXCEPT ![t] = {}]
  /\ Resume(t)
  /\ UNCHANGED <<db, store, shut, arg, last>>

Persist(t) == Snapshot(t) \/ WriteImage(t) \/ WriteFails(t)

-----------------------------------------------------------------------------
(* The specification. *)

Receive(S) == ReceivePush(S) \/ ReceiveSync(S)
Loop == FlagPush \/ CheckShutDown \/ Persist("loop")
Timer == Tick \/ Swap \/ Persist("timer")
Stop == SetShutDown \/ Persist("shutdown")

Next ==
  \/ \E S \in SUBSET Change \ {{}} : Receive(S)
  \/ Shutdown
  \/ Loop \/ Timer \/ Stop

Spec == Init /\ [][Next]_vars

\* tokio runs every ready task, and a write to storage ends one way or the other.
\* Nothing makes anyone call shutdown, but a call runs to its end.
FairSpec == Spec /\ WF_vars(Loop) /\ WF_vars(Timer) /\ WF_vars(Stop)

-----------------------------------------------------------------------------
(* Properties. *)

\* Every variable has its type.
TypeOK ==
  /\ db \subseteq Change /\ store \subseteq Change
  /\ arg \subseteq Change /\ dropped \subseteq Change
  /\ dirty \in BOOLEAN /\ shut \in BOOLEAN /\ last \in BOOLEAN
  /\ pc \in [Task -> {"waiting", "applied", "checking", "ticked", "uncalled",
                      "saving", "writing", "saved", "returned", "stopped"}]
  /\ snap \in [Task -> SUBSET Change]
  /\ fails \in 0..MaxFails

\* Someone still has to save x: the flag is up or about to go up, or a save will
\* take its snapshot or is writing one with x in it.
ToBeSaved(x) ==
  \/ dirty
  \/ At("loop", "applied") /\ x \in arg
  \/ \E t \in Task : At(t, "saving") \/ (At(t, "writing") /\ x \in snap[t])

\* A change in the document is in the stored image or somebody still has to save it,
\* unless a save that took its snapshot earlier overwrote it, or the write of a Sync
\* or of the shutdown failed (dropped).  This is what the order of apply, flag, swap
\* and snapshot in transport_loop and persist_timer is for.
NothingForgotten == \A x \in db : x \in store \/ x \in dropped \/ ToBeSaved(x)

\* Until a shutdown, a received change gets into the stored image, whatever writes
\* fail in between (unless it is dropped): the timer flushes and retries.
SavedInTime == \A x \in Change :
  x \in db ~> (x \in store \/ x \in dropped \/ shut)

\* The comment on persist_needed: it tells that changes have been applied but not
\* yet persisted.  So when no task is at work and it is down, everything is stored.
FlagTellsUnsaved ==
  (~dirty /\ \A t \in Task : pc[t] \in {"waiting", "uncalled"}) => db \subseteq store
=============================================================================
