------------------------- MODULE ServerLinksProofs -------------------------
(***************************************************************************)
(* Types, what a crash of a linked server may lose, and what servers and   *)
(* browsers may lack of each other at rest, for every set of servers and   *)
(* links, every topology and every bound.                                  *)
(***************************************************************************)
EXTENDS ServerLinks, DataLemmas, FiniteSetTheorems, TLAPS

Id == Server \X (0..MaxFaults)
Job == [step : {"idle", "extracted", "applied"}, changes : SUBSET Change, loud : BOOLEAN]
UpMsg == [type : {"connect", "push"}, changes : SUBSET Change, peer : BOOLEAN]
           \cup [type : {"relay"}, changes : Frame, peer : BOOLEAN]
DownMsg == [type : {"sync", "broadcast"}, changes : SUBSET Change, peer : BOOLEAN]
             \cup [type : {"batch"}, changes : Frame, peer : BOOLEAN]
NoteType == [via : Task, changes : SUBSET Change, peer : BOOLEAN, to : SUBSET Id]
OutFrame == [frame : Frame, peer : BOOLEAN]

(* The types of all variables that others are computed from. *)

DataTypes ==
  /\ ends \in Topologies
  /\ written \subseteq Change /\ deps \in [Change -> SUBSET Change]
  /\ db \in [Server -> SUBSET Change] /\ store \in [Server -> SUBSET Change]
  /\ client \in [Server -> SUBSET Change]
  /\ how \in [Server -> [Change -> {"none", "client", "serve", "dial", "sync"}]]

IdTypes ==
  /\ subs \in [Server -> SUBSET Id]
  /\ id \in [Server -> 0..MaxFaults] /\ as \in [Link -> Id]
  /\ faults \in 0..MaxFaults

NetTypes ==
  /\ sock \in [Link -> {"open", "gone"}]
  /\ dial \in [Link -> {"down", "greeting", "up"}]
  /\ serve \in [Link -> {"off", "greeted", "idle"}]
  /\ up \in [Link -> Seq(UpMsg)] /\ down \in [Link -> Seq(DownMsg)]

RingTypes ==
  /\ rxDial \in [Link -> Seq(NoteType)] /\ rxServe \in [Link -> Seq(NoteType)]
  /\ \A l \in Link : Len(rxDial[l]) <= Cap /\ Len(rxServe[l]) <= Cap
  /\ lagged \in [Link -> BOOLEAN] /\ stalled \in [Link -> BOOLEAN]

FrameTypes ==
  /\ exDial \in [Link -> Seq(OutFrame)] /\ exServe \in [Link -> Seq(Frame)]
  /\ sent \subseteq Frame /\ got \in [Server -> [Frame -> Nat]]

Held ==
  /\ \A l \in Link : dial[l] # "up" => rxDial[l] = <<>> /\ exDial[l] = <<>> /\ ~lagged[l]
  /\ \A l \in Link : serve[l] = "off" => rxServe[l] = <<>> /\ exServe[l] = <<>>

TypeInv == DataTypes /\ IdTypes /\ job \in [Task -> Job] /\ NetTypes /\ RingTypes /\ FrameTypes /\ Held

\* A link joins servers, and a task runs in one.
LEMMA Ends == ASSUME TypeInv, NEW l \in Link PROVE From(l) \in Server /\ To(l) \in Server
BY ConstantsOK DEF TypeInv, DataTypes, From, To

LEMMA HomeType == ASSUME TypeInv, NEW t \in Task PROVE Home(t) \in Server
BY Ends DEF Task, Home

\* A ring that is full loses its oldest element.
LEMMA EnqueueType ==
  ASSUME NEW q \in Seq(NoteType), NEW m \in NoteType, Len(q) <= Cap
  PROVE  Enqueue(q, m) \in Seq(NoteType) /\ Len(Enqueue(q, m)) <= Cap
<1>1. CASE Len(q) < Cap
  BY <1>1, ConstantsOK DEF Enqueue
<1>2. CASE Len(q) = Cap
  <2>1. q # <<>>
    BY <1>2, ConstantsOK
  <2>2. Tail(q) \in Seq(NoteType) /\ Len(Tail(q)) = Len(q) - 1
    BY <2>1
  <2> QED BY <1>2, <2>2, ConstantsOK DEF Enqueue
<1> QED BY <1>1, <1>2, ConstantsOK

(* What the steps are made of. *)

\* Jobs.
LEMMA JobTypes ==
  /\ Idle \in Job
  /\ \A S \in SUBSET Change, loud \in BOOLEAN : Push(S, loud) \in Job
BY DEF Idle, Push, Job

\* Where a step of a push leaves its job.
LEMMA JobKept ==
  ASSUME NEW j \in Job
  PROVE  /\ j.changes \in SUBSET Change /\ j.loud \in BOOLEAN
         /\ [j EXCEPT !.step = "applied"] \in Job
BY DEF Job

\* An update of one place.
LEMMA PutType ==
  ASSUME NEW D, NEW S, NEW f \in [D -> S], NEW d \in D, NEW v \in S
  PROVE  [f EXCEPT ![d] = v] \in [D -> S]
OBVIOUS

\* Taking the first of a queue.
LEMMA PopType ==
  ASSUME NEW S, NEW q \in [Link -> Seq(S)], NEW l \in Link, q[l] # <<>>
  PROVE  /\ Head(q[l]) \in S
         /\ Tail(q[l]) \in Seq(S) /\ Len(Tail(q[l])) < Len(q[l])
         /\ [q EXCEPT ![l] = Tail(@)] \in [Link -> Seq(S)]
<1>1. q[l] \in Seq(S)
  OBVIOUS
<1>2. Head(q[l]) \in S /\ Tail(q[l]) \in Seq(S) /\ Len(Tail(q[l])) < Len(q[l])
  BY <1>1
<1> QED BY <1>2

\* Putting one at its end.
LEMMA PushType ==
  ASSUME NEW S, NEW q \in [Link -> Seq(S)], NEW l \in Link, NEW m \in S
  PROVE  [q EXCEPT ![l] = Append(@, m)] \in [Link -> Seq(S)]
<1>1. Append(q[l], m) \in Seq(S)
  OBVIOUS
<1> QED BY <1>1

\* Emptying it.
LEMMA ClearType ==
  ASSUME NEW S, NEW q \in [Link -> Seq(S)], NEW l \in Link
  PROVE  [q EXCEPT ![l] = <<>>] \in [Link -> Seq(S)] /\ Len(<<>>) = 0
OBVIOUS

\* Emptying those of some links.
LEMMA ClearAllType ==
  ASSUME NEW S, NEW q \in [Link -> Seq(S)], NEW M
  PROVE  [l \in Link |-> IF l \in M THEN <<>> ELSE q[l]] \in [Link -> Seq(S)]
OBVIOUS

\* A frame to the dialling side, sent or lost.
LEMMA SendDownType ==
  ASSUME TypeInv, NEW l \in Link, NEW m \in DownMsg, SendDown(l, m)
  PROVE  down' \in [Link -> Seq(DownMsg)]
BY PushType DEF TypeInv, NetTypes, SendDown

\* An ephemeral frame, handed to the tasks of a server.
LEMMA RouteType ==
  ASSUME TypeInv, NEW s \in Server, NEW f \in Frame, NEW peer \in BOOLEAN, Route(s, f, peer)
  PROVE  /\ got' \in [Server -> [Frame -> Nat]]
         /\ exServe' \in [Link -> Seq(Frame)] /\ exDial' \in [Link -> Seq(OutFrame)]
<1>1. got' \in [Server -> [Frame -> Nat]]
  BY DEF TypeInv, FrameTypes, Route
<1>2. \A l \in Link : Append(exServe[l], f) \in Seq(Frame)
  BY DEF TypeInv, FrameTypes
<1>3. exServe' \in [Link -> Seq(Frame)]
  BY <1>2 DEF TypeInv, FrameTypes, Route
<1>4. [frame |-> f, peer |-> peer] \in OutFrame
  BY DEF OutFrame
<1>5. \A l \in Link : Append(exDial[l], [frame |-> f, peer |-> peer]) \in Seq(OutFrame)
  BY <1>4 DEF TypeInv, FrameTypes
<1>6. exDial' \in [Link -> Seq(OutFrame)]
  BY <1>5 DEF TypeInv, FrameTypes, Route
<1> QED BY <1>1, <1>3, <1>6

\* All servers start idle, empty and unconnected.
LEMMA TypeInvInit == Init => TypeInv
<1> SUFFICES ASSUME Init PROVE TypeInv
  OBVIOUS
<1>1. DataTypes
  BY DEF Init, None, DataTypes
<1>2. IdTypes
  BY <1>1, ConstantsOK DEF Init, None, IdTypes, Id, ClientId, From, DataTypes
<1>3. job \in [Task -> Job]
  BY DEF Init, None, Job, Idle
<1>4. NetTypes
  BY DEF Init, None, NetTypes
<1>5. RingTypes
  BY ConstantsOK DEF Init, None, RingTypes
<1>6. FrameTypes
  BY DEF Init, None, FrameTypes
<1>7. Held
  BY DEF Init, None, Held
<1> QED BY <1>1, <1>2, <1>3, <1>4, <1>5, <1>6, <1>7 DEF TypeInv

-----------------------------------------------------------------------------
(* One lemma per action: it keeps the types. *)

LEMMA ApplyTypes == ASSUME TypeInv, NEW t \in Task, Apply(t) PROVE TypeInv'
<1>1. DataTypes'
  <2>1. Home(t) \in Server /\ job[t].changes \in SUBSET Change
    BY HomeType, JobKept DEF TypeInv
  <2>2. db' = [db EXCEPT ![Home(t)] = @ \cup job[t].changes]
    BY DEF Apply, ApplyAndPersist
  <2>3. db' \in [Server -> SUBSET Change]
    BY <2>1, <2>2 DEF TypeInv, DataTypes
  <2>4. store' \in [Server -> SUBSET Change]
    BY <2>1, <2>3 DEF TypeInv, DataTypes, Apply, ApplyAndPersist
  <2>5. (IF t \in Server THEN "client" ELSE t[2]) \in {"client", "serve", "dial"}
    BY DEF Task
  <2>6. how' \in [Server -> [Change -> {"none", "client", "serve", "dial", "sync"}]]
    BY <2>1, <2>5 DEF TypeInv, DataTypes, Apply, Arrived
  <2>7. UNCHANGED <<ends, written, deps, client>>
    BY DEF Apply, changeVars
  <2> QED BY <2>3, <2>4, <2>6, <2>7 DEF TypeInv, DataTypes
<1>2. IdTypes'
  BY DEF TypeInv, IdTypes, idVars, Apply
<1>3. (job \in [Task -> Job])'
  BY JobTypes, JobKept, PutType DEF TypeInv, Apply
<1>4. NetTypes'
  BY DEF TypeInv, NetTypes, netVars, Apply
<1>5. RingTypes'
  BY DEF TypeInv, RingTypes, rxVars, Apply
<1>6. FrameTypes'
  BY DEF TypeInv, FrameTypes, frameVars, Apply
<1>7. Held'
  BY DEF TypeInv, Held, rxVars, frameVars, netVars, Apply
<1> QED BY <1>1, <1>2, <1>3, <1>4, <1>5, <1>6, <1>7 DEF TypeInv

LEMMA BroadcastTypes == ASSUME TypeInv, NEW t \in Task, Broadcast(t) PROVE TypeInv'
<1>1. DataTypes'
  <2>1. Home(t) \in Server /\ job[t].changes \in SUBSET Change
    BY HomeType, JobKept DEF TypeInv
  <2>2. client' \in [Server -> SUBSET Change]
    BY <2>1 DEF TypeInv, DataTypes, Broadcast, Note
  <2> QED BY <2>2 DEF TypeInv, DataTypes, Broadcast, changeVars
<1>2. IdTypes'
  BY Ends DEF TypeInv, IdTypes, idVars, Broadcast
<1>3. (job \in [Task -> Job])'
  BY DEF TypeInv, Idle, Job, Broadcast
<1>4. NetTypes'
  BY DEF TypeInv, NetTypes, netVars, Broadcast
<1>5. RingTypes'
  <2> DEFINE m == Note(t, job[t].changes, FromPeer(t), subs[Home(t)])
  <2>1. m \in NoteType
    BY HomeType, JobKept DEF TypeInv, IdTypes, Note, NoteType, FromPeer
  <2> HIDE DEF m
  <2>2. \A l \in Link :
          /\ Enqueue(rxDial[l], m) \in Seq(NoteType) /\ Len(Enqueue(rxDial[l], m)) <= Cap
          /\ Enqueue(rxServe[l], m) \in Seq(NoteType) /\ Len(Enqueue(rxServe[l], m)) <= Cap
    BY <2>1, EnqueueType DEF TypeInv, RingTypes
  <2>3. /\ rxDial' = [l \in Link |-> IF From(l) = Home(t) /\ Listening(l)
                                     THEN Enqueue(rxDial[l], m) ELSE rxDial[l]]
        /\ rxServe' = [l \in Link |-> IF To(l) = Home(t) /\ Receiving(l)
                                      THEN Enqueue(rxServe[l], m) ELSE rxServe[l]]
    BY DEF Broadcast, m
  <2>4. lagged' \in [Link -> BOOLEAN] /\ stalled' = stalled
    BY DEF TypeInv, RingTypes, Broadcast
  <2> QED BY <2>2, <2>3, <2>4 DEF TypeInv, RingTypes
<1>6. FrameTypes'
  BY DEF TypeInv, FrameTypes, frameVars, Broadcast
<1>7. Held'
  BY DEF TypeInv, Held, frameVars, netVars, Listening, Receiving, Broadcast
<1> QED BY <1>1, <1>2, <1>3, <1>4, <1>5, <1>6, <1>7 DEF TypeInv

LEMMA PushLocalTypes == ASSUME TypeInv, NEW s \in Server, PushLocal(s) PROVE TypeInv'
<1>1. DataTypes'
  BY DEF TypeInv, DataTypes, changeVars, docVars, ghostVars, PushLocal
<1>2. IdTypes'
  BY DEF TypeInv, IdTypes, idVars, ghostVars, PushLocal
<1>3. (job \in [Task -> Job])'
  <2>1. s \in Task /\ client[s] \ db[s] \in SUBSET Change
    BY DEF TypeInv, DataTypes, Task
  <2> QED BY <2>1, JobTypes, PutType DEF TypeInv, PushLocal
<1>4. NetTypes'
  BY DEF TypeInv, NetTypes, netVars, PushLocal
<1>5. RingTypes'
  BY DEF TypeInv, RingTypes, rxVars, PushLocal
<1>6. FrameTypes'
  BY DEF TypeInv, FrameTypes, frameVars, PushLocal
<1>7. Held'
  BY DEF TypeInv, Held, rxVars, frameVars, netVars, PushLocal
<1> QED BY <1>1, <1>2, <1>3, <1>4, <1>5, <1>6, <1>7 DEF TypeInv

LEMMA RefreshTypes == ASSUME TypeInv, NEW s \in Server, Refresh(s) PROVE TypeInv'
<1>1. DataTypes'
  BY DEF TypeInv, DataTypes, changeVars, ghostVars, Applied, Refresh
<1>2. IdTypes'
  BY DEF TypeInv, IdTypes, idVars, ghostVars, Refresh
<1>3. (job \in [Task -> Job])'
  BY DEF TypeInv, Refresh
<1>4. NetTypes'
  BY DEF TypeInv, NetTypes, netVars, Refresh
<1>5. RingTypes'
  BY DEF TypeInv, RingTypes, rxVars, Refresh
<1>6. FrameTypes'
  BY DEF TypeInv, FrameTypes, frameVars, Refresh
<1>7. Held'
  BY DEF TypeInv, Held, rxVars, frameVars, netVars, Refresh
<1> QED BY <1>1, <1>2, <1>3, <1>4, <1>5, <1>6, <1>7 DEF TypeInv

LEMMA RestartTypes == ASSUME TypeInv, NEW s \in Server, Restart(s) PROVE TypeInv'
<1>1. DataTypes'
  BY Ends DEF TypeInv, DataTypes, changeVars, Applied, Restart
<1>2. IdTypes'
  <2>1. faults' \in 0..MaxFaults
    BY ConstantsOK DEF TypeInv, IdTypes, Restart, MayFail
  <2>2. id' \in [Server -> 0..MaxFaults]
    BY <2>1 DEF TypeInv, IdTypes, Restart
  <2> QED BY <2>1, <2>2 DEF TypeInv, IdTypes, Restart
<1>3. (job \in [Task -> Job])'
  BY DEF TypeInv, Idle, Task, Job, Restart
<1>4. NetTypes'
  BY DEF TypeInv, NetTypes, Restart
<1>5. RingTypes'
  <2>1. /\ rxDial' \in [Link -> Seq(NoteType)] /\ rxServe' \in [Link -> Seq(NoteType)]
        /\ lagged' \in [Link -> BOOLEAN] /\ stalled' \in [Link -> BOOLEAN]
    BY ClearAllType DEF TypeInv, RingTypes, Restart
  <2>2. \A l \in Link : /\ rxDial'[l] \in {<<>>, rxDial[l]} /\ rxServe'[l] \in {<<>>, rxServe[l]}
    BY DEF TypeInv, RingTypes, Restart
  <2>3. Len(<<>>) <= Cap
    BY ConstantsOK
  <2> QED BY <2>1, <2>2, <2>3 DEF TypeInv, RingTypes
<1>6. FrameTypes'
  BY ClearAllType DEF TypeInv, FrameTypes, Restart
<1>7. Held'
  BY DEF TypeInv, Held, Restart
<1> QED BY <1>1, <1>2, <1>3, <1>4, <1>5, <1>6, <1>7 DEF TypeInv

LEMMA GreetTypes == ASSUME TypeInv, NEW l \in Link, Greet(l) PROVE TypeInv'
<1>1. DataTypes'
  BY Ends DEF TypeInv, DataTypes, changeVars, docVars, ghostVars, Greet
<1>2. IdTypes'
  BY Ends DEF TypeInv, IdTypes, idVars, ghostVars, Greet
<1>3. (job \in [Task -> Job])'
  BY DEF TypeInv, Greet
<1>4. NetTypes'
  BY DEF TypeInv, NetTypes, Greet
<1>5. RingTypes'
  BY DEF TypeInv, RingTypes, rxVars, Greet
<1>6. FrameTypes'
  BY DEF TypeInv, FrameTypes, frameVars, Greet
<1>7. Held'
  BY DEF TypeInv, Held, rxVars, frameVars, Greet
<1> QED BY <1>1, <1>2, <1>3, <1>4, <1>5, <1>6, <1>7 DEF TypeInv

LEMMA SendSyncTypes == ASSUME TypeInv, NEW l \in Link, SendSync(l) PROVE TypeInv'
<1>1. DataTypes'
  BY Ends DEF TypeInv, DataTypes, changeVars, docVars, ghostVars, Applied, Msg, SendSync
<1>2. IdTypes'
  BY Ends DEF TypeInv, IdTypes, idVars, ghostVars, SendSync
<1>3. (job \in [Task -> Job])'
  BY DEF TypeInv, SendSync
<1>4. NetTypes'
  <2>1. Msg("sync", Applied(db[To(l)]), FALSE) \in DownMsg
    BY Ends DEF TypeInv, DataTypes, Applied, Msg, DownMsg
  <2> QED BY <2>1, SendDownType DEF TypeInv, NetTypes, SendSync
<1>5. RingTypes'
  BY DEF TypeInv, RingTypes, rxVars, SendSync
<1>6. FrameTypes'
  BY DEF TypeInv, FrameTypes, frameVars, SendSync
<1>7. Held'
  BY DEF TypeInv, Held, rxVars, frameVars, SendSync
<1> QED BY <1>1, <1>2, <1>3, <1>4, <1>5, <1>6, <1>7 DEF TypeInv

LEMMA ServePushTypes == ASSUME TypeInv, NEW l \in Link, ServePush(l) PROVE TypeInv'
<1>1. DataTypes'
  BY Ends DEF TypeInv, DataTypes, changeVars, docVars, ghostVars, ServePush
<1>2. IdTypes'
  BY Ends DEF TypeInv, IdTypes, idVars, ghostVars, ServePush
<1>3. (job \in [Task -> Job])'
  <2>1. Head(up[l]) \in UpMsg /\ Head(up[l]).type = "push"
    BY PopType DEF TypeInv, NetTypes, ServePush
  <2>2. Head(up[l]).changes \in SUBSET Change
    BY <2>1 DEF UpMsg
  <2>3. <<l, "serve">> \in Task
    BY DEF Task
  <2> QED BY <2>2, <2>3, JobTypes, PutType DEF TypeInv, ServePush
<1>4. NetTypes'
  BY DEF TypeInv, NetTypes, ServePush
<1>5. RingTypes'
  BY DEF TypeInv, RingTypes, rxVars, ServePush
<1>6. FrameTypes'
  BY DEF TypeInv, FrameTypes, frameVars, ServePush
<1>7. Held'
  BY DEF TypeInv, Held, rxVars, frameVars, Serving, ServePush
<1> QED BY <1>1, <1>2, <1>3, <1>4, <1>5, <1>6, <1>7 DEF TypeInv

LEMMA DropRelayTypes == ASSUME TypeInv, NEW l \in Link, DropRelay(l) PROVE TypeInv'
<1>1. DataTypes'
  BY DEF TypeInv, DataTypes, changeVars, docVars, ghostVars, DropRelay
<1>2. IdTypes'
  BY DEF TypeInv, IdTypes, idVars, ghostVars, DropRelay
<1>3. (job \in [Task -> Job])'
  BY DEF TypeInv, DropRelay
<1>4. NetTypes'
  BY DEF TypeInv, NetTypes, DropRelay
<1>5. RingTypes'
  BY DEF TypeInv, RingTypes, rxVars, DropRelay
<1>6. FrameTypes'
  BY DEF TypeInv, FrameTypes, frameVars, DropRelay
<1>7. Held'
  BY DEF TypeInv, Held, rxVars, frameVars, Serving, DropRelay
<1> QED BY <1>1, <1>2, <1>3, <1>4, <1>5, <1>6, <1>7 DEF TypeInv

LEMMA ServeBroadcastTypes == ASSUME TypeInv, NEW l \in Link, ServeBroadcast(l) PROVE TypeInv'
<1>1. DataTypes'
  BY DEF TypeInv, DataTypes, changeVars, docVars, ghostVars, Msg, ServeBroadcast
<1>2. IdTypes'
  BY DEF TypeInv, IdTypes, idVars, ghostVars, ServeBroadcast
<1>3. (job \in [Task -> Job])'
  BY DEF TypeInv, ServeBroadcast
<1>4. NetTypes'
  <2>1. Head(rxServe[l]) \in NoteType
    BY PopType DEF TypeInv, RingTypes, ServeBroadcast
  <2>2. Msg("broadcast", Head(rxServe[l]).changes, Head(rxServe[l]).peer) \in DownMsg
    BY <2>1 DEF NoteType, Msg, DownMsg
  <2> QED BY <2>2, SendDownType DEF TypeInv, NetTypes, ServeBroadcast
<1>5. RingTypes'
  <2>1. /\ rxServe[l] # <<>> /\ rxServe' = [rxServe EXCEPT ![l] = Tail(@)]
        /\ UNCHANGED <<rxDial, lagged, stalled>>
    BY DEF ServeBroadcast
  <2>2. rxServe' \in [Link -> Seq(NoteType)] /\ Len(Tail(rxServe[l])) < Len(rxServe[l])
    BY <2>1, PopType DEF TypeInv, RingTypes
  <2>3. \A k \in Link : Len(rxServe'[k]) <= Len(rxServe[k])
    BY <2>1, <2>2 DEF TypeInv, RingTypes
  <2> QED BY <2>1, <2>2, <2>3, ConstantsOK DEF TypeInv, RingTypes
<1>6. FrameTypes'
  BY DEF TypeInv, FrameTypes, frameVars, ServeBroadcast
<1>7. Held'
  BY DEF TypeInv, Held, frameVars, Serving, ServeBroadcast
<1> QED BY <1>1, <1>2, <1>3, <1>4, <1>5, <1>6, <1>7 DEF TypeInv

LEMMA ServeFrameTypes == ASSUME TypeInv, NEW l \in Link, ServeFrame(l) PROVE TypeInv'
<1>1. DataTypes'
  BY DEF TypeInv, DataTypes, changeVars, docVars, ghostVars, Msg, ServeFrame
<1>2. IdTypes'
  BY DEF TypeInv, IdTypes, idVars, ghostVars, ServeFrame
<1>3. (job \in [Task -> Job])'
  BY DEF TypeInv, ServeFrame
<1>4. NetTypes'
  <2>1. Head(exServe[l]) \in Frame
    BY PopType DEF TypeInv, FrameTypes, ServeFrame
  <2>2. Msg("batch", Head(exServe[l]), FALSE) \in DownMsg
    BY <2>1 DEF Msg, DownMsg
  <2> QED BY <2>2, SendDownType DEF TypeInv, NetTypes, ServeFrame
<1>5. RingTypes'
  BY DEF TypeInv, RingTypes, rxVars, ServeFrame
<1>6. FrameTypes'
  BY PopType DEF TypeInv, FrameTypes, ServeFrame
<1>7. Held'
  BY DEF TypeInv, Held, rxVars, Serving, ServeFrame
<1> QED BY <1>1, <1>2, <1>3, <1>4, <1>5, <1>6, <1>7 DEF TypeInv

LEMMA StopServingTypes == ASSUME TypeInv, NEW l \in Link, StopServing(l) PROVE TypeInv'
<1>1. DataTypes'
  BY Ends DEF TypeInv, DataTypes, changeVars, docVars, ghostVars, StopServing
<1>2. IdTypes'
  BY Ends DEF TypeInv, IdTypes, idVars, ghostVars, StopServing
<1>3. (job \in [Task -> Job])'
  BY DEF TypeInv, StopServing
<1>4. NetTypes'
  BY DEF TypeInv, NetTypes, StopServing
<1>5. RingTypes'
  <2>1. rxServe' = [rxServe EXCEPT ![l] = <<>>] /\ rxServe' \in [Link -> Seq(NoteType)]
    BY ClearType DEF TypeInv, RingTypes, StopServing
  <2>2. \A k \in Link : rxServe'[k] \in {<<>>, rxServe[k]}
    BY <2>1 DEF TypeInv, RingTypes
  <2>3. Len(<<>>) <= Cap
    BY ConstantsOK
  <2> QED BY <2>1, <2>2, <2>3 DEF TypeInv, RingTypes, StopServing
<1>6. FrameTypes'
  BY ClearType DEF TypeInv, FrameTypes, StopServing
<1>7. Held'
  BY DEF TypeInv, NetTypes, RingTypes, FrameTypes, Held, StopServing
<1> QED BY <1>1, <1>2, <1>3, <1>4, <1>5, <1>6, <1>7 DEF TypeInv

LEMMA DialTypes == ASSUME TypeInv, NEW l \in Link, Dial(l) PROVE TypeInv'
<1>1. DataTypes'
  BY DEF TypeInv, DataTypes, changeVars, docVars, ghostVars, Msg, Dial
<1>2. IdTypes'
  <2>1. ClientId(l) \in Id
    BY Ends DEF TypeInv, IdTypes, ClientId, Id
  <2> QED BY <2>1 DEF TypeInv, IdTypes, Dial, ghostVars
<1>3. (job \in [Task -> Job])'
  BY DEF TypeInv, Dial
<1>4. NetTypes'
  BY DEF TypeInv, NetTypes, Msg, UpMsg, DownMsg, Dial
<1>5. RingTypes'
  BY DEF TypeInv, RingTypes, rxVars, Dial
<1>6. FrameTypes'
  BY DEF TypeInv, FrameTypes, frameVars, Dial
<1>7. Held'
  BY DEF TypeInv, Held, rxVars, frameVars, Dial
<1> QED BY <1>1, <1>2, <1>3, <1>4, <1>5, <1>6, <1>7 DEF TypeInv

LEMMA ListenTypes == ASSUME TypeInv, NEW l \in Link, Listen(l) PROVE TypeInv'
<1>1. DataTypes'
  BY Ends DEF TypeInv, DataTypes, changeVars, docVars, Listen
<1>2. IdTypes'
  BY Ends DEF TypeInv, IdTypes, idVars, Listen
<1>3. (job \in [Task -> Job])'
  BY DEF TypeInv, Listen
<1>4. NetTypes'
  BY DEF TypeInv, NetTypes, Listen
<1>5. RingTypes'
  BY DEF TypeInv, RingTypes, rxVars, Listen
<1>6. FrameTypes'
  BY DEF TypeInv, FrameTypes, frameVars, Listen
<1>7. Held'
  BY DEF TypeInv, Held, rxVars, frameVars, Listen
<1> QED BY <1>1, <1>2, <1>3, <1>4, <1>5, <1>6, <1>7 DEF TypeInv

LEMMA TakeBroadcastTypes == ASSUME TypeInv, NEW l \in Link, TakeBroadcast(l) PROVE TypeInv'
<1>1. DataTypes'
  BY DEF TypeInv, DataTypes, changeVars, docVars, ghostVars, Pop, Awake, TakeBroadcast
<1>2. IdTypes'
  BY DEF TypeInv, IdTypes, idVars, ghostVars, Pop, TakeBroadcast
<1>3. (job \in [Task -> Job])'
  <2>1. Head(down[l]) \in DownMsg /\ Head(down[l]).type = "broadcast"
    BY PopType DEF TypeInv, NetTypes, TakeBroadcast, Pop
  <2>2. Head(down[l]).changes \in SUBSET Change
    BY <2>1 DEF DownMsg
  <2>3. <<l, "dial">> \in Task
    BY DEF Task
  <2> QED BY <2>2, <2>3, JobTypes, PutType DEF TypeInv, TakeBroadcast
<1>4. NetTypes'
  BY DEF TypeInv, NetTypes, Pop, Awake, TakeBroadcast
<1>5. RingTypes'
  BY DEF TypeInv, RingTypes, Pop, Awake, TakeBroadcast
<1>6. FrameTypes'
  BY DEF TypeInv, FrameTypes, frameVars, Pop, Awake, TakeBroadcast
<1>7. Held'
  BY DEF TypeInv, Held, frameVars, Pop, Awake, Dialling, TakeBroadcast
<1> QED BY <1>1, <1>2, <1>3, <1>4, <1>5, <1>6, <1>7 DEF TypeInv

LEMMA TakeSyncTypes == ASSUME TypeInv, NEW l \in Link, TakeSync(l) PROVE TypeInv'
<1>1. DataTypes'
  <2>1. Head(down[l]) \in DownMsg /\ Head(down[l]).type = "sync"
    BY PopType DEF TypeInv, NetTypes, TakeSync, Pop
  <2>2. Head(down[l]).changes \in SUBSET Change
    BY <2>1 DEF DownMsg
  <2>3. db' \in [Server -> SUBSET Change]
    BY <2>2, Ends DEF TypeInv, DataTypes, TakeSync, ApplySync
  <2>4. how' \in [Server -> [Change -> {"none", "client", "serve", "dial", "sync"}]]
    BY Ends DEF TypeInv, DataTypes, TakeSync, Arrived
  <2> QED BY <2>3, <2>4 DEF TypeInv, DataTypes, TakeSync, changeVars
<1>2. IdTypes'
  BY Ends DEF TypeInv, IdTypes, idVars, Pop, TakeSync
<1>3. (job \in [Task -> Job])'
  BY DEF TypeInv, Pop, TakeSync
<1>4. NetTypes'
  BY DEF TypeInv, NetTypes, Pop, Awake, TakeSync
<1>5. RingTypes'
  BY DEF TypeInv, RingTypes, Pop, Awake, TakeSync
<1>6. FrameTypes'
  BY DEF TypeInv, FrameTypes, frameVars, Pop, Awake, TakeSync
<1>7. Held'
  BY DEF TypeInv, Held, frameVars, Pop, Awake, Dialling, TakeSync
<1> QED BY <1>1, <1>2, <1>3, <1>4, <1>5, <1>6, <1>7 DEF TypeInv

LEMMA TakeFrameTypes == ASSUME TypeInv, NEW l \in Link, TakeFrame(l) PROVE TypeInv'
<1>1. DataTypes'
  BY Ends DEF TypeInv, DataTypes, changeVars, docVars, ghostVars, Pop, Awake, TakeFrame
<1>2. IdTypes'
  BY Ends DEF TypeInv, IdTypes, idVars, ghostVars, Pop, TakeFrame
<1>3. (job \in [Task -> Job])'
  BY DEF TypeInv, Pop, TakeFrame
<1>4. NetTypes'
  BY DEF TypeInv, NetTypes, Pop, Awake, TakeFrame
<1>5. RingTypes'
  BY DEF TypeInv, RingTypes, Pop, Awake, TakeFrame
<1>6. FrameTypes'
  <2>1. Head(down[l]) \in DownMsg /\ Head(down[l]).type = "batch"
    BY PopType DEF TypeInv, NetTypes, TakeFrame, Pop
  <2>2. Head(down[l]).changes \in Frame
    BY <2>1 DEF DownMsg
  <2> QED BY <2>2, Ends, RouteType DEF TypeInv, FrameTypes, TakeFrame
<1>7. Held'
  BY DEF TypeInv, Held, Pop, Awake, Route, Listening, Receiving, Dialling, TakeFrame
<1> QED BY <1>1, <1>2, <1>3, <1>4, <1>5, <1>6, <1>7 DEF TypeInv

LEMMA ForwardTypes == ASSUME TypeInv, NEW l \in Link, Forward(l) PROVE TypeInv'
<1>1. DataTypes'
  BY DEF TypeInv, DataTypes, changeVars, docVars, ghostVars, Msg, Forward
<1>2. IdTypes'
  BY DEF TypeInv, IdTypes, idVars, ghostVars, Forward
<1>3. (job \in [Task -> Job])'
  BY DEF TypeInv, Forward
<1>4. NetTypes'
  <2>1. Head(rxDial[l]) \in NoteType
    BY PopType DEF TypeInv, RingTypes, Forward
  <2>2. Msg("push", Head(rxDial[l]).changes, FALSE) \in UpMsg
    BY <2>1 DEF NoteType, Msg, UpMsg
  <2> QED BY <2>2, PushType DEF TypeInv, NetTypes, Forward
<1>5. RingTypes'
  <2>1. /\ rxDial[l] # <<>> /\ rxDial' = [rxDial EXCEPT ![l] = Tail(@)]
        /\ UNCHANGED <<rxServe, lagged, stalled>>
    BY DEF Forward
  <2>2. rxDial' \in [Link -> Seq(NoteType)] /\ Len(Tail(rxDial[l])) < Len(rxDial[l])
    BY <2>1, PopType DEF TypeInv, RingTypes
  <2>3. \A k \in Link : Len(rxDial'[k]) <= Len(rxDial[k])
    BY <2>1, <2>2 DEF TypeInv, RingTypes
  <2> QED BY <2>1, <2>2, <2>3, ConstantsOK DEF TypeInv, RingTypes
<1>6. FrameTypes'
  BY DEF TypeInv, FrameTypes, frameVars, Forward
<1>7. Held'
  BY DEF TypeInv, Held, frameVars, Dialling, Forward
<1> QED BY <1>1, <1>2, <1>3, <1>4, <1>5, <1>6, <1>7 DEF TypeInv

LEMMA LagTypes == ASSUME TypeInv, NEW l \in Link, Lag(l) PROVE TypeInv'
<1>1. DataTypes'
  BY DEF TypeInv, DataTypes, changeVars, docVars, ghostVars, Lag
<1>2. IdTypes'
  BY DEF TypeInv, IdTypes, idVars, ghostVars, Lag
<1>3. (job \in [Task -> Job])'
  BY DEF TypeInv, Lag
<1>4. NetTypes'
  BY DEF TypeInv, NetTypes, netVars, Lag
<1>5. RingTypes'
  BY DEF TypeInv, RingTypes, Lag
<1>6. FrameTypes'
  BY DEF TypeInv, FrameTypes, frameVars, Lag
<1>7. Held'
  BY DEF TypeInv, Held, frameVars, netVars, Dialling, Lag
<1> QED BY <1>1, <1>2, <1>3, <1>4, <1>5, <1>6, <1>7 DEF TypeInv

LEMMA ForwardFrameTypes == ASSUME TypeInv, NEW l \in Link, ForwardFrame(l) PROVE TypeInv'
<1>1. DataTypes'
  BY DEF TypeInv, DataTypes, changeVars, docVars, ghostVars, Msg, Awake, ForwardFrame
<1>2. IdTypes'
  BY DEF TypeInv, IdTypes, idVars, ghostVars, ForwardFrame
<1>3. (job \in [Task -> Job])'
  BY DEF TypeInv, ForwardFrame
<1>4. NetTypes'
  <2>1. Head(exDial[l]) \in OutFrame
    BY PopType DEF TypeInv, FrameTypes, ForwardFrame
  <2>2. Msg("relay", Head(exDial[l]).frame, FALSE) \in UpMsg
    BY <2>1 DEF OutFrame, Msg, UpMsg
  <2> QED BY <2>2, PushType DEF TypeInv, NetTypes, ForwardFrame
<1>5. RingTypes'
  BY DEF TypeInv, RingTypes, Awake, ForwardFrame
<1>6. FrameTypes'
  BY PopType DEF TypeInv, FrameTypes, ForwardFrame
<1>7. Held'
  BY DEF TypeInv, Held, Awake, Dialling, ForwardFrame
<1> QED BY <1>1, <1>2, <1>3, <1>4, <1>5, <1>6, <1>7 DEF TypeInv

LEMMA HangUpTypes == ASSUME TypeInv, NEW l \in Link, HangUp(l) PROVE TypeInv'
<1>1. DataTypes'
  BY DEF TypeInv, DataTypes, changeVars, docVars, ghostVars, Awake, HangUp
<1>2. IdTypes'
  BY DEF TypeInv, IdTypes, idVars, ghostVars, HangUp
<1>3. (job \in [Task -> Job])'
  BY DEF TypeInv, HangUp
<1>4. NetTypes'
  BY DEF TypeInv, NetTypes, Awake, HangUp
<1>5. RingTypes'
  <2>1. rxDial' = [rxDial EXCEPT ![l] = <<>>] /\ rxDial' \in [Link -> Seq(NoteType)]
    BY ClearType DEF TypeInv, RingTypes, HangUp
  <2>2. \A k \in Link : rxDial'[k] \in {<<>>, rxDial[k]}
    BY <2>1 DEF TypeInv, RingTypes
  <2>3. Len(<<>>) <= Cap
    BY ConstantsOK
  <2> QED BY <2>1, <2>2, <2>3 DEF TypeInv, RingTypes, HangUp, Awake
<1>6. FrameTypes'
  BY ClearType DEF TypeInv, FrameTypes, HangUp
<1>7. Held'
  BY DEF TypeInv, NetTypes, RingTypes, FrameTypes, Held, HangUp, Awake
<1> QED BY <1>1, <1>2, <1>3, <1>4, <1>5, <1>6, <1>7 DEF TypeInv

LEMMA BreakTypes == ASSUME TypeInv, NEW l \in Link, Break(l) PROVE TypeInv'
<1>1. DataTypes'
  BY DEF TypeInv, DataTypes, changeVars, docVars, Break
<1>2. IdTypes'
  <2>1. faults' \in 0..MaxFaults
    BY ConstantsOK DEF TypeInv, IdTypes, Break, MayFail
  <2> QED BY <2>1 DEF TypeInv, IdTypes, Break, idVars
<1>3. (job \in [Task -> Job])'
  BY DEF TypeInv, Break
<1>4. NetTypes'
  BY DEF TypeInv, NetTypes, Break
<1>5. RingTypes'
  BY DEF TypeInv, RingTypes, rxVars, Break
<1>6. FrameTypes'
  BY DEF TypeInv, FrameTypes, frameVars, Break
<1>7. Held'
  BY DEF TypeInv, Held, rxVars, frameVars, Break
<1> QED BY <1>1, <1>2, <1>3, <1>4, <1>5, <1>6, <1>7 DEF TypeInv

LEMMA WriteTypes == ASSUME TypeInv, NEW s \in Server, NEW x \in Change, Write(s, x) PROVE TypeInv'
<1>1. DataTypes'
  BY DEF TypeInv, DataTypes, ghostVars, Applied, Write
<1>2. IdTypes'
  BY DEF TypeInv, IdTypes, idVars, ghostVars, Write
<1>3. (job \in [Task -> Job])'
  BY DEF TypeInv, Write
<1>4. NetTypes'
  BY DEF TypeInv, NetTypes, netVars, Write
<1>5. RingTypes'
  BY DEF TypeInv, RingTypes, rxVars, Write
<1>6. FrameTypes'
  BY DEF TypeInv, FrameTypes, frameVars, Write
<1>7. Held'
  BY DEF TypeInv, Held, rxVars, frameVars, netVars, Write
<1> QED BY <1>1, <1>2, <1>3, <1>4, <1>5, <1>6, <1>7 DEF TypeInv

LEMMA SendFrameTypes == ASSUME TypeInv, NEW s \in Server, NEW f \in Frame, SendFrame(s, f) PROVE TypeInv'
<1>1. DataTypes'
  BY DEF TypeInv, DataTypes, changeVars, docVars, ghostVars, SendFrame
<1>2. IdTypes'
  BY DEF TypeInv, IdTypes, idVars, ghostVars, SendFrame
<1>3. (job \in [Task -> Job])'
  BY DEF TypeInv, SendFrame
<1>4. NetTypes'
  BY DEF TypeInv, NetTypes, netVars, SendFrame
<1>5. RingTypes'
  BY DEF TypeInv, RingTypes, rxVars, SendFrame
<1>6. FrameTypes'
  BY RouteType DEF TypeInv, FrameTypes, SendFrame
<1>7. Held'
  BY DEF TypeInv, Held, rxVars, netVars, Route, Listening, Receiving, SendFrame
<1> QED BY <1>1, <1>2, <1>3, <1>4, <1>5, <1>6, <1>7 DEF TypeInv

-----------------------------------------------------------------------------
(* Together. *)

LEMMA TypeInvNext == TypeInv /\ [Next]_vars => TypeInv'
<1> SUFFICES ASSUME TypeInv, [Next]_vars PROVE TypeInv'
  OBVIOUS
<1>1. ASSUME NEW t \in Task, Inside(t) PROVE TypeInv'
  BY <1>1, ApplyTypes, BroadcastTypes DEF Inside
<1>2. ASSUME NEW s \in Server, PushLocal(s) PROVE TypeInv'
  BY <1>2, PushLocalTypes
<1>3. ASSUME NEW l \in Link, Serve(l) PROVE TypeInv'
  BY <1>3, GreetTypes, SendSyncTypes, ServePushTypes, DropRelayTypes, ServeBroadcastTypes,
     ServeFrameTypes, StopServingTypes DEF Serve
<1>4. ASSUME NEW l \in Link, ConnectToPeer(l) PROVE TypeInv'
  BY <1>4, DialTypes, ListenTypes, TakeBroadcastTypes, TakeSyncTypes, TakeFrameTypes,
     ForwardTypes, LagTypes, ForwardFrameTypes, HangUpTypes DEF ConnectToPeer
<1>5. CASE Run
  BY <1>1, <1>2, <1>3, <1>4, <1>5 DEF Run
<1>6. ASSUME NEW s \in Server, NEW x \in Change, Write(s, x) PROVE TypeInv'
  BY <1>6, WriteTypes
<1>7. ASSUME NEW s \in Server, NEW f \in Frame, SendFrame(s, f) PROVE TypeInv'
  BY <1>7, SendFrameTypes
<1>8. ASSUME NEW s \in Server, Refresh(s) \/ Restart(s) PROVE TypeInv'
  BY <1>8, RefreshTypes, RestartTypes
<1>9. ASSUME NEW l \in Link, Break(l) PROVE TypeInv'
  BY <1>9, BreakTypes
<1>10. CASE UNCHANGED vars
  <2>1. /\ UNCHANGED <<changeVars, docVars, subs, idVars, job, netVars>>
        /\ UNCHANGED <<rxVars, frameVars, how, faults>>
    BY <1>10 DEF vars, ghostVars
  <2>2. DataTypes' /\ IdTypes' /\ (job \in [Task -> Job])'
    BY <2>1 DEF TypeInv, DataTypes, IdTypes, changeVars, docVars, idVars, Task
  <2>3. NetTypes' /\ RingTypes' /\ FrameTypes' /\ Held'
    BY <2>1 DEF TypeInv, NetTypes, RingTypes, FrameTypes, Held, netVars, rxVars, frameVars
  <2> QED BY <2>2, <2>3 DEF TypeInv
<1> QED BY <1>5, <1>6, <1>7, <1>8, <1>9, <1>10 DEF Next

\* However servers are joined, restart and lose connections, every variable keeps its
\* type, no receiver's ring outgrows BROADCAST_CHANNEL_SIZE, and a connect_to_peer or
\* handle_websocket task that is not running holds nothing for its next connection.
THEOREM TypeCorrect == Spec => []TypeOK
<1>1. TypeInv => TypeOK
  BY DEF TypeInv, DataTypes, IdTypes, NetTypes, RingTypes, FrameTypes, Held, Id, Job, TypeOK
<1> QED BY <1>1, TypeInvInit, TypeInvNext, PTL DEF Spec

-----------------------------------------------------------------------------
(* What a crash may lose. *)

\* A change that a server does not have did not come to it.
Known == \A s \in Server : \A x \in Change \ db[s] : how[s][x] = "none"

SaveInv == OnlySyncIsUnsaved /\ Known

\* apply_changes_inner leaves nothing of its server unsaved.
LEMMA ApplySaves ==
  ASSUME TypeInv, SaveInv, NEW t \in Task, Apply(t)
  PROVE  SaveInv'
<1>1. Home(t) \in Server /\ job[t].changes \in SUBSET Change
  BY HomeType, JobKept DEF TypeInv
<1>2. /\ db' = [db EXCEPT ![Home(t)] = @ \cup job[t].changes]
      /\ store' = [store EXCEPT ![Home(t)] = db'[Home(t)]]
  BY DEF Apply, ApplyAndPersist
<1>3. store'[Home(t)] = db'[Home(t)]
  BY <1>1, <1>2 DEF TypeInv, DataTypes
<1>4. \A s \in Server \ {Home(t)} : db'[s] = db[s] /\ store'[s] = store[s]
  BY <1>2 DEF TypeInv, DataTypes
<1>5. \A s \in Server \ {Home(t)} : how'[s] = how[s]
  BY <1>1 DEF TypeInv, DataTypes, Apply, Arrived
<1>6. \A x \in Change \ job[t].changes : how'[Home(t)][x] = how[Home(t)][x]
  BY <1>1 DEF TypeInv, DataTypes, Apply, Arrived
<1>7. OnlySyncIsUnsaved'
  BY <1>3, <1>4, <1>5 DEF SaveInv, OnlySyncIsUnsaved
<1>8. Known'
  <2>1. SUFFICES ASSUME NEW s \in Server, NEW x \in Change \ db'[s] PROVE how'[s][x] = "none"
    BY DEF Known, Change
  <2>2. CASE s = Home(t)
    <3>1. x \notin db[s] /\ x \notin job[t].changes
      BY <1>1, <1>2, <2>2 DEF TypeInv, DataTypes
    <3> QED BY <1>6, <2>2, <3>1 DEF SaveInv, Known
  <2>3. CASE s # Home(t)
    BY <1>4, <1>5, <2>3 DEF SaveInv, Known
  <2> QED BY <2>2, <2>3
<1> QED BY <1>7, <1>8 DEF SaveInv

\* What a Sync brings that was not there came in a Sync.
LEMMA TakeSyncMarks ==
  ASSUME TypeInv, SaveInv, NEW l \in Link, TakeSync(l)
  PROVE  SaveInv'
<1> DEFINE S == Head(down[l]).changes
<1>1. From(l) \in Server
  BY Ends
<1>2. db' = [db EXCEPT ![From(l)] = @ \cup S] /\ store' = store
  BY DEF TakeSync, ApplySync
<1>3. how' = [how EXCEPT ![From(l)] = [x \in Change |->
                IF x \in S /\ how[From(l)][x] = "none" THEN "sync" ELSE how[From(l)][x]]]
  BY <1>1 DEF TypeInv, DataTypes, TakeSync, Arrived
<1> HIDE DEF S
<1>4. \A s \in Server \ {From(l)} : db'[s] = db[s] /\ how'[s] = how[s]
  BY <1>2, <1>3 DEF TypeInv, DataTypes
<1>5. db'[From(l)] = db[From(l)] \cup S
  BY <1>1, <1>2 DEF TypeInv, DataTypes
<1>6. \A x \in Change : how'[From(l)][x] =
        IF x \in S /\ how[From(l)][x] = "none" THEN "sync" ELSE how[From(l)][x]
  BY <1>1, <1>3 DEF TypeInv, DataTypes
<1>7. db'[From(l)] \subseteq Change
  BY <1>1, TakeSyncTypes DEF TypeInv, DataTypes
<1>8. OnlySyncIsUnsaved'
  <2>1. SUFFICES ASSUME NEW s \in Server, NEW x \in db'[s] \ store'[s] PROVE how'[s][x] = "sync"
    BY DEF OnlySyncIsUnsaved
  <2>2. CASE s # From(l)
    BY <1>2, <1>4, <2>1, <2>2 DEF SaveInv, OnlySyncIsUnsaved
  <2>3. CASE s = From(l) /\ x \in db[s]
    <3>1. how[s][x] = "sync"
      BY <1>2, <2>1, <2>3 DEF SaveInv, OnlySyncIsUnsaved
    <3> QED BY <1>6, <1>7, <2>1, <2>3, <3>1
  <2>4. CASE s = From(l) /\ x \notin db[s]
    <3>1. x \in S /\ x \in Change
      BY <1>5, <1>7, <2>1, <2>4
    <3>2. how[s][x] = "none"
      BY <2>4, <3>1 DEF SaveInv, Known
    <3> QED BY <1>6, <2>4, <3>1, <3>2
  <2> QED BY <2>2, <2>3, <2>4
<1>9. Known'
  <2>1. SUFFICES ASSUME NEW s \in Server, NEW x \in Change \ db'[s] PROVE how'[s][x] = "none"
    BY DEF Known, Change
  <2>2. CASE s # From(l)
    BY <1>4, <2>1, <2>2 DEF SaveInv, Known
  <2>3. CASE s = From(l)
    <3>1. x \notin S /\ x \notin db[s]
      BY <1>5, <2>1, <2>3
    <3>2. how[s][x] = "none"
      BY <3>1 DEF SaveInv, Known
    <3> QED BY <1>6, <2>3, <3>1, <3>2
  <2> QED BY <2>2, <2>3
<1> QED BY <1>8, <1>9 DEF SaveInv

\* A server that starts again has what it saved.
LEMMA RestartLoads ==
  ASSUME TypeInv, SaveInv, NEW r \in Server, Restart(r)
  PROVE  SaveInv'
<1>1. /\ db' = [db EXCEPT ![r] = store[r]] /\ store' = store
      /\ how' = [how EXCEPT ![r] = [x \in Change |-> IF x \in store[r] THEN @[x] ELSE "none"]]
  BY DEF Restart
<1>2. /\ db'[r] = store[r]
      /\ \A s \in Server \ {r} : db'[s] = db[s] /\ how'[s] = how[s]
  BY <1>1 DEF TypeInv, DataTypes
<1>3. \A x \in Change \ store[r] : how'[r][x] = "none"
  BY <1>1 DEF TypeInv, DataTypes
<1>4. OnlySyncIsUnsaved'
  BY <1>1, <1>2 DEF SaveInv, OnlySyncIsUnsaved
<1>5. Known'
  <2>1. SUFFICES ASSUME NEW s \in Server, NEW x \in Change \ db'[s] PROVE how'[s][x] = "none"
    BY DEF Known, Change
  <2>2. CASE s = r
    BY <1>2, <1>3, <2>1, <2>2
  <2>3. CASE s # r
    BY <1>2, <2>1, <2>3 DEF SaveInv, Known
  <2> QED BY <2>2, <2>3
<1> QED BY <1>4, <1>5 DEF SaveInv

\* No other step touches a document, its image or how it came about.
LEMMA SaveInvKept ==
  ASSUME SaveInv, UNCHANGED <<db, store, how>>
  PROVE  SaveInv'
BY DEF SaveInv, OnlySyncIsUnsaved, Known, Change

LEMMA SaveInvNext == TypeInv /\ SaveInv /\ [Next]_vars => SaveInv'
<1> SUFFICES ASSUME TypeInv, SaveInv, [Next]_vars PROVE SaveInv'
  OBVIOUS
<1> USE DEF docVars, ghostVars
<1>1. ASSUME NEW t \in Task, Inside(t) PROVE SaveInv'
  <2>1. CASE Apply(t)
    BY <2>1, ApplySaves
  <2>2. CASE Broadcast(t)
    BY <2>2, SaveInvKept DEF Broadcast
  <2> QED BY <1>1, <2>1, <2>2 DEF Inside
<1>2. ASSUME NEW s \in Server, PushLocal(s) PROVE SaveInv'
  BY <1>2, SaveInvKept DEF PushLocal
<1>3. ASSUME NEW l \in Link, Serve(l) PROVE SaveInv'
  <2>1. UNCHANGED <<db, store, how>>
    BY <1>3 DEF Serve, Greet, SendSync, ServePush, DropRelay, ServeBroadcast, ServeFrame,
                StopServing
  <2> QED BY <2>1, SaveInvKept
<1>4. ASSUME NEW l \in Link, ConnectToPeer(l) PROVE SaveInv'
  <2>1. CASE TakeSync(l)
    BY <2>1, TakeSyncMarks
  <2>2. CASE ~TakeSync(l)
    <3>1. UNCHANGED <<db, store, how>>
      BY <1>4, <2>2 DEF ConnectToPeer, Dial, Listen, TakeBroadcast, TakeFrame, Forward, Lag,
                        ForwardFrame, HangUp
    <3> QED BY <3>1, SaveInvKept
  <2> QED BY <2>1, <2>2
<1>5. CASE Run
  BY <1>1, <1>2, <1>3, <1>4, <1>5 DEF Run
<1>6. ASSUME NEW s \in Server, NEW x \in Change, Write(s, x) PROVE SaveInv'
  BY <1>6, SaveInvKept DEF Write
<1>7. ASSUME NEW s \in Server, NEW f \in Frame, SendFrame(s, f) PROVE SaveInv'
  BY <1>7, SaveInvKept DEF SendFrame
<1>8. ASSUME NEW s \in Server, Refresh(s) \/ Restart(s) PROVE SaveInv'
  <2>1. CASE Refresh(s)
    BY <2>1, SaveInvKept DEF Refresh
  <2> QED BY <1>8, <2>1, RestartLoads
<1>9. ASSUME NEW l \in Link, Break(l) PROVE SaveInv'
  BY <1>9, SaveInvKept DEF Break
<1>10. CASE UNCHANGED vars
  BY <1>10, SaveInvKept DEF vars
<1> QED BY <1>5, <1>6, <1>7, <1>8, <1>9, <1>10 DEF Next

\* Whoever pushed a change, over whatever link it came and whenever servers crash, only
\* what a link's Sync brought (apply_changes without persist in connect_to_peer) is
\* missing from a server's saved image.
THEOREM OnlySyncsAreUnsaved == Spec => []OnlySyncIsUnsaved
<1>1. Init => SaveInv
  BY DEF Init, None, SaveInv, OnlySyncIsUnsaved, Known
<1>2. SaveInv => OnlySyncIsUnsaved
  BY DEF SaveInv
<1> QED BY <1>1, <1>2, TypeInvInit, TypeInvNext, SaveInvNext, PTL DEF Spec

-----------------------------------------------------------------------------
(* At rest: what the invariants of this section have in common. *)

\* The tasks of a link are not those of local clients.
LEMMA LinkTasks ==
  ASSUME NEW l \in Link, NEW e \in {"dial", "serve"}
  PROVE  <<l, e>> \in Task /\ <<l, e>> \notin Server
BY ConstantsOK DEF ConstantsOK, Task

\* The links join the same servers for ever.
LEMMA EndsFixed ==
  ASSUME [Next]_vars
  PROVE  /\ ends' = ends
         /\ \A l : From(l)' = From(l) /\ To(l)' = To(l)
         /\ \A t : Home(t)' = Home(t)
<1>1. ends' = ends
  <2>1. ASSUME NEW t \in Task, Inside(t) PROVE ends' = ends
    BY <2>1 DEF Inside, Apply, Broadcast, changeVars
  <2>2. ASSUME NEW l \in Link, Serve(l) PROVE ends' = ends
    BY <2>2 DEF Serve, Greet, SendSync, ServePush, DropRelay, ServeBroadcast, ServeFrame, StopServing, changeVars
  <2>3. ASSUME NEW l \in Link, ConnectToPeer(l) PROVE ends' = ends
    BY <2>3 DEF ConnectToPeer, Dial, Listen, TakeBroadcast, TakeSync, TakeFrame, Forward, Lag,
                ForwardFrame, HangUp, changeVars
  <2>4. CASE Run
    BY <2>1, <2>2, <2>3, <2>4 DEF Run, PushLocal, changeVars
  <2>5. CASE UNCHANGED vars
    BY <2>5 DEF vars, changeVars
  <2> QED BY <2>4, <2>5 DEF Next, Write, SendFrame, Refresh, Restart, Break, changeVars
<1> QED BY <1>1 DEF From, To, Home

-----------------------------------------------------------------------------
(* The types of the history variables. *)

GhostTypes ==
  /\ silent \in [Server -> SUBSET Change] /\ aired \in [Server -> SUBSET Change]
  /\ before \in [Link -> SUBSET Change]
  /\ lostUp \in [Link -> SUBSET Change] /\ lostDown \in [Link -> SUBSET Change]

\* No step puts anything but changes into them.
LEMMA GhostStep == ASSUME TypeInv, GhostTypes, [Next]_vars PROVE GhostTypes'
<1>k. ASSUME UNCHANGED <<silent, aired, before, lostUp, lostDown>> PROVE GhostTypes'
  BY <1>k DEF GhostTypes
<1>o. ASSUME NEW q \in Seq(NoteType) PROVE Overrun(q) \in SUBSET Change
  <2>1. CASE Len(q) < Cap
    BY <2>1 DEF Overrun
  <2>2. CASE ~(Len(q) < Cap)
    <3>1. q # <<>>
      BY <2>2, ConstantsOK
    <3>2. Head(q) \in NoteType
      BY <3>1
    <3> QED BY <2>2, <3>2 DEF Overrun, NoteType
  <2> QED BY <2>1, <2>2
<1>1. ASSUME NEW t \in Task, Apply(t) PROVE GhostTypes'
  <2>1. Home(t) \in Server /\ job[t].changes \in SUBSET Change
    BY HomeType, JobKept DEF TypeInv
  <2> QED BY <1>1, <2>1 DEF Apply, GhostTypes
<1>2. ASSUME NEW t \in Task, Broadcast(t) PROVE GhostTypes'
  <2> DEFINE m == Note(t, job[t].changes, FromPeer(t), subs[Home(t)])
  <2>1. Home(t) \in Server /\ m.changes \in SUBSET Change
    BY HomeType, JobKept DEF TypeInv, Note
  <2> HIDE DEF m
  <2>2. /\ lostUp' = [l \in Link |-> lostUp[l] \cup
                        IF From(l) = Home(t) /\ Listening(l) THEN Overrun(rxDial[l]) ELSE {}]
        /\ lostDown' = [l \in Link |-> lostDown[l] \cup
                          IF To(l) = Home(t) /\ Receiving(l)
                          THEN Overrun(rxServe[l]) \cup (IF as[l] \in subs[Home(t)] THEN {} ELSE m.changes)
                          ELSE {}]
        /\ aired' = [aired EXCEPT ![Home(t)] = @ \cup m.changes]
        /\ UNCHANGED <<silent, before>>
    BY <1>2 DEF Broadcast, m
  <2>3. \A l \in Link : Overrun(rxDial[l]) \in SUBSET Change /\ Overrun(rxServe[l]) \in SUBSET Change
    BY <1>o DEF TypeInv, RingTypes
  <2> QED BY <2>1, <2>2, <2>3 DEF GhostTypes
<1>3. ASSUME NEW l \in Link, Serve(l) PROVE GhostTypes'
  BY <1>3, <1>k DEF Serve, Greet, SendSync, ServePush, DropRelay, ServeBroadcast, ServeFrame,
                    StopServing, ghostVars
<1>4. ASSUME NEW l \in Link, ConnectToPeer(l) PROVE GhostTypes'
  <2>1. CASE Listen(l)
    BY <2>1, Ends DEF Listen, GhostTypes
  <2>2. CASE TakeSync(l)
    <3>1. Head(down[l]) \in DownMsg /\ Head(down[l]).type = "sync"
      BY <2>2, PopType DEF TypeInv, NetTypes, TakeSync, Pop
    <3>2. Head(down[l]).changes \in SUBSET Change
      BY <3>1 DEF DownMsg
    <3> QED BY <2>2, <3>2, Ends DEF TakeSync, GhostTypes
  <2>3. CASE Dial(l) \/ TakeBroadcast(l) \/ TakeFrame(l) \/ Forward(l) \/ Lag(l) \/ ForwardFrame(l) \/ HangUp(l)
    BY <2>3, <1>k DEF Dial, TakeBroadcast, TakeFrame, Forward, Lag, ForwardFrame, HangUp, ghostVars
  <2> QED BY <1>4, <2>1, <2>2, <2>3 DEF ConnectToPeer
<1>5. ASSUME NEW s \in Server,
             \/ PushLocal(s) \/ Refresh(s)
             \/ \E x \in Change : Write(s, x)
             \/ \E f \in Frame : SendFrame(s, f)
      PROVE  GhostTypes'
  BY <1>5, <1>k DEF PushLocal, Refresh, Write, SendFrame, ghostVars
<1>6. ASSUME NEW s \in Server, Restart(s) PROVE GhostTypes'
  <2>1. \A t \in Task : job[t].changes \in SUBSET Change
    BY JobKept DEF TypeInv
  <2>2. UNION {job[t].changes : t \in {u \in Task : Cut(s, u)}} \in SUBSET Change
    BY <2>1
  <2> QED BY <1>6, <2>2 DEF Restart, GhostTypes, TypeInv, DataTypes
<1>7. ASSUME NEW l \in Link, Break(l) PROVE GhostTypes'
  BY <1>7, <1>k DEF Break
<1>8. CASE UNCHANGED vars
  BY <1>8, <1>k DEF vars, ghostVars
<1> QED BY <1>1, <1>2, <1>3, <1>4, <1>5, <1>6, <1>7, <1>8 DEF Next, Run, Inside

\* A link's tasks begin a push only when they are through with the last one.
LEMMA JobsKept ==
  ASSUME TypeInv, NEW u \in Task, job[u].step # "idle"
  PROVE  /\ \A s \in Server : PushLocal(s) => job'[u] = job[u]
         /\ \A l \in Link : Serve(l) \/ ConnectToPeer(l) => job'[u] = job[u]
<1>1. job[u] # Idle
  BY DEF Idle
<1>2. ASSUME NEW s \in Server, PushLocal(s) PROVE job'[u] = job[u]
  <2>1. job[s] = Idle /\ job' = [job EXCEPT ![s] = Push(client[s] \ db[s], TRUE)]
    BY <1>2 DEF PushLocal
  <2> QED BY <1>1, <2>1 DEF TypeInv
<1>3. ASSUME NEW l \in Link, Serve(l) PROVE job'[u] = job[u]
  <2>1. CASE ServePush(l)
    <3>1. PICK j : job[<<l, "serve">>] = Idle /\ job' = [job EXCEPT ![<<l, "serve">>] = j]
      BY <2>1 DEF ServePush, Serving
    <3> QED BY <1>1, <3>1 DEF TypeInv
  <2>2. CASE ~ServePush(l)
    BY <1>3, <2>2 DEF Serve, Greet, SendSync, DropRelay, ServeBroadcast, ServeFrame, StopServing
  <2> QED BY <2>1, <2>2
<1>4. ASSUME NEW l \in Link, ConnectToPeer(l) PROVE job'[u] = job[u]
  <2>1. CASE TakeBroadcast(l)
    <3>1. job[<<l, "dial">>] = Idle
      BY <2>1 DEF TakeBroadcast, Pop, Dialling
    <3>2. job' = job \/ \E j : job' = [job EXCEPT ![<<l, "dial">>] = j]
      BY <2>1 DEF TakeBroadcast
    <3> QED BY <1>1, <3>1, <3>2 DEF TypeInv
  <2>2. CASE ~TakeBroadcast(l)
    BY <1>4, <2>2 DEF ConnectToPeer, Dial, Listen, TakeSync, TakeFrame, Forward, Lag, ForwardFrame, HangUp
  <2> QED BY <2>1, <2>2
<1> QED BY <1>2, <1>3, <1>4

-----------------------------------------------------------------------------
(* Who pushes what. *)

LEMMA OwnKept ==
  ASSUME OwnPushes, \A s \in Server : client[s] \subseteq client'[s],
         \A s \in Server : \/ job'[s] \in {job[s], Idle}
                           \/ job'[s].changes \subseteq client'[s] /\ job'[s].loud
  PROVE  OwnPushes'
BY DEF OwnPushes, Idle

\* Pushes are begun with what the browser has, and browsers forget nothing.
LEMMA OwnStep == ASSUME TypeInv, OwnPushes, [Next]_vars PROVE OwnPushes'
<1> USE DEF docVars
<1>k. ASSUME client' = client, \A s \in Server : job'[s] = job[s] PROVE OwnPushes'
  BY <1>k, OwnKept
<1>1. ASSUME NEW t \in Task, Inside(t) PROVE OwnPushes'
  <2>1. CASE Apply(t)
    <3>1. client' = client
          /\ job' = [job EXCEPT ![t] = IF @.loud THEN [@ EXCEPT !.step = "applied"] ELSE Idle]
      BY <2>1 DEF Apply
    <3>2. \A j \in Job : [j EXCEPT !.step = "applied"].changes = j.changes
                         /\ [j EXCEPT !.step = "applied"].loud = j.loud
      BY DEF Job
    <3>3. \A s \in Server \cap Task : \/ job'[s] \in {job[s], Idle}
                                      \/ job'[s].changes \subseteq client'[s] /\ job'[s].loud
      BY <3>1, <3>2 DEF TypeInv, OwnPushes
    <3> QED BY <3>1, <3>3, OwnKept DEF Task
  <2>2. CASE Broadcast(t)
    <3>1. \A s \in Server : client[s] \subseteq client'[s]
      BY <2>2, HomeType DEF Broadcast, TypeInv, DataTypes
    <3>2. \A s \in Server \cap Task : job'[s] \in {job[s], Idle}
      BY <2>2 DEF Broadcast, TypeInv
    <3> QED BY <3>1, <3>2, OwnKept DEF Task
  <2> QED BY <1>1, <2>1, <2>2 DEF Inside
<1>2. ASSUME NEW s \in Server, PushLocal(s) PROVE OwnPushes'
  <2>1. job' = [job EXCEPT ![s] = Push(client[s] \ db[s], TRUE)] /\ client' = client /\ s \in Task
    BY <1>2 DEF PushLocal, Task
  <2>2. \A r \in Server \cap Task : \/ job'[r] \in {job[r], Idle}
                                    \/ job'[r].changes \subseteq client'[r] /\ job'[r].loud
    BY <2>1 DEF TypeInv, Push
  <2> QED BY <2>1, <2>2, OwnKept DEF Task
<1>3. ASSUME NEW l \in Link, Serve(l) PROVE OwnPushes'
  <2>1. client' = client /\ \A s \in Server \cap Task : job'[s] = job[s]
    BY <1>3, LinkTasks DEF Serve, Greet, SendSync, ServePush, DropRelay, ServeBroadcast, ServeFrame,
                StopServing, TypeInv
  <2> QED BY <1>k, <2>1 DEF Task
<1>4. ASSUME NEW l \in Link, ConnectToPeer(l) PROVE OwnPushes'
  <2>1. client' = client /\ \A s \in Server \cap Task : job'[s] = job[s]
    BY <1>4, LinkTasks DEF ConnectToPeer, Dial, Listen, TakeBroadcast, TakeSync, TakeFrame, Forward, Lag,
                ForwardFrame, HangUp, TypeInv
  <2> QED BY <1>k, <2>1 DEF Task
<1>5. CASE Run
  BY <1>1, <1>2, <1>3, <1>4, <1>5 DEF Run
<1>6. ASSUME NEW s \in Server, NEW x \in Change, Write(s, x) PROVE OwnPushes'
  BY <1>6, OwnKept DEF Write, TypeInv, DataTypes
<1>7. ASSUME NEW s \in Server, NEW f \in Frame, SendFrame(s, f) PROVE OwnPushes'
  BY <1>7, <1>k DEF SendFrame
<1>8. ASSUME NEW s \in Server, Refresh(s) PROVE OwnPushes'
  BY <1>8, OwnKept DEF Refresh, TypeInv, DataTypes
<1>9. ASSUME NEW s \in Server, Restart(s) PROVE OwnPushes'
  <2>1. \A r \in Server : client[r] \subseteq client'[r]
    BY <1>9 DEF Restart, TypeInv, DataTypes
  <2>2. \A r \in Server \cap Task : job'[r] \in {job[r], Idle}
    BY <1>9 DEF Restart
  <2> QED BY <2>1, <2>2, OwnKept DEF Task
<1>10. ASSUME NEW l \in Link, Break(l) PROVE OwnPushes'
  BY <1>10, <1>k DEF Break
<1>11. CASE UNCHANGED vars
  BY <1>11, <1>k DEF vars
<1> QED BY <1>5, <1>6, <1>7, <1>8, <1>9, <1>10, <1>11 DEF Next

-----------------------------------------------------------------------------
(* What a browser is told. *)

\* A step that takes nothing from the browsers and cuts no push keeps them informed.
LEMMA ToldKept ==
  ASSUME Told, \A t : Home(t)' = Home(t),
         \A s \in Server : /\ client[s] \subseteq client'[s] /\ silent[s] \subseteq silent'[s]
                           /\ db'[s] \subseteq db[s] \cup client'[s] \cup silent'[s],
         \A t \in Task : job[t].step = "applied" =>
           job'[t] = job[t] \/ job[t].changes \subseteq client'[Home(t)]
  PROVE  Told'
BY DEF Told, Cut

\* What comes to a document is broadcast by the job that brought it, is noted as silent,
\* or was the browser's own; a crash in between is noted, too.
LEMMA ToldStep == ASSUME TypeInv, GhostTypes, OwnPushes, LocalIsSaved, Told, [Next]_vars PROVE Told'
<1> USE DEF docVars
<1>e. \A t : Home(t)' = Home(t)
  BY EndsFixed
<1>k. ASSUME UNCHANGED <<db, client, silent>>, \A t \in Task : job[t].step = "applied" => job'[t] = job[t]
      PROVE  Told'
  BY <1>e, <1>k, ToldKept
<1>1. ASSUME NEW t \in Task, Apply(t) PROVE Told'
  <2> DEFINE s == Home(t)
  <2>1. /\ job[t].step = "extracted" /\ client' = client /\ s \in Server
        /\ db' = [db EXCEPT ![s] = @ \cup job[t].changes]
        /\ job' = [job EXCEPT ![t] = IF @.loud THEN [@ EXCEPT !.step = "applied"] ELSE Idle]
        /\ silent' = [silent EXCEPT ![s] = IF job[t].loud THEN @ ELSE @ \cup job[t].changes]
    BY <1>1, HomeType DEF Apply, ApplyAndPersist
  <2> HIDE DEF s
  <2>2. \A u \in Task : job[u].step = "applied" => job'[u] = job[u]
    BY <2>1 DEF TypeInv
  <2>3. CASE ~job[t].loud
    <3>1. \A r \in Server : /\ silent[r] \subseteq silent'[r]
                            /\ db'[r] \subseteq db[r] \cup silent'[r]
      BY <2>1, <2>3 DEF TypeInv, DataTypes, GhostTypes
    <3> QED BY <1>e, <2>1, <2>2, <3>1, ToldKept
  <2>4. CASE job[t].loud
    <3>1. job'[t].step = "applied" /\ job'[t].changes = job[t].changes
      BY <2>1, <2>4 DEF TypeInv, Job
    <3>2. \A r \in Server : silent'[r] = silent[r] /\ db'[r] = IF r = s THEN db[r] \cup job[t].changes ELSE db[r]
      BY <2>1, <2>4 DEF TypeInv, DataTypes, GhostTypes
    <3> QED BY <1>e, <2>1, <2>2, <3>1, <3>2 DEF Told, Cut, s
  <2> QED BY <2>3, <2>4
<1>2. ASSUME NEW t \in Task, Broadcast(t) PROVE Told'
  <2> DEFINE s == Home(t)
  <2>1. /\ job' = [job EXCEPT ![t] = Idle] /\ UNCHANGED <<db, silent>> /\ s \in Server
        /\ client' = [client EXCEPT ![s] = IF t # s THEN @ \cup job[t].changes ELSE @]
    BY <1>2, HomeType DEF Broadcast, Hears, Note
  <2>2. job[t].changes \subseteq client'[s]
    <3>1. CASE t # s
      BY <2>1, <3>1 DEF TypeInv, DataTypes
    <3>2. CASE t = s
      BY <2>1, <3>2 DEF TypeInv, DataTypes, OwnPushes
    <3> QED BY <3>1, <3>2
  <2>3. \A r \in Server : client[r] \subseteq client'[r]
    BY <2>1 DEF TypeInv, DataTypes
  <2>4. \A u \in Task \ {t} : job'[u] = job[u]
    BY <2>1 DEF TypeInv
  <2> QED BY <1>e, <2>1, <2>2, <2>3, <2>4, ToldKept
<1>3. ASSUME NEW s \in Server, PushLocal(s) PROVE Told'
  <2>1. \A u \in Task : job[u].step = "applied" => job'[u] = job[u]
    BY <1>3, JobsKept
  <2> QED BY <1>3, <1>k, <2>1 DEF PushLocal, ghostVars
<1>4. ASSUME NEW l \in Link, Serve(l) PROVE Told'
  <2>1. \A u \in Task : job[u].step = "applied" => job'[u] = job[u]
    BY <1>4, JobsKept
  <2>2. UNCHANGED <<db, client, silent>>
    BY <1>4 DEF Serve, Greet, SendSync, ServePush, DropRelay, ServeBroadcast, ServeFrame, StopServing, ghostVars
  <2> QED BY <1>k, <2>1, <2>2
<1>5. ASSUME NEW l \in Link, ConnectToPeer(l) PROVE Told'
  <2>1. \A u \in Task : job[u].step = "applied" => job'[u] = job[u]
    BY <1>5, JobsKept
  <2>2. CASE TakeSync(l)
    <3>1. \A r \in Server : silent[r] \subseteq silent'[r] /\ db'[r] \subseteq db[r] \cup silent'[r]
      BY <2>2, Ends DEF TakeSync, ApplySync, TypeInv, DataTypes, GhostTypes
    <3> QED BY <1>e, <2>1, <2>2, <3>1, ToldKept DEF TakeSync
  <2>3. CASE ~TakeSync(l)
    <3>1. UNCHANGED <<db, client, silent>>
      BY <1>5, <2>3 DEF ConnectToPeer, Dial, Listen, TakeBroadcast, TakeFrame, Forward, Lag,
                ForwardFrame, HangUp, ghostVars
    <3> QED BY <1>k, <2>1, <3>1
  <2> QED BY <2>2, <2>3
<1>6. CASE Run
  BY <1>1, <1>2, <1>3, <1>4, <1>5, <1>6 DEF Run, Inside
<1>7. ASSUME NEW s \in Server,
             Refresh(s) \/ (\E x \in Change : Write(s, x)) \/ (\E f \in Frame : SendFrame(s, f))
      PROVE  Told'
  <2>1. UNCHANGED <<db, silent, job>>
    BY <1>7 DEF Refresh, Write, SendFrame, ghostVars
  <2>2. \A r \in Server : client[r] \subseteq client'[r]
    <3>1. ASSUME NEW S, client' = [client EXCEPT ![s] = @ \cup S] PROVE \A r \in Server : client[r] \subseteq client'[r]
      BY <3>1 DEF TypeInv, DataTypes
    <3> QED BY <1>7, <3>1 DEF Refresh, Write, SendFrame
  <2> QED BY <1>e, <2>1, <2>2, ToldKept
<1>8. ASSUME NEW s \in Server, Restart(s) PROVE Told'
  <2>1. /\ db' = [db EXCEPT ![s] = store[s]] /\ client' = [client EXCEPT ![s] = @ \cup Applied(store[s])]
        /\ job' = [t \in Task |-> IF Home(t) = s THEN Idle ELSE job[t]]
        /\ silent' = [silent EXCEPT ![s] = @ \cup UNION {job[t].changes : t \in {u \in Task : Cut(s, u)}}]
    BY <1>8 DEF Restart
  <2>2. /\ db'[s] = store[s] /\ store[s] \subseteq db[s] /\ client[s] \subseteq client'[s]
        /\ silent[s] \subseteq silent'[s]
        /\ \A u \in Task : Cut(s, u) => job[u].changes \subseteq silent'[s]
    BY <2>1 DEF TypeInv, DataTypes, GhostTypes, LocalIsSaved
  <2>3. \A x \in db'[s] \ client'[s] : x \in silent'[s]
    BY <2>2 DEF Told
  <2>4. \A r \in Server \ {s} : db'[r] = db[r] /\ client'[r] = client[r] /\ silent'[r] = silent[r]
    BY <2>1 DEF TypeInv, DataTypes, GhostTypes
  <2>5. \A r \in Server \ {s} : \A u \in Task : Cut(r, u) => Cut(r, u)' /\ job'[u] = job[u]
    BY <2>1, <1>e DEF Cut
  <2> QED BY <2>3, <2>4, <2>5 DEF Told
<1>9. ASSUME NEW l \in Link, Break(l) PROVE Told'
  BY <1>9, <1>k DEF Break
<1>10. CASE UNCHANGED vars
  BY <1>10, <1>k DEF vars, ghostVars
<1> QED BY <1>6, <1>7, <1>8, <1>9, <1>10 DEF Next

-----------------------------------------------------------------------------
(* What is in the queues of the links after a step. *)

LEMMA QueueTypes ==
  ASSUME TypeInv
  PROVE  /\ up \in [Link -> Seq(UpMsg)] /\ down \in [Link -> Seq(DownMsg)]
         /\ rxDial \in [Link -> Seq(NoteType)] /\ rxServe \in [Link -> Seq(NoteType)]
         /\ exDial \in [Link -> Seq(OutFrame)] /\ exServe \in [Link -> Seq(Frame)]
BY DEF TypeInv, NetTypes, RingTypes, FrameTypes

\* A frame to the dialling side arrives in its queue, or is lost.
LEMMA SendDownRange ==
  ASSUME TypeInv, NEW l \in Link, NEW m \in DownMsg, SendDown(l, m)
  PROVE  /\ \A k \in Link : ToSet(down[k]) \subseteq ToSet(down'[k])
         /\ \A k \in Link : \A e \in ToSet(down'[k]) : e \in ToSet(down[k]) \/ e = m
         /\ sock[l] = "open" => m \in ToSet(down'[l])
<1>1. CASE sock[l] = "open"
  <2>1. down' = [down EXCEPT ![l] = Append(@, m)] /\ down \in [Link -> Seq(DownMsg)]
    BY <1>1, QueueTypes DEF SendDown
  <2> QED BY <2>1, AppendRange
<1>2. CASE sock[l] # "open"
  BY <1>2 DEF SendDown
<1> QED BY <1>1, <1>2

\* A ring takes the new note, and keeps the others but for the one it drops.
LEMMA EnqueueRange ==
  ASSUME NEW q \in Seq(NoteType), NEW m \in NoteType
  PROVE  /\ m \in ToSet(Enqueue(q, m))
         /\ ToSet(Enqueue(q, m)) \subseteq ToSet(q) \cup {m}
         /\ \A e \in ToSet(q) : e \in ToSet(Enqueue(q, m)) \/ e.changes \subseteq Overrun(q)
<1>1. CASE Len(q) < Cap
  BY <1>1, AppendRange DEF Enqueue
<1>2. CASE ~(Len(q) < Cap)
  <2>1. q # <<>>
    BY <1>2, ConstantsOK
  <2>2. Tail(q) \in Seq(NoteType) /\ ToSet(Tail(q)) \subseteq ToSet(q)
        /\ \A e \in ToSet(q) : e = Head(q) \/ e \in ToSet(Tail(q))
    BY <2>1, TailRange, TailCovers
  <2>3. \A t \in Seq(NoteType) : ToSet(Append(t, m)) = ToSet(t) \cup {m}
    BY AppendRange
  <2> QED BY <1>2, <2>2, <2>3 DEF Enqueue, Overrun
<1> QED BY <1>1, <1>2

\* What a broadcast puts into the rings, and what it costs.
NoteOf(t) == Note(t, job[t].changes, FromPeer(t), subs[Home(t)])

\* It reaches every ring there is at that server; what a full ring loses for it, and what
\* no subscription asks for, is noted.
LEMMA BroadcastRange ==
  ASSUME TypeInv, GhostTypes, NEW t \in Task, Broadcast(t)
  PROVE  /\ NoteOf(t) \in NoteType /\ NoteOf(t).changes = job[t].changes
         /\ NoteOf(t).via = t /\ NoteOf(t).peer = (t \notin Server) /\ NoteOf(t).to = subs[Home(t)]
         /\ \A l \in Link : /\ ToSet(rxDial'[l]) \subseteq ToSet(rxDial[l]) \cup {NoteOf(t)}
                            /\ ToSet(rxServe'[l]) \subseteq ToSet(rxServe[l]) \cup {NoteOf(t)}
         /\ \A l \in Link : \A e \in ToSet(rxDial[l]) : e \in ToSet(rxDial'[l]) \/ e.changes \subseteq lostUp'[l]
         /\ \A l \in Link : \A e \in ToSet(rxServe[l]) : e \in ToSet(rxServe'[l]) \/ e.changes \subseteq lostDown'[l]
         /\ \A l \in Link : From(l) = Home(t) /\ Listening(l) => NoteOf(t) \in ToSet(rxDial'[l])
         /\ \A l \in Link : To(l) = Home(t) /\ Receiving(l) =>
              /\ NoteOf(t) \in ToSet(rxServe'[l])
              /\ as[l] \in subs[Home(t)] \/ job[t].changes \subseteq lostDown'[l]
         /\ \A l \in Link : lostUp[l] \subseteq lostUp'[l] /\ lostDown[l] \subseteq lostDown'[l]
<1> DEFINE m == NoteOf(t)
<1>1. /\ m.changes = job[t].changes /\ m.via = t /\ m.peer = (t \notin Server) /\ m.to = subs[Home(t)]
      /\ m \in NoteType
  BY HomeType, JobKept DEF TypeInv, IdTypes, NoteOf, Note, NoteType, FromPeer
<1>2. /\ rxDial' = [l \in Link |-> IF From(l) = Home(t) /\ Listening(l)
                                   THEN Enqueue(rxDial[l], m) ELSE rxDial[l]]
      /\ rxServe' = [l \in Link |-> IF To(l) = Home(t) /\ Receiving(l)
                                    THEN Enqueue(rxServe[l], m) ELSE rxServe[l]]
  BY DEF Broadcast, NoteOf
<1>3. /\ lostUp' = [l \in Link |-> lostUp[l] \cup
                      IF From(l) = Home(t) /\ Listening(l) THEN Overrun(rxDial[l]) ELSE {}]
      /\ lostDown' = [l \in Link |-> lostDown[l] \cup
                        IF To(l) = Home(t) /\ Receiving(l)
                        THEN Overrun(rxServe[l]) \cup (IF as[l] \in subs[Home(t)] THEN {} ELSE m.changes)
                        ELSE {}]
  BY DEF Broadcast, NoteOf
<1> HIDE DEF m
<1>4. \A l \in Link : rxDial[l] \in Seq(NoteType) /\ rxServe[l] \in Seq(NoteType)
  BY DEF TypeInv, RingTypes
<1>5. ASSUME NEW l \in Link
      PROVE  /\ ToSet(rxDial'[l]) \subseteq ToSet(rxDial[l]) \cup {m}
             /\ \A e \in ToSet(rxDial[l]) : e \in ToSet(rxDial'[l]) \/ e.changes \subseteq lostUp'[l]
             /\ From(l) = Home(t) /\ Listening(l) => m \in ToSet(rxDial'[l])
             /\ lostUp[l] \subseteq lostUp'[l]
  <2>1. CASE From(l) = Home(t) /\ Listening(l)
    <3>1. rxDial'[l] = Enqueue(rxDial[l], m) /\ lostUp'[l] = lostUp[l] \cup Overrun(rxDial[l])
      BY <1>2, <1>3, <2>1
    <3> QED BY <1>1, <1>4, <3>1, EnqueueRange
  <2>2. CASE ~(From(l) = Home(t) /\ Listening(l))
    BY <1>2, <1>3, <2>2
  <2> QED BY <2>1, <2>2
<1>6. ASSUME NEW l \in Link
      PROVE  /\ ToSet(rxServe'[l]) \subseteq ToSet(rxServe[l]) \cup {m}
             /\ \A e \in ToSet(rxServe[l]) : e \in ToSet(rxServe'[l]) \/ e.changes \subseteq lostDown'[l]
             /\ To(l) = Home(t) /\ Receiving(l) =>
                  /\ m \in ToSet(rxServe'[l])
                  /\ as[l] \in subs[Home(t)] \/ job[t].changes \subseteq lostDown'[l]
             /\ lostDown[l] \subseteq lostDown'[l]
  <2>1. CASE To(l) = Home(t) /\ Receiving(l)
    <3>1. /\ rxServe'[l] = Enqueue(rxServe[l], m)
          /\ lostDown'[l] = lostDown[l] \cup Overrun(rxServe[l])
                              \cup (IF as[l] \in subs[Home(t)] THEN {} ELSE m.changes)
      BY <1>2, <1>3, <2>1
    <3> QED BY <1>1, <1>4, <3>1, EnqueueRange
  <2>2. CASE ~(To(l) = Home(t) /\ Receiving(l))
    BY <1>2, <1>3, <2>2
  <2> QED BY <2>1, <2>2
<1> QED BY <1>1, <1>5, <1>6 DEF m

-----------------------------------------------------------------------------
(* Only what was made is anywhere. *)

LEMMA WrittenKept ==
  ASSUME OnlyWritten, UNCHANGED <<written, deps>>,
         \A s \in Server : db'[s] \cup client'[s] \subseteq written,
         \A t \in Task : job'[t].changes \subseteq written,
         \A l \in Link :
           /\ \A m \in ToSet(rxDial'[l]) \cup ToSet(rxServe'[l]) :
                m \in ToSet(rxDial[l]) \cup ToSet(rxServe[l]) \/ m.changes \subseteq written
           /\ \A m \in ToSet(up'[l]) : m \in ToSet(up[l]) \/ m.type # "push" \/ m.changes \subseteq written
           /\ \A m \in ToSet(down'[l]) :
                m \in ToSet(down[l]) \/ m.type = "batch" \/ m.changes \subseteq written
  PROVE  OnlyWritten'
<1>1. \A x \in Change' : deps'[x] \subseteq written
  BY DEF OnlyWritten, Change
<1>2. ASSUME NEW l \in Link
      PROVE  /\ \A m \in ToSet(rxDial'[l]) \cup ToSet(rxServe'[l]) : m.changes \subseteq written
             /\ \A m \in ToSet(up'[l]) : m.type = "push" => m.changes \subseteq written
             /\ \A m \in ToSet(down'[l]) : m.type \in {"sync", "broadcast"} => m.changes \subseteq written
  BY DEF OnlyWritten
<1> QED BY <1>1, <1>2 DEF OnlyWritten

\* A step inside a server.
LEMMA WrittenInside ==
  ASSUME TypeInv, GhostTypes, OnlyWritten, NEW t \in Task, Inside(t)
  PROVE  OnlyWritten'
<1> USE DEF docVars, changeVars, netVars, rxVars
<1>0. Home(t) \in Server /\ job[t].changes \subseteq written
      /\ \A s \in Server : db[s] \cup client[s] \subseteq written
      /\ \A u \in Task : job[u].changes \subseteq written
  BY HomeType DEF OnlyWritten
<1>1. CASE Apply(t)
  <2>1. /\ db' = [db EXCEPT ![Home(t)] = @ \cup job[t].changes]
        /\ job' = [job EXCEPT ![t] = IF @.loud THEN [@ EXCEPT !.step = "applied"] ELSE Idle]
        /\ UNCHANGED <<written, deps, client, rxDial, rxServe, up, down>>
    BY <1>1 DEF Apply, ApplyAndPersist
  <2>2. \A s \in Server : db'[s] \subseteq written
    BY <1>0, <2>1 DEF TypeInv, DataTypes
  <2>3. job'[t].changes \subseteq written
    BY <1>0, <2>1 DEF TypeInv, Job, Idle
  <2>4. \A u \in Task \ {t} : job'[u] = job[u]
    BY <2>1 DEF TypeInv
  <2> QED BY <1>0, <2>1, <2>2, <2>3, <2>4, WrittenKept
<1>2. CASE Broadcast(t)
  <2>1. /\ client' = [client EXCEPT ![Home(t)] = IF Hears(Home(t), NoteOf(t)) THEN @ \cup NoteOf(t).changes ELSE @]
        /\ job' = [job EXCEPT ![t] = Idle]
        /\ UNCHANGED <<written, deps, db, up, down>>
    BY <1>2 DEF Broadcast, NoteOf
  <2>2. NoteOf(t).changes = job[t].changes
    BY DEF NoteOf, Note
  <2>3. \A s \in Server : client'[s] \subseteq written
    BY <1>0, <2>1, <2>2 DEF TypeInv, DataTypes
  <2>4. \A u \in Task : job'[u].changes \subseteq written
    BY <1>0, <2>1 DEF TypeInv, Idle
  <2>5. \A l \in Link : \A m \in ToSet(rxDial'[l]) \cup ToSet(rxServe'[l]) :
          m \in ToSet(rxDial[l]) \cup ToSet(rxServe[l]) \/ m.changes \subseteq written
    <3>1. \A l \in Link : /\ ToSet(rxDial'[l]) \subseteq ToSet(rxDial[l]) \cup {NoteOf(t)}
                          /\ ToSet(rxServe'[l]) \subseteq ToSet(rxServe[l]) \cup {NoteOf(t)}
      BY <1>2, BroadcastRange
    <3> QED BY <1>0, <2>2, <3>1
  <2> QED BY <1>0, <2>1, <2>3, <2>4, <2>5, WrittenKept
<1> QED BY <1>1, <1>2 DEF Inside

\* A step of the task that serves a link.
LEMMA WrittenServe ==
  ASSUME TypeInv, OnlyWritten, NEW l \in Link, Serve(l)
  PROVE  OnlyWritten'
<1> USE DEF docVars, changeVars, netVars, rxVars
<1>0. /\ \A s \in Server : db[s] \cup client[s] \subseteq written
      /\ \A u \in Task : job[u].changes \subseteq written
      /\ To(l) \in Server
  BY Ends DEF OnlyWritten
<1>1. CASE Greet(l) \/ DropRelay(l)
  <2>1. /\ up[l] # <<>> /\ up' = [up EXCEPT ![l] = Tail(@)]
        /\ UNCHANGED <<written, deps, db, client, job, rxDial, rxServe, down>>
    BY <1>1 DEF Greet, DropRelay
  <2>2. \A k \in Link : ToSet(up'[k]) \subseteq ToSet(up[k])
    BY <2>1, TailRange, QueueTypes
  <2> QED BY <1>0, <2>1, <2>2, WrittenKept
<1>2. CASE ServePush(l)
  <2>1. PICK loud :
          /\ up[l] # <<>> /\ Head(up[l]).type = "push" /\ up' = [up EXCEPT ![l] = Tail(@)]
          /\ job' = [job EXCEPT ![<<l, "serve">>] = Push(Head(up[l]).changes, loud)]
          /\ UNCHANGED <<written, deps, db, client, rxDial, rxServe, down>>
    BY <1>2 DEF ServePush
  <2>2. Head(up[l]) \in ToSet(up[l]) /\ \A k \in Link : ToSet(up'[k]) \subseteq ToSet(up[k])
    BY <2>1, TailRange, QueueTypes
  <2>3. Head(up[l]).changes \subseteq written
    BY <2>1, <2>2 DEF OnlyWritten
  <2>4. \A u \in Task : job'[u].changes \subseteq written
    BY <1>0, <2>1, <2>3 DEF TypeInv, Push
  <2> QED BY <1>0, <2>1, <2>2, <2>4, WrittenKept
<1>3. CASE SendSync(l)
  <2> DEFINE m == Msg("sync", Applied(db[To(l)]), FALSE)
  <2>1. SendDown(l, m) /\ UNCHANGED <<written, deps, db, client, job, rxDial, rxServe, up>>
    BY <1>3 DEF SendSync
  <2>2. m \in DownMsg /\ m.changes \subseteq written
    BY <1>0 DEF TypeInv, DataTypes, Applied, Msg, DownMsg
  <2>3. \A k \in Link : \A e \in ToSet(down'[k]) : e \in ToSet(down[k]) \/ e.changes \subseteq written
    BY <2>1, <2>2, SendDownRange
  <2> QED BY <1>0, <2>1, <2>3, WrittenKept
<1>4. CASE ServeBroadcast(l)
  <2> DEFINE h == Head(rxServe[l])
             m == Msg("broadcast", h.changes, h.peer)
  <2>1. /\ rxServe[l] # <<>> /\ rxServe' = [rxServe EXCEPT ![l] = Tail(@)]
        /\ SendDown(l, m) \/ down' = down
        /\ UNCHANGED <<written, deps, db, client, job, rxDial, up>>
    BY <1>4 DEF ServeBroadcast
  <2>2. /\ h \in NoteType /\ h \in ToSet(rxServe[l])
        /\ \A k \in Link : ToSet(rxServe'[k]) \subseteq ToSet(rxServe[k])
    BY <2>1, TailRange, QueueTypes
  <2>3. m \in DownMsg /\ m.changes \subseteq written
    BY <2>2 DEF NoteType, Msg, DownMsg, OnlyWritten
  <2>4. \A k \in Link : \A e \in ToSet(down'[k]) : e \in ToSet(down[k]) \/ e.changes \subseteq written
    BY <2>1, <2>3, SendDownRange
  <2> QED BY <1>0, <2>1, <2>2, <2>4, WrittenKept
<1>5. CASE ServeFrame(l)
  <2> DEFINE m == Msg("batch", Head(exServe[l]), FALSE)
  <2>1. SendDown(l, m) /\ UNCHANGED <<written, deps, db, client, job, rxDial, rxServe, up>>
    BY <1>5 DEF ServeFrame
  <2>2. m \in DownMsg /\ m.type = "batch"
    BY <1>5, PopType DEF ServeFrame, TypeInv, FrameTypes, Msg, DownMsg
  <2>3. \A k \in Link : \A e \in ToSet(down'[k]) : e \in ToSet(down[k]) \/ e.type = "batch"
    BY <2>1, <2>2, SendDownRange
  <2> QED BY <1>0, <2>1, <2>3, WrittenKept
<1>6. CASE StopServing(l)
  <2>1. /\ rxServe' = [rxServe EXCEPT ![l] = <<>>]
        /\ UNCHANGED <<written, deps, db, client, job, rxDial, up, down>>
    BY <1>6 DEF StopServing
  <2>2. \A k \in Link : ToSet(rxServe'[k]) \subseteq ToSet(rxServe[k])
    BY <2>1, EmptyRange DEF TypeInv, RingTypes
  <2> QED BY <1>0, <2>1, <2>2, WrittenKept
<1> QED BY <1>1, <1>2, <1>3, <1>4, <1>5, <1>6 DEF Serve

\* A step of the task that dials.
LEMMA WrittenDial ==
  ASSUME TypeInv, OnlyWritten, NEW l \in Link, ConnectToPeer(l)
  PROVE  OnlyWritten'
<1> USE DEF docVars, changeVars, netVars, rxVars
<1>0. /\ \A s \in Server : db[s] \cup client[s] \subseteq written
      /\ \A u \in Task : job[u].changes \subseteq written
      /\ From(l) \in Server
  BY Ends DEF OnlyWritten
<1>p. ASSUME down[l] # <<>>, down' = [down EXCEPT ![l] = Tail(@)]
      PROVE  /\ Head(down[l]) \in ToSet(down[l])
             /\ \A k \in Link : ToSet(down'[k]) \subseteq ToSet(down[k])
  BY <1>p, TailRange, QueueTypes
<1>1. CASE Dial(l)
  <2>1. /\ up' = [up EXCEPT ![l] = <<Msg("connect", {}, FALSE)>>]
        /\ UNCHANGED <<written, deps, db, client, job, rxDial, rxServe, down>>
    BY <1>1 DEF Dial
  <2>2. \A k \in Link : \A m \in ToSet(up'[k]) : m \in ToSet(up[k]) \/ m = Msg("connect", {}, FALSE)
    <3>1. ToSet(<<Msg("connect", {}, FALSE)>>) = {Msg("connect", {}, FALSE)}
      BY SingleRange
    <3> QED BY <2>1, <3>1, QueueTypes
  <2>3. Msg("connect", {}, FALSE).type # "push"
    BY DEF Msg
  <2> QED BY <1>0, <2>1, <2>2, <2>3, WrittenKept
<1>2. CASE Listen(l) \/ Lag(l)
  BY <1>0, <1>2, WrittenKept DEF Listen, Lag
<1>3. CASE TakeBroadcast(l)
  <2>1. /\ down[l] # <<>> /\ Head(down[l]).type = "broadcast" /\ down' = [down EXCEPT ![l] = Tail(@)]
        /\ job' = job \/ job' = [job EXCEPT ![<<l, "dial">>] = Push(Head(down[l]).changes, TRUE)]
        /\ UNCHANGED <<written, deps, db, client, rxDial, rxServe, up>>
    BY <1>3 DEF TakeBroadcast, Pop
  <2>2. Head(down[l]).changes \subseteq written
    BY <1>p, <2>1 DEF OnlyWritten
  <2>3. \A u \in Task : job'[u].changes \subseteq written
    BY <1>0, <2>1, <2>2 DEF TypeInv, Push
  <2> QED BY <1>0, <1>p, <2>1, <2>3, WrittenKept
<1>4. CASE TakeSync(l)
  <2>1. /\ down[l] # <<>> /\ Head(down[l]).type = "sync" /\ down' = [down EXCEPT ![l] = Tail(@)]
        /\ db' = [db EXCEPT ![From(l)] = @ \cup Head(down[l]).changes]
        /\ UNCHANGED <<written, deps, client, job, rxDial, rxServe, up>>
    BY <1>4 DEF TakeSync, ApplySync, Pop
  <2>2. Head(down[l]).changes \subseteq written
    BY <1>p, <2>1 DEF OnlyWritten
  <2>3. \A s \in Server : db'[s] \subseteq written
    BY <1>0, <2>1, <2>2 DEF TypeInv, DataTypes
  <2> QED BY <1>0, <1>p, <2>1, <2>3, WrittenKept
<1>5. CASE TakeFrame(l)
  BY <1>0, <1>5, <1>p, WrittenKept DEF TakeFrame, Pop
<1>6. CASE Forward(l)
  <2> DEFINE h == Head(rxDial[l])
             m == Msg("push", h.changes, FALSE)
  <2>1. /\ rxDial[l] # <<>> /\ rxDial' = [rxDial EXCEPT ![l] = Tail(@)]
        /\ up' = up \/ up' = [up EXCEPT ![l] = Append(@, m)]
        /\ UNCHANGED <<written, deps, db, client, job, rxServe, down>>
    BY <1>6 DEF Forward
  <2>2. /\ h \in NoteType /\ h \in ToSet(rxDial[l])
        /\ \A k \in Link : ToSet(rxDial'[k]) \subseteq ToSet(rxDial[k])
    BY <2>1, TailRange, QueueTypes
  <2>3. m \in UpMsg /\ m.changes \subseteq written
    BY <2>2 DEF NoteType, Msg, UpMsg, OnlyWritten
  <2>4. \A k \in Link : \A e \in ToSet(up'[k]) : e \in ToSet(up[k]) \/ e.changes \subseteq written
    <3> HIDE DEF m
    <3>0. up[l] \in Seq(UpMsg)
      BY QueueTypes
    <3>1. ToSet(Append(up[l], m)) = ToSet(up[l]) \cup {m}
      BY <2>3, <3>0, AppendRange
    <3>2. \A k \in Link : ToSet(up'[k]) \subseteq ToSet(up[k]) \cup {m}
      BY <2>1, <3>1, QueueTypes
    <3> QED BY <2>3, <3>2
  <2> QED BY <1>0, <2>1, <2>2, <2>4, WrittenKept
<1>7. CASE ForwardFrame(l)
  <2> DEFINE m == Msg("relay", Head(exDial[l]).frame, FALSE)
  <2>1. /\ up' = up \/ up' = [up EXCEPT ![l] = Append(@, m)]
        /\ UNCHANGED <<written, deps, db, client, job, rxDial, rxServe, down>>
    BY <1>7 DEF ForwardFrame
  <2>2. m \in UpMsg /\ m.type = "relay"
    <3>1. Head(exDial[l]) \in OutFrame
      BY <1>7, PopType DEF ForwardFrame, TypeInv, FrameTypes
    <3> QED BY <3>1 DEF OutFrame, Msg, UpMsg
  <2>3. \A k \in Link : \A e \in ToSet(up'[k]) : e \in ToSet(up[k]) \/ e.type = "relay"
    <3> HIDE DEF m
    <3>0. up[l] \in Seq(UpMsg)
      BY QueueTypes
    <3>1. ToSet(Append(up[l], m)) = ToSet(up[l]) \cup {m}
      BY <2>2, <3>0, AppendRange
    <3>2. \A k \in Link : ToSet(up'[k]) \subseteq ToSet(up[k]) \cup {m}
      BY <2>1, <3>1, QueueTypes
    <3> QED BY <2>2, <3>2
  <2> QED BY <1>0, <2>1, <2>3, WrittenKept
<1>8. CASE HangUp(l)
  <2>1. /\ rxDial' = [rxDial EXCEPT ![l] = <<>>]
        /\ UNCHANGED <<written, deps, db, client, job, rxServe, up, down>>
    BY <1>8 DEF HangUp
  <2>2. \A k \in Link : ToSet(rxDial'[k]) \subseteq ToSet(rxDial[k])
    BY <2>1, EmptyRange DEF TypeInv, RingTypes
  <2> QED BY <1>0, <2>1, <2>2, WrittenKept
<1> QED BY <1>1, <1>2, <1>3, <1>4, <1>5, <1>6, <1>7, <1>8 DEF ConnectToPeer

\* A step of a browser, or a fault.
LEMMA WrittenOutside ==
  ASSUME TypeInv, OnlyWritten, LocalIsSaved, CausalGraph,
         \/ \E s \in Server : \/ Refresh(s) \/ Restart(s) \/ PushLocal(s)
                              \/ \E f \in Frame : SendFrame(s, f)
         \/ \E l \in Link : Break(l)
  PROVE  OnlyWritten'
<1> USE DEF docVars, changeVars, netVars, rxVars
<1>0. /\ \A s \in Server : db[s] \cup client[s] \subseteq written /\ store[s] \subseteq written
      /\ \A u \in Task : job[u].changes \subseteq written
  BY DEF OnlyWritten, LocalIsSaved
<1>1. ASSUME NEW s \in Server, NEW f \in Frame, SendFrame(s, f) PROVE OnlyWritten'
  BY <1>0, <1>1, WrittenKept DEF SendFrame
<1>2. ASSUME NEW s \in Server, Refresh(s) PROVE OnlyWritten'
  <2>1. \A r \in Server : client'[r] \subseteq written
    BY <1>0, <1>2 DEF Refresh, Applied, TypeInv, DataTypes
  <2> QED BY <1>0, <1>2, <2>1, WrittenKept DEF Refresh
<1>3. ASSUME NEW s \in Server, PushLocal(s) PROVE OnlyWritten'
  <2>1. \A u \in Task : job'[u].changes \subseteq written
    BY <1>0, <1>3 DEF PushLocal, Push, TypeInv
  <2> QED BY <1>0, <1>3, <2>1, WrittenKept DEF PushLocal
<1>4. ASSUME NEW s \in Server, Restart(s) PROVE OnlyWritten'
  <2>1. \A r \in Server : db'[r] \cup client'[r] \subseteq written
    BY <1>0, <1>4 DEF Restart, Applied, TypeInv, DataTypes
  <2>2. \A u \in Task : job'[u].changes \subseteq written
    BY <1>0, <1>4 DEF Restart, Idle
  <2>3. \A l \in Link : /\ rxDial'[l] \in {rxDial[l], <<>>} /\ rxServe'[l] \in {rxServe[l], <<>>}
                        /\ up'[l] \in {up[l], <<>>} /\ down'[l] \in {down[l], <<>>}
    BY <1>4 DEF Restart
  <2>4. ToSet(<<>>) = {}
    BY EmptyRange
  <2>5. \A l \in Link : /\ ToSet(rxDial'[l]) \subseteq ToSet(rxDial[l])
                        /\ ToSet(rxServe'[l]) \subseteq ToSet(rxServe[l])
                        /\ ToSet(up'[l]) \subseteq ToSet(up[l]) /\ ToSet(down'[l]) \subseteq ToSet(down[l])
    BY <2>3, <2>4
  <2>6. UNCHANGED <<written, deps>>
    BY <1>4 DEF Restart
  <2> QED BY <2>1, <2>2, <2>5, <2>6, WrittenKept
<1>5. ASSUME NEW l \in Link, Break(l) PROVE OnlyWritten'
  <2>1. PICK i \in 0..Len(up[l]), j \in 0..Len(down[l]) :
          /\ up' = [up EXCEPT ![l] = SubSeq(@, 1, i)] /\ down' = [down EXCEPT ![l] = SubSeq(@, 1, j)]
          /\ UNCHANGED <<written, deps, db, client, job, rxDial, rxServe>>
    BY <1>5 DEF Break
  <2>2. ToSet(SubSeq(up[l], 1, i)) \subseteq ToSet(up[l]) /\ ToSet(SubSeq(down[l], 1, j)) \subseteq ToSet(down[l])
    BY PrefixRange, QueueTypes
  <2>3. \A k \in Link : ToSet(up'[k]) \subseteq ToSet(up[k]) /\ ToSet(down'[k]) \subseteq ToSet(down[k])
    BY <2>1, <2>2, QueueTypes
  <2> QED BY <1>0, <2>1, <2>3, WrittenKept
<1> QED BY <1>1, <1>2, <1>3, <1>4, <1>5

\* A new change has the next number and builds on what its author shows.
LEMMA GraphWrite ==
  ASSUME TypeInv, OnlyWritten, CausalGraph, NEW s \in Server, NEW x \in Change, Write(s, x)
  PROVE  OnlyWritten' /\ CausalGraph' /\ x \notin written
<1> DEFINE n == Cardinality(written)
<1>1. /\ x = n + 1 /\ written' = written \cup {x} /\ deps' = [deps EXCEPT ![x] = Applied(client[s])]
      /\ client' = [client EXCEPT ![s] = @ \cup {x}]
      /\ UNCHANGED <<db, job, rxDial, rxServe, up, down>>
  BY DEF Write, netVars, rxVars
<1>2. n \in Nat
  <2>1. IsFiniteSet(1..MaxChanges)
    BY FS_Interval, ConstantsOK
  <2>2. IsFiniteSet(written)
    BY <2>1, FS_Subset DEF TypeInv, DataTypes, Change
  <2> QED BY <2>2, FS_CardinalityType
<1>3. written = 1..n
  BY DEF CausalGraph
<1>4. x \notin written
  BY <1>1, <1>2, <1>3
<1>5. written' = 1..Cardinality(written')
  <2>1. written' = 1..(n + 1)
    BY <1>1, <1>2, <1>3
  <2>2. Cardinality(1..(n + 1)) = n + 1
    BY <1>2, FS_Interval
  <2> QED BY <2>1, <2>2
<1> HIDE DEF n
<1>6. deps'[x] = Applied(client[s]) /\ \A y \in Change \ {x} : deps'[y] = deps[y]
  BY <1>1 DEF TypeInv, DataTypes
<1>7. client[s] \subseteq written /\ Applied(client[s]) \subseteq client[s]
  BY DEF OnlyWritten, Applied
<1>8. OnlyWritten'
  <2>1. \A y \in Change : deps'[y] \subseteq written'
    BY <1>1, <1>6, <1>7 DEF OnlyWritten
  <2>2. \A r \in Server : db'[r] \cup client'[r] \subseteq written'
    BY <1>1 DEF OnlyWritten, TypeInv, DataTypes
  <2>3. \A t \in Task : job'[t].changes \subseteq written'
    BY <1>1 DEF OnlyWritten
  <2>4. \A l \in Link :
          /\ \A m \in ToSet(rxDial[l]) \cup ToSet(rxServe[l]) : m.changes \subseteq written'
          /\ \A m \in ToSet(up[l]) : m.type = "push" => m.changes \subseteq written'
          /\ \A m \in ToSet(down[l]) : m.type \in {"sync", "broadcast"} => m.changes \subseteq written'
    BY <1>1 DEF OnlyWritten
  <2> QED BY <1>1, <2>1, <2>2, <2>3, <2>4 DEF OnlyWritten, Change
<1>9. CausalGraph'
  <2>1. ASSUME NEW z \in Change, NEW y \in deps'[z] PROVE deps'[y] \subseteq deps'[z]
    <3>1. y \in written /\ y \in Change /\ y # x
      BY <1>4, <1>6, <1>7, <2>1 DEF OnlyWritten, TypeInv, DataTypes
    <3>2. CASE z # x
      BY <1>6, <2>1, <3>1, <3>2 DEF CausalGraph
    <3>3. CASE z = x
      <4>1. y \in client[s] /\ deps[y] \subseteq client[s]
        BY <1>6, <2>1, <3>3 DEF Applied
      <4>2. \A w \in deps[y] : deps[w] \subseteq deps[y]
        BY <3>1 DEF CausalGraph
      <4>3. deps[y] \subseteq Applied(client[s])
        BY <4>1, <4>2 DEF Applied
      <4> QED BY <1>6, <3>1, <3>3, <4>3
    <3> QED BY <3>2, <3>3
  <2> QED BY <1>5, <2>1 DEF CausalGraph, Change
<1> QED BY <1>4, <1>8, <1>9

\* Every step hands on what was made, and a new change is made of what its author shows.
LEMMA WrittenStep ==
  ASSUME TypeInv, GhostTypes, OnlyWritten, LocalIsSaved, CausalGraph, [Next]_vars
  PROVE  OnlyWritten' /\ CausalGraph'
<1>1. ASSUME UNCHANGED <<written, deps>> PROVE CausalGraph'
  BY <1>1 DEF CausalGraph, Change
<1>2. ASSUME NEW t \in Task, Inside(t) PROVE OnlyWritten' /\ CausalGraph'
  BY <1>1, <1>2, WrittenInside DEF Inside, Apply, Broadcast, changeVars
<1>3. ASSUME NEW l \in Link, Serve(l) PROVE OnlyWritten' /\ CausalGraph'
  BY <1>1, <1>3, WrittenServe DEF Serve, Greet, SendSync, ServePush, DropRelay, ServeBroadcast, ServeFrame,
                                  StopServing, changeVars
<1>4. ASSUME NEW l \in Link, ConnectToPeer(l) PROVE OnlyWritten' /\ CausalGraph'
  BY <1>1, <1>4, WrittenDial DEF ConnectToPeer, Dial, Listen, TakeBroadcast, TakeSync, TakeFrame, Forward, Lag,
                                 ForwardFrame, HangUp, changeVars
<1>5. ASSUME NEW s \in Server, NEW x \in Change, Write(s, x) PROVE OnlyWritten' /\ CausalGraph'
  BY <1>5, GraphWrite
<1>6. ASSUME \/ \E s \in Server : \/ Refresh(s) \/ Restart(s) \/ PushLocal(s)
                                  \/ \E f \in Frame : SendFrame(s, f)
             \/ \E l \in Link : Break(l)
      PROVE  OnlyWritten' /\ CausalGraph'
  <2>1. UNCHANGED <<written, deps>>
    BY <1>6 DEF Refresh, Restart, PushLocal, SendFrame, Break, changeVars
  <2> QED BY <1>1, <1>6, <2>1, WrittenOutside
<1>7. CASE UNCHANGED vars
  <2>1. UNCHANGED <<written, deps, db, client, job, rxDial, rxServe, up, down>>
    BY <1>7 DEF vars, changeVars, docVars, netVars, rxVars
  <2>2. \A s \in Server : db[s] \cup client[s] \subseteq written
    BY DEF OnlyWritten
  <2>3. \A t \in Task : job[t].changes \subseteq written
    BY DEF OnlyWritten
  <2> QED BY <1>1, <2>1, <2>2, <2>3, WrittenKept
<1> QED BY <1>2, <1>3, <1>4, <1>5, <1>6, <1>7 DEF Next, Run

-----------------------------------------------------------------------------
(* What a server saved. *)

\* A step that changes no document, and begins no push of a browser.
LEMMA SavedKept ==
  ASSUME LocalIsSaved, [Next]_vars, UNCHANGED <<db, store, how, deps, client>>,
         \A s \in Server : job'[s] = job[s],
         \A t \in Task : job'[t].step = "applied" => job'[t] = job[t]
  PROVE  LocalIsSaved'
<1>1. \A t : Home(t)' = Home(t)
  BY EndsFixed
<1>2. \A s \in Server : \A t \in Task : Cut(s, t)' => job'[t].changes \subseteq store[s]
  BY <1>1 DEF Cut, LocalIsSaved
<1> QED BY <1>2 DEF LocalIsSaved, Change

\* A push is saved as it is applied, and brings what it builds on or finds it there.
LEMMA SavedApply ==
  ASSUME TypeInv, LocalIsSaved, [Next]_vars, NEW t \in Task, Apply(t)
  PROVE  LocalIsSaved'
<1> DEFINE s == Home(t)
           C == job[t].changes
<1>1. /\ s \in Server /\ C \in SUBSET Change
      /\ db' = [db EXCEPT ![s] = @ \cup C] /\ store' = [store EXCEPT ![s] = db'[s]]
      /\ job' = [job EXCEPT ![t] = IF @.loud THEN [@ EXCEPT !.step = "applied"] ELSE Idle]
      /\ Arrived(s, C, IF t \in Server THEN "client" ELSE t[2])
      /\ UNCHANGED <<deps, client>>
  BY HomeType, JobKept DEF Apply, ApplyAndPersist, TypeInv, changeVars
<1>2. t \in Server => t = s
  BY DEF Home
<1>3. (IF t \in Server THEN "client" ELSE t[2]) \in {"client", "serve", "dial"} /\ (t \notin Server => t[2] # "client")
  BY DEF Task
<1>4. job'[t].changes \subseteq C /\ \A u \in Task \ {t} : job'[u] = job[u]
  BY <1>1 DEF TypeInv, Job, Idle
<1>5. \A u : Home(u)' = Home(u)
  BY EndsFixed
<1> HIDE DEF s, C
<1>6. /\ db'[s] = db[s] \cup C /\ store'[s] = db'[s]
      /\ \A r \in Server \ {s} : db'[r] = db[r] /\ store'[r] = store[r] /\ how'[r] = how[r]
      /\ \A x \in Change : how'[s][x] = IF x \in C /\ how[s][x] = "none"
                                        THEN IF t \in Server THEN "client" ELSE t[2] ELSE how[s][x]
  BY <1>1 DEF Arrived, TypeInv, DataTypes
<1>7. \A r \in Server : db[r] \subseteq db'[r] /\ store[r] \subseteq store'[r]
  BY <1>6 DEF LocalIsSaved
<1>8. \A r \in Server : store'[r] \subseteq db'[r]
  BY <1>6 DEF LocalIsSaved
<1>9. \A r \in Server : \A x \in Change : how'[r][x] # "none" <=> x \in db'[r]
  BY <1>3, <1>6 DEF LocalIsSaved
<1>10. ASSUME NEW r \in Server, NEW x \in Change, how'[r][x] = "client"
       PROVE  deps[x] \cup {x} \subseteq store'[r]
  <2>1. CASE how[r][x] = "client"
    BY <1>7, <2>1 DEF LocalIsSaved
  <2>2. CASE how[r][x] # "client"
    <3>1. r = s /\ x \in C /\ how[s][x] = "none" /\ t \in Server
      BY <1>3, <1>6, <1>10, <2>2
    <3>2. x \notin store[s] /\ x \in job[s].changes
      BY <1>2, <3>1 DEF LocalIsSaved, C
    <3>3. deps[x] \subseteq C \cup db[s]
      BY <1>1, <1>2, <3>1, <3>2 DEF LocalIsSaved, C
    <3> QED BY <1>6, <3>1, <3>3
  <2> QED BY <2>1, <2>2
<1>11. \A r \in Server : \A x \in client[r] \ store'[r] : deps[x] \subseteq client[r]
  BY <1>7 DEF LocalIsSaved
<1>12. ASSUME NEW r \in Server, NEW x \in job'[r].changes \ store'[r]
       PROVE  deps[x] \subseteq job'[r].changes \cup db'[r]
  <2>1. CASE r = t
    BY <1>2, <1>4, <1>6, <1>12, <2>1
  <2>2. CASE r # t
    BY <1>4, <1>7, <1>12, <2>2 DEF LocalIsSaved, Task
  <2> QED BY <2>1, <2>2
<1>13. ASSUME NEW r \in Server, NEW u \in Task, Cut(r, u)' PROVE job'[u].changes \subseteq store'[r]
  <2>1. CASE u = t
    BY <1>4, <1>5, <1>6, <1>13, <2>1 DEF Cut, s
  <2>2. CASE u # t
    BY <1>4, <1>5, <1>7, <1>13, <2>2 DEF Cut, LocalIsSaved
  <2> QED BY <2>1, <2>2
<1> QED BY <1>1, <1>8, <1>9, <1>10, <1>11, <1>12, <1>13 DEF LocalIsSaved, Change

\* A link's task that begins a push touches no other job.
LEMMA PushPut ==
  ASSUME TypeInv, NEW l \in Link, NEW e \in {"dial", "serve"},
         job' = job \/ \E S, loud : job' = [job EXCEPT ![<<l, e>>] = Push(S, loud)]
  PROVE  /\ \A u \in Task : u # <<l, e>> => job'[u] = job[u]
         /\ \A s \in Server : job'[s] = job[s]
         /\ \A t \in Task : job'[t].step = "applied" => job'[t] = job[t]
<1>1. <<l, e>> \in Task /\ <<l, e>> \notin Server
  BY LinkTasks
<1>2. CASE job' = job
  BY <1>2
<1>3. ASSUME NEW S, NEW loud, job' = [job EXCEPT ![<<l, e>>] = Push(S, loud)]
      PROVE  /\ \A u \in Task : u # <<l, e>> => job'[u] = job[u]
             /\ job'[<<l, e>>].step = "extracted"
  <2>1. Push(S, loud).step = "extracted"
    BY DEF Push
  <2> QED BY <1>1, <1>3, <2>1 DEF TypeInv
<1>4. \A s \in Server : s \in Task
  BY DEF Task
<1> QED BY <1>1, <1>2, <1>3, <1>4

\* The premises keep each other: a Sync of the server gives a browser what it builds on,
\* too, and a crash leaves a document that is closed for what browsers pushed.
LEMMA SavedStep ==
  ASSUME TypeInv, OnlyWritten, CausalGraph, LocalIsSaved, [Next]_vars
  PROVE  LocalIsSaved'
<1> USE DEF docVars
<1>e. \A u : Home(u)' = Home(u)
  BY EndsFixed
<1>h. \A s \in Server : s \in Task /\ Home(s) = s
  BY DEF Home, Task
<1>1. ASSUME NEW t \in Task, Broadcast(t) PROVE LocalIsSaved'
  <2>1. /\ job' = [job EXCEPT ![t] = Idle] /\ Home(t) \in Server
        /\ client' = [client EXCEPT ![Home(t)] = IF Hears(Home(t), NoteOf(t)) THEN @ \cup job[t].changes ELSE @]
        /\ UNCHANGED <<db, store, how, deps>>
    BY <1>1, HomeType DEF Broadcast, NoteOf, Note, changeVars
  <2>2. job[t].changes \subseteq store[Home(t)]
    BY <1>1, <2>1 DEF Broadcast, LocalIsSaved, Cut
  <2>3. \A r \in Server : client[r] \subseteq client'[r] /\ client'[r] \ store[r] \subseteq client[r]
    BY <2>1, <2>2 DEF TypeInv, DataTypes
  <2>4. \A u \in Task : job'[u] = job[u] \/ (job'[u] = Idle /\ job'[u].changes = {} /\ job'[u].step # "applied")
    BY <2>1 DEF TypeInv, Idle
  <2>5. \A r \in Server : /\ \A x \in client'[r] \ store[r] : deps[x] \subseteq client'[r]
                          /\ \A x \in job'[r].changes \ store[r] : deps[x] \subseteq job'[r].changes \cup db[r]
    BY <1>h, <2>3, <2>4 DEF LocalIsSaved
  <2>6. \A r \in Server : \A u \in Task : Cut(r, u)' => job'[u].changes \subseteq store[r]
    BY <1>e, <2>4 DEF LocalIsSaved, Cut
  <2> QED BY <2>1, <2>5, <2>6 DEF LocalIsSaved, Change
<1>2. ASSUME NEW s \in Server, PushLocal(s) PROVE LocalIsSaved'
  <2>1. job' = [job EXCEPT ![s] = Push(client[s] \ db[s], TRUE)] /\ UNCHANGED <<db, store, how, deps, client>>
    BY <1>2 DEF PushLocal, changeVars, ghostVars
  <2>2. /\ job'[s].changes = client[s] \ db[s] /\ job'[s].step # "applied"
        /\ \A u \in Task \ {s} : job'[u] = job[u]
    BY <1>h, <2>1 DEF Push, TypeInv
  <2>3. \A r \in Server : \A x \in job'[r].changes \ store[r] : deps[x] \subseteq job'[r].changes \cup db[r]
    BY <1>h, <2>2 DEF LocalIsSaved
  <2>4. \A r \in Server : \A u \in Task : Cut(r, u)' => job'[u].changes \subseteq store[r]
    BY <1>e, <2>2 DEF LocalIsSaved, Cut
  <2> QED BY <2>1, <2>3, <2>4 DEF LocalIsSaved, Change
<1>3. ASSUME NEW l \in Link, Serve(l) PROVE LocalIsSaved'
  <2>1. UNCHANGED <<db, store, how, deps, client>>
    BY <1>3 DEF Serve, Greet, SendSync, ServePush, DropRelay, ServeBroadcast, ServeFrame,
                StopServing, changeVars, ghostVars
  <2>2. job' = job \/ \E S, loud : job' = [job EXCEPT ![<<l, "serve">>] = Push(S, loud)]
    BY <1>3 DEF Serve, Greet, SendSync, ServePush, DropRelay, ServeBroadcast, ServeFrame, StopServing
  <2>3. /\ \A s \in Server : job'[s] = job[s]
        /\ \A t \in Task : job'[t].step = "applied" => job'[t] = job[t]
    BY <2>2, PushPut
  <2> QED BY <2>1, <2>3, SavedKept
<1>4. ASSUME NEW l \in Link, ConnectToPeer(l), ~TakeSync(l) PROVE LocalIsSaved'
  <2>1. UNCHANGED <<db, store, how, deps, client>>
    BY <1>4 DEF ConnectToPeer, Dial, Listen, TakeBroadcast, TakeFrame, Forward, Lag, ForwardFrame, HangUp,
                changeVars, ghostVars
  <2>2. job' = job \/ \E S, loud : job' = [job EXCEPT ![<<l, "dial">>] = Push(S, loud)]
    BY <1>4 DEF ConnectToPeer, Dial, Listen, TakeBroadcast, TakeFrame, Forward, Lag, ForwardFrame, HangUp
  <2>3. /\ \A s \in Server : job'[s] = job[s]
        /\ \A t \in Task : job'[t].step = "applied" => job'[t] = job[t]
    BY <2>2, PushPut
  <2> QED BY <2>1, <2>3, SavedKept
<1>5. ASSUME NEW l \in Link, TakeSync(l) PROVE LocalIsSaved'
  <2> DEFINE S == Head(down[l]).changes
  <2>1. /\ From(l) \in Server /\ db' = [db EXCEPT ![From(l)] = @ \cup S]
        /\ how' = [how EXCEPT ![From(l)] = [x \in Change |->
                     IF x \in S /\ how[From(l)][x] = "none" THEN "sync" ELSE how[From(l)][x]]]
        /\ UNCHANGED <<store, deps, client, job>>
    BY <1>5, Ends DEF TakeSync, ApplySync, Arrived, changeVars, TypeInv, DataTypes
  <2> HIDE DEF S
  <2>2. /\ db'[From(l)] = db[From(l)] \cup S
        /\ \A x \in Change : how'[From(l)][x] =
             IF x \in S /\ how[From(l)][x] = "none" THEN "sync" ELSE how[From(l)][x]
        /\ \A r \in Server \ {From(l)} : db'[r] = db[r] /\ how'[r] = how[r]
    BY <2>1 DEF TypeInv, DataTypes
  <2>3. \A r \in Server : db[r] \subseteq db'[r]
    BY <2>2
  <2>4. \A r \in Server : \A x \in Change : /\ how'[r][x] # "none" <=> x \in db'[r]
                                            /\ how'[r][x] = "client" => how[r][x] = "client"
    BY <2>2 DEF LocalIsSaved
  <2>5. \A r \in Server : \A u \in Task : Cut(r, u)' => Cut(r, u)
    BY <1>e, <2>1 DEF Cut
  <2> QED BY <2>1, <2>3, <2>4, <2>5 DEF LocalIsSaved, Change
<1>6. ASSUME NEW s \in Server, NEW x \in Change, Write(s, x) PROVE LocalIsSaved'
  <2>1. /\ deps' = [deps EXCEPT ![x] = Applied(client[s])] /\ client' = [client EXCEPT ![s] = @ \cup {x}]
        /\ UNCHANGED <<db, store, how, job>> /\ x \notin written
    BY <1>6, GraphWrite DEF Write, ghostVars
  <2>2. /\ deps'[x] \subseteq client[s] /\ \A y \in Change \ {x} : deps'[y] = deps[y]
        /\ client'[s] = client[s] \cup {x} /\ \A r \in Server \ {s} : client'[r] = client[r]
    BY <2>1 DEF TypeInv, DataTypes, Applied
  <2>3. \A r \in Server : /\ x \notin db[r] /\ x \notin client[r] /\ x \notin job[r].changes
                          /\ job[r].changes \subseteq Change /\ client[r] \subseteq Change
    BY <1>h, <2>1, JobKept DEF OnlyWritten, TypeInv, DataTypes
  <2>4. \A r \in Server : \A y \in Change : how[r][y] = "client" => deps'[y] \cup {y} \subseteq store[r]
    BY <2>2, <2>3 DEF LocalIsSaved
  <2>5. \A r \in Server : \A y \in client'[r] \ store[r] : deps'[y] \subseteq client'[r]
    BY <2>2, <2>3 DEF LocalIsSaved
  <2>6. \A r \in Server : \A y \in job[r].changes \ store[r] : deps'[y] \subseteq job[r].changes \cup db[r]
    BY <2>2, <2>3 DEF LocalIsSaved
  <2>7. \A r \in Server : \A u \in Task : Cut(r, u)' => Cut(r, u)
    BY <1>e, <2>1 DEF Cut
  <2> QED BY <2>1, <2>4, <2>5, <2>6, <2>7 DEF LocalIsSaved, Change
<1>7. ASSUME NEW s \in Server, Refresh(s) PROVE LocalIsSaved'
  <2>1. client' = [client EXCEPT ![s] = @ \cup Applied(db[s])] /\ UNCHANGED <<db, store, how, deps, job>>
    BY <1>7 DEF Refresh, changeVars, ghostVars
  <2>2. ASSUME NEW x \in Applied(db[s]) PROVE deps[x] \subseteq Applied(db[s])
    <3>1. x \in Change /\ deps[x] \subseteq db[s]
      BY <2>2 DEF Applied, TypeInv, DataTypes
    <3>2. \A y \in deps[x] : deps[y] \subseteq deps[x]
      BY <3>1 DEF CausalGraph
    <3> QED BY <3>1, <3>2 DEF Applied
  <2>3. \A r \in Server : \A x \in client'[r] \ store[r] : deps[x] \subseteq client'[r]
    BY <2>1, <2>2 DEF LocalIsSaved, TypeInv, DataTypes
  <2>4. \A r \in Server : \A u \in Task : Cut(r, u)' => Cut(r, u)
    BY <1>e, <2>1 DEF Cut
  <2> QED BY <2>1, <2>3, <2>4 DEF LocalIsSaved, Change
<1>8. ASSUME NEW s \in Server, Restart(s) PROVE LocalIsSaved'
  <2>1. /\ db' = [db EXCEPT ![s] = store[s]] /\ client' = [client EXCEPT ![s] = @ \cup Applied(store[s])]
        /\ job' = [t \in Task |-> IF Home(t) = s THEN Idle ELSE job[t]]
        /\ how' = [how EXCEPT ![s] = [x \in Change |-> IF x \in store[s] THEN @[x] ELSE "none"]]
        /\ UNCHANGED <<store, deps>>
    BY <1>8 DEF Restart, changeVars
  <2>2. /\ db'[s] = store[s] /\ \A r \in Server \ {s} : db'[r] = db[r] /\ how'[r] = how[r] /\ client'[r] = client[r]
        /\ \A x \in Change : how'[s][x] = IF x \in store[s] THEN how[s][x] ELSE "none"
    BY <2>1 DEF TypeInv, DataTypes
  <2>3. \A r \in Server : client[r] \subseteq client'[r] /\ client'[r] \ store[r] \subseteq client[r]
    BY <2>1 DEF TypeInv, DataTypes, Applied
  <2>4. \A r \in Server : \A x \in Change : /\ how'[r][x] # "none" <=> x \in db'[r]
                                            /\ how'[r][x] = "client" => how[r][x] = "client"
    BY <2>2 DEF LocalIsSaved
  <2>5. Idle.changes = {} /\ Idle.step # "applied"
    BY DEF Idle
  <2>6. \A r \in Server : \A x \in job'[r].changes \ store[r] : deps[x] \subseteq job'[r].changes \cup db'[r]
    BY <1>h, <2>1, <2>2, <2>5 DEF LocalIsSaved
  <2>7. \A r \in Server : \A u \in Task : Cut(r, u)' => Cut(r, u) /\ job'[u] = job[u]
    BY <1>e, <2>1, <2>5 DEF Cut
  <2>8. \A r \in Server : store[r] \subseteq db'[r]
    BY <2>2 DEF LocalIsSaved
  <2>9. \A r \in Server : \A x \in client'[r] \ store[r] : deps[x] \subseteq client'[r]
    BY <2>3 DEF LocalIsSaved
  <2>10. \A r \in Server : \A x \in Change : how'[r][x] = "client" => deps[x] \cup {x} \subseteq store[r]
    BY <2>4 DEF LocalIsSaved
  <2>11. \A r \in Server : \A u \in Task : Cut(r, u)' => job'[u].changes \subseteq store[r]
    BY <2>7 DEF LocalIsSaved
  <2> QED BY <2>1, <2>4, <2>6, <2>8, <2>9, <2>10, <2>11 DEF LocalIsSaved, Change
<1>9. ASSUME UNCHANGED <<db, store, how, deps, client, job>> PROVE LocalIsSaved'
  BY <1>9, SavedKept
<1>10. ASSUME \/ \E s \in Server, f \in Frame : SendFrame(s, f)
              \/ \E l \in Link : Break(l)
              \/ UNCHANGED vars
       PROVE  LocalIsSaved'
  BY <1>9, <1>10 DEF SendFrame, Break, vars, changeVars, ghostVars
<1> QED BY <1>1, <1>2, <1>3, <1>4, <1>5, <1>6, <1>7, <1>8, <1>10, SavedApply DEF Next, Run, Inside

-----------------------------------------------------------------------------
(* Where the pushes of the browsers are. *)

\* A change becomes a browser's own by that browser's push, and by nothing else.
LEMMA ClientOrigin ==
  ASSUME TypeInv, GhostTypes, [Next]_vars, NEW s \in Server, NEW x \in Change, how'[s][x] = "client"
  PROVE  how[s][x] = "client" \/ (Apply(s) /\ x \in job[s].changes)
<1> USE DEF TypeInv, DataTypes
<1>1. ASSUME NEW t \in Task, Apply(t)
      PROVE  how[s][x] = "client" \/ (Apply(s) /\ x \in job[s].changes)
  <2>1. /\ how' = [how EXCEPT ![Home(t)] = [y \in Change |->
                     IF y \in job[t].changes /\ how[Home(t)][y] = "none"
                     THEN IF t \in Server THEN "client" ELSE t[2] ELSE how[Home(t)][y]]]
        /\ Home(t) \in Server
    BY <1>1, HomeType DEF Apply, Arrived
  <2>2. t \notin Server => t[2] # "client"
    BY DEF Task
  <2>3. t \in Server => Home(t) = t
    BY DEF Home
  <2>4. CASE Home(t) # s
    BY <2>1, <2>4
  <2>5. CASE Home(t) = s
    <3>1. how'[s][x] = IF x \in job[t].changes /\ how[s][x] = "none"
                       THEN IF t \in Server THEN "client" ELSE t[2] ELSE how[s][x]
      BY <2>1, <2>5
    <3> QED BY <1>1, <2>2, <2>3, <2>5, <3>1
  <2> QED BY <2>4, <2>5
<1>2. ASSUME NEW l \in Link, TakeSync(l) PROVE how[s][x] = "client"
  <2>1. From(l) \in Server /\ Arrived(From(l), Head(down[l]).changes, "sync")
    BY <1>2, Ends DEF TakeSync
  <2> QED BY <2>1 DEF Arrived
<1>3. ASSUME NEW r \in Server, Restart(r) PROVE how[s][x] = "client"
  BY <1>3 DEF Restart
<1>4. CASE \/ \E t \in Task : Broadcast(t)
           \/ \E r \in Server : PushLocal(r) \/ Refresh(r)
           \/ \E l \in Link : Serve(l) \/ Break(l)
           \/ \E l \in Link : ConnectToPeer(l) /\ ~TakeSync(l)
           \/ \E r \in Server, f \in Frame : SendFrame(r, f)
           \/ \E r \in Server, y \in Change : Write(r, y)
           \/ UNCHANGED vars
  <2>1. how' = how
    BY <1>4 DEF Broadcast, PushLocal, Refresh, Break, SendFrame, Write, Serve, Greet, SendSync, ServePush, DropRelay,
                ServeBroadcast, ServeFrame, StopServing, ConnectToPeer, Dial, Listen, TakeBroadcast, TakeFrame,
                Forward, Lag, ForwardFrame, HangUp, ghostVars, vars
  <2> QED BY <2>1
<1> QED BY <1>1, <1>2, <1>3, <1>4 DEF Next, Run, Inside

\* Such a push goes on to be broadcast.
LEMMA ApplyAirs ==
  ASSUME TypeInv, OwnPushes, NEW s \in Server, NEW x \in Change, Apply(s), x \in job[s].changes
  PROVE  Airing(s, x)'
<1>1. s \in Task /\ job[s] \in Job /\ job[s].loud
  BY DEF TypeInv, OwnPushes, Apply, Task
<1>2. job'[s] = [job[s] EXCEPT !.step = "applied"]
  BY <1>1 DEF Apply, TypeInv
<1> QED BY <1>1, <1>2 DEF Airing, Job

\* It stays so until it is broadcast, or the server dies.
LEMMA AiringKept ==
  ASSUME TypeInv, [Next]_vars, NEW s \in Server, NEW x, Airing(s, x)
  PROVE  Airing(s, x)' \/ Broadcast(s) \/ Restart(s)
<1>0. s \in Task /\ Home(s) = s /\ job[s].step = "applied" /\ job[s].step # "idle"
  BY DEF Airing, Task, Home
<1>k. ASSUME job'[s] = job[s] PROVE Airing(s, x)'
  BY <1>k DEF Airing
<1>1. ASSUME NEW t \in Task, Inside(t) PROVE Airing(s, x)' \/ Broadcast(s)
  <2>1. ASSUME Apply(t) PROVE job'[s] = job[s]
    BY <1>0, <2>1 DEF Apply, TypeInv
  <2>2. ASSUME Broadcast(t), t # s PROVE job'[s] = job[s]
    BY <1>0, <2>2 DEF Broadcast, TypeInv
  <2> QED BY <1>1, <1>k, <2>1, <2>2 DEF Inside
<1>2. ASSUME \/ \E r \in Server : PushLocal(r)
             \/ \E l \in Link : Serve(l) \/ ConnectToPeer(l)
      PROVE  Airing(s, x)'
  BY <1>0, <1>2, <1>k, JobsKept
<1>3. ASSUME NEW r \in Server, Restart(r), r # s PROVE Airing(s, x)'
  BY <1>0, <1>3, <1>k DEF Restart
<1>4. ASSUME \/ \E r \in Server : Refresh(r) \/ \E y \in Change : Write(r, y)
             \/ \E r \in Server, f \in Frame : SendFrame(r, f)
             \/ \E l \in Link : Break(l)
             \/ UNCHANGED vars
      PROVE  Airing(s, x)'
  <2>1. job' = job
    BY <1>4 DEF Refresh, Write, SendFrame, Break, vars
  <2> QED BY <1>k, <2>1
<1> QED BY <1>1, <1>2, <1>3, <1>4 DEF Next, Run

\* The tasks of another link leave this one alone.
LEMMA Elsewhere ==
  ASSUME TypeInv, NEW l \in Link, NEW k \in Link, k # l, Serve(k) \/ ConnectToPeer(k)
  PROVE  /\ sock'[l] = sock[l] /\ dial'[l] = dial[l] /\ serve'[l] = serve[l] /\ as'[l] = as[l]
         /\ up'[l] = up[l] /\ down'[l] = down[l] /\ rxDial'[l] = rxDial[l] /\ rxServe'[l] = rxServe[l]
         /\ job'[<<l, "dial">>] = job[<<l, "dial">>] /\ job'[<<l, "serve">>] = job[<<l, "serve">>]
<1> USE DEF TypeInv, NetTypes, RingTypes, IdTypes, netVars, rxVars, idVars
<1>0. <<l, "dial">> \in Task /\ <<l, "serve">> \in Task
  BY LinkTasks
<1>1. CASE Serve(k)
  <2>1. /\ sock'[l] = sock[l] /\ dial'[l] = dial[l] /\ serve'[l] = serve[l] /\ as'[l] = as[l]
        /\ up'[l] = up[l] /\ down'[l] = down[l]
    BY <1>1 DEF Serve, Greet, SendSync, ServePush, DropRelay, ServeBroadcast, ServeFrame, StopServing, SendDown
  <2>2. rxDial'[l] = rxDial[l] /\ rxServe'[l] = rxServe[l]
    BY <1>1 DEF Serve, Greet, SendSync, ServePush, DropRelay, ServeBroadcast, ServeFrame, StopServing
  <2>3. job' = job \/ \E S, loud : job' = [job EXCEPT ![<<k, "serve">>] = Push(S, loud)]
    BY <1>1 DEF Serve, Greet, SendSync, ServePush, DropRelay, ServeBroadcast, ServeFrame, StopServing
  <2>4. job'[<<l, "dial">>] = job[<<l, "dial">>] /\ job'[<<l, "serve">>] = job[<<l, "serve">>]
    BY <1>0, <2>3, PushPut
  <2> QED BY <2>1, <2>2, <2>4
<1>2. CASE ConnectToPeer(k)
  <2>1. /\ sock'[l] = sock[l] /\ dial'[l] = dial[l] /\ serve'[l] = serve[l] /\ as'[l] = as[l]
        /\ up'[l] = up[l] /\ down'[l] = down[l]
    BY <1>2 DEF ConnectToPeer, Dial, Listen, TakeBroadcast, TakeSync, TakeFrame, Forward, Lag, ForwardFrame,
                HangUp, Pop
  <2>2. rxDial'[l] = rxDial[l] /\ rxServe'[l] = rxServe[l]
    BY <1>2 DEF ConnectToPeer, Dial, Listen, TakeBroadcast, TakeSync, TakeFrame, Forward, Lag, ForwardFrame, HangUp
  <2>3. job' = job \/ \E S, loud : job' = [job EXCEPT ![<<k, "dial">>] = Push(S, loud)]
    BY <1>2 DEF ConnectToPeer, Dial, Listen, TakeBroadcast, TakeSync, TakeFrame, Forward, Lag, ForwardFrame, HangUp
  <2>4. job'[<<l, "dial">>] = job[<<l, "dial">>] /\ job'[<<l, "serve">>] = job[<<l, "serve">>]
    BY <1>0, <2>3, PushPut
  <2> QED BY <2>1, <2>2, <2>4
<1> QED BY <1>1, <1>2

\* A link's tasks take nothing from a document; listening is what a link notes.
LEMMA LinkDocs ==
  ASSUME TypeInv, GhostTypes, NEW s \in Server, NEW l \in Link, NEW k \in Link, k # l, Serve(k) \/ ConnectToPeer(k)
  PROVE  db[s] \subseteq db'[s] /\ before'[l] = before[l]
<1> USE DEF docVars, ghostVars
<1>1. CASE Serve(k)
  BY <1>1 DEF Serve, Greet, SendSync, ServePush, DropRelay, ServeBroadcast, ServeFrame, StopServing
<1>2. CASE TakeSync(k)
  BY <1>2 DEF TakeSync, ApplySync, TypeInv, DataTypes
<1>3. CASE Listen(k)
  BY <1>3 DEF Listen, GhostTypes
<1>4. CASE ConnectToPeer(k) /\ ~TakeSync(k) /\ ~Listen(k)
  BY <1>4 DEF ConnectToPeer, Dial, TakeBroadcast, TakeFrame, Forward, Lag, ForwardFrame, HangUp
<1> QED BY <1>1, <1>2, <1>3, <1>4

\* A document only grows while its server lives.
LEMMA DocsGrow ==
  ASSUME TypeInv, [Next]_vars, NEW s \in Server, ~Restart(s)
  PROVE  db[s] \subseteq db'[s]
<1> USE DEF TypeInv, DataTypes
<1>1. ASSUME NEW t \in Task, Apply(t) PROVE db[s] \subseteq db'[s]
  BY <1>1 DEF Apply, ApplyAndPersist
<1>2. ASSUME NEW l \in Link, TakeSync(l) PROVE db[s] \subseteq db'[s]
  BY <1>2 DEF TakeSync, ApplySync
<1>3. ASSUME NEW r \in Server, Restart(r) PROVE db[s] \subseteq db'[s]
  <2>1. r # s
    BY <1>3
  <2> QED BY <1>3, <2>1 DEF Restart
<1>4. CASE \/ \E t \in Task : Broadcast(t)
           \/ \E r \in Server : PushLocal(r) \/ Refresh(r)
           \/ \E l \in Link : Serve(l) \/ Break(l)
           \/ \E l \in Link : ConnectToPeer(l) /\ ~TakeSync(l)
           \/ \E r \in Server, f \in Frame : SendFrame(r, f)
           \/ \E r \in Server, y \in Change : Write(r, y)
           \/ UNCHANGED vars
  <2>1. db' = db
    BY <1>4 DEF Broadcast, PushLocal, Refresh, Break, SendFrame, Write, Serve, Greet, SendSync, ServePush, DropRelay,
                ServeBroadcast, ServeFrame, StopServing, ConnectToPeer, Dial, Listen, TakeBroadcast, TakeFrame,
                Forward, Lag, ForwardFrame, HangUp, docVars, vars
  <2> QED BY <2>1
<1> QED BY <1>1, <1>2, <1>3, <1>4 DEF Next, Run, Inside

-----------------------------------------------------------------------------
(* On the way down. *)

\* Where no step takes anything from what brings x down, x is still on its way.
LEMMA DownKept ==
  ASSUME NEW l \in Link, NEW x, OnTheWayDown(l, x), From(l)' = From(l), To(l)' = To(l),
         x \in db[From(l)] => x \in db'[From(l)],
         sock[l] = "gone" => sock'[l] = "gone",
         serve[l] \in {"off", "greeted"} => serve'[l] = serve[l],
         Airing(To(l), x) => Airing(To(l), x)',
         as'[l] = as[l],
         ToSet(rxServe[l]) \subseteq ToSet(rxServe'[l]), ToSet(down[l]) \subseteq ToSet(down'[l]),
         job'[<<l, "dial">>] = job[<<l, "dial">>]
  PROVE  OnTheWayDown(l, x)'
<1>1. CASE x \in db[From(l)]
  BY <1>1 DEF OnTheWayDown
<1>2. CASE sock[l] = "gone" \/ serve[l] \in {"off", "greeted"}
  BY <1>2 DEF OnTheWayDown
<1>3. CASE Airing(To(l), x)
  BY <1>3 DEF OnTheWayDown, Airing
<1>4. ASSUME NEW m \in ToSet(rxServe[l]), Wants(l, m), TakesOn(m), x \in m.changes
      PROVE  OnTheWayDown(l, x)'
  BY <1>4 DEF OnTheWayDown, Wants, TakesOn
<1>5. ASSUME NEW m \in ToSet(down[l]), m.type = "sync" \/ (m.type = "broadcast" /\ TakesOn(m)), x \in m.changes
      PROVE  OnTheWayDown(l, x)'
  BY <1>5 DEF OnTheWayDown, TakesOn
<1>6. CASE job[<<l, "dial">>].step = "extracted" /\ x \in job[<<l, "dial">>].changes
  BY <1>6 DEF OnTheWayDown
<1> QED BY <1>1, <1>2, <1>3, <1>4, <1>5, <1>6 DEF OnTheWayDown

\* A push inside a server.
LEMMA DownInside ==
  ASSUME TypeInv, GhostTypes, [Next]_vars, NEW t \in Task, Inside(t),
         NEW l \in Link, NEW x \in Change, x \in lostDown[l] \/ OnTheWayDown(l, x)
  PROVE  x \in lostDown'[l] \/ OnTheWayDown(l, x)'
<1> USE DEF netVars
<1>0. /\ From(l)' = From(l) /\ To(l)' = To(l) /\ From(l) \in Server /\ To(l) \in Server
      /\ <<l, "dial">> \in Task /\ <<l, "dial">> \notin Server
  BY EndsFixed, Ends, LinkTasks
<1>2. CASE Apply(t)
  <2>1. UNCHANGED <<sock, serve, down, as, rxServe, lostDown>>
    BY <1>2 DEF Apply, rxVars, idVars
  <2>2. /\ Home(t) \in Server /\ db' = [db EXCEPT ![Home(t)] = @ \cup job[t].changes]
        /\ job[t].step = "extracted"
        /\ job' = [job EXCEPT ![t] = IF @.loud THEN [@ EXCEPT !.step = "applied"] ELSE Idle]
    BY <1>2, HomeType DEF Apply, ApplyAndPersist
  <2>3. db[From(l)] \subseteq db'[From(l)]
    BY <1>0, <2>2 DEF TypeInv, DataTypes
  <2>4. Airing(To(l), x) => Airing(To(l), x)'
    BY <1>0, <2>2 DEF Airing, TypeInv, Task
  <2>5. CASE t = <<l, "dial">>
    <3>1. Home(t) = From(l)
      BY <1>0, <2>5 DEF Home
    <3>2. job[t].changes \subseteq db'[From(l)]
      BY <1>0, <2>2, <3>1 DEF TypeInv, DataTypes
    <3>3. CASE x \in job[t].changes
      BY <1>0, <3>2, <3>3 DEF OnTheWayDown
    <3>4. CASE x \notin job[t].changes
      BY <1>0, <2>1, <2>3, <2>4, <2>5, <3>4 DEF OnTheWayDown, Airing, Wants, TakesOn
    <3> QED BY <3>3, <3>4
  <2>6. CASE t # <<l, "dial">>
    <3>1. job'[<<l, "dial">>] = job[<<l, "dial">>]
      BY <1>0, <2>2, <2>6 DEF TypeInv
    <3> QED BY <1>0, <2>1, <2>3, <2>4, <3>1, DownKept
  <2> QED BY <2>5, <2>6
<1>3. CASE Broadcast(t)
  <2>1. UNCHANGED <<sock, serve, down, as, db>>
    BY <1>3 DEF Broadcast, idVars
  <2>2. /\ NoteOf(t).changes = job[t].changes /\ NoteOf(t).via = t /\ NoteOf(t).peer = (t \notin Server)
        /\ NoteOf(t).to = subs[Home(t)]
        /\ \A e \in ToSet(rxServe[l]) : e \in ToSet(rxServe'[l]) \/ e.changes \subseteq lostDown'[l]
        /\ To(l) = Home(t) /\ Receiving(l) =>
             /\ NoteOf(t) \in ToSet(rxServe'[l])
             /\ as[l] \in subs[Home(t)] \/ job[t].changes \subseteq lostDown'[l]
        /\ lostDown[l] \subseteq lostDown'[l]
    BY <1>3, BroadcastRange
  <2>3. job[t].step = "applied" /\ job' = [job EXCEPT ![t] = Idle]
    BY <1>3 DEF Broadcast
  <2>4. job[<<l, "dial">>].step = "extracted" => job'[<<l, "dial">>] = job[<<l, "dial">>]
    BY <1>0, <2>3 DEF TypeInv
  <2>5. CASE Airing(To(l), x) /\ t = To(l)
    <3>1. Home(t) = To(l) /\ t \in Server /\ x \in job[t].changes
      BY <1>0, <2>5 DEF Home, Airing
    <3>2. CASE Receiving(l)
      <4>1. CASE as[l] \in subs[Home(t)]
        <5>1. PICK m \in ToSet(rxServe'[l]) :
                m.via = t /\ m.to = subs[Home(t)] /\ ~m.peer /\ x \in m.changes
          BY <2>2, <3>1, <3>2
        <5>2. t # <<l, "serve">> /\ as'[l] \in m.to
          BY <2>1, <3>1, <4>1, <5>1, LinkTasks
        <5> QED BY <5>1, <5>2 DEF OnTheWayDown, Wants, TakesOn
      <4>2. CASE as[l] \notin subs[Home(t)]
        BY <2>2, <3>1, <3>2, <4>2
      <4> QED BY <4>1, <4>2
    <3>3. CASE ~Receiving(l)
      BY <2>1, <3>3 DEF Receiving, OnTheWayDown
    <3> QED BY <3>2, <3>3
  <2>6. CASE Airing(To(l), x) /\ t # To(l)
    <3>1. job'[To(l)] = job[To(l)]
      BY <1>0, <2>3, <2>6 DEF TypeInv, Task
    <3> QED BY <1>0, <2>6, <3>1 DEF OnTheWayDown, Airing
  <2>7. ASSUME NEW m \in ToSet(rxServe[l]), Wants(l, m), TakesOn(m), x \in m.changes
        PROVE  x \in lostDown'[l] \/ OnTheWayDown(l, x)'
    <3>1. CASE m \in ToSet(rxServe'[l])
      BY <2>1, <2>7, <3>1 DEF OnTheWayDown, Wants, TakesOn
    <3>2. CASE m.changes \subseteq lostDown'[l]
      BY <2>7, <3>2
    <3> QED BY <2>2, <3>1, <3>2
  <2>8. CASE \/ x \in db[From(l)] \/ sock[l] = "gone" \/ serve[l] \in {"off", "greeted"}
             \/ \E m \in ToSet(down[l]) : /\ m.type = "sync" \/ (m.type = "broadcast" /\ TakesOn(m))
                                          /\ x \in m.changes
             \/ job[<<l, "dial">>].step = "extracted" /\ x \in job[<<l, "dial">>].changes
    BY <1>0, <2>1, <2>4, <2>8 DEF OnTheWayDown, TakesOn
  <2> QED BY <2>2, <2>5, <2>6, <2>7, <2>8 DEF OnTheWayDown
<1> QED BY <1>2, <1>3 DEF Inside

\* The task that serves the link.
LEMMA DownServe ==
  ASSUME TypeInv, LocalIsSaved, [Next]_vars, NEW l \in Link, Serve(l),
         NEW x \in Change, how[To(l)][x] = "client", OnTheWayDown(l, x)
  PROVE  OnTheWayDown(l, x)'
<1> USE DEF netVars, rxVars, idVars, docVars
<1>0. /\ From(l)' = From(l) /\ To(l)' = To(l) /\ From(l) \in Server /\ To(l) \in Server
      /\ <<l, "dial">> \in Task /\ <<l, "serve">> \in Task
      /\ sock[l] \in {"open", "gone"}
  BY EndsFixed, Ends, LinkTasks DEF TypeInv, NetTypes
<1>1. UNCHANGED <<db, sock>>
  BY DEF Serve, Greet, SendSync, ServePush, DropRelay, ServeBroadcast, ServeFrame, StopServing
<1>2. job'[<<l, "dial">>] = job[<<l, "dial">>] /\ \A s \in Server : job'[s] = job[s]
  <2>1. job' = job \/ \E S, loud : job' = [job EXCEPT ![<<l, "serve">>] = Push(S, loud)]
    BY DEF Serve, Greet, SendSync, ServePush, DropRelay, ServeBroadcast, ServeFrame, StopServing
  <2> QED BY <1>0, <2>1, PushPut
<1>3. Airing(To(l), x) => Airing(To(l), x)'
  BY <1>0, <1>2 DEF Airing
<1>4. CASE Greet(l)
  BY <1>4 DEF Greet, OnTheWayDown, TypeInv, NetTypes
<1>5. CASE SendSync(l)
  <2> DEFINE m == Msg("sync", Applied(db[To(l)]), FALSE)
  <2>1. m \in DownMsg /\ SendDown(l, m)
    BY <1>0, <1>5 DEF SendSync, TypeInv, DataTypes, Applied, Msg, DownMsg
  <2>2. m.type = "sync" /\ x \in m.changes
    BY <1>0 DEF LocalIsSaved, Applied, Msg
  <2> HIDE DEF m
  <2>3. sock[l] = "open" => m \in ToSet(down'[l])
    BY <2>1, SendDownRange
  <2> QED BY <1>0, <1>1, <2>2, <2>3 DEF OnTheWayDown
<1>6. CASE ServePush(l) \/ DropRelay(l)
  <2>1. UNCHANGED <<serve, as, rxServe, down>>
    BY <1>6 DEF ServePush, DropRelay
  <2> QED BY <1>0, <1>1, <1>2, <1>3, <2>1, DownKept
<1>7. CASE ServeFrame(l)
  <2> DEFINE m == Msg("batch", Head(exServe[l]), FALSE)
  <2>1. m \in DownMsg /\ SendDown(l, m) /\ UNCHANGED <<serve, as, rxServe>>
    BY <1>7, PopType DEF ServeFrame, TypeInv, FrameTypes, Msg, DownMsg
  <2> HIDE DEF m
  <2>2. ToSet(down[l]) \subseteq ToSet(down'[l])
    BY <2>1, SendDownRange
  <2> QED BY <1>0, <1>1, <1>2, <1>3, <2>1, <2>2, DownKept
<1>8. CASE StopServing(l)
  BY <1>1, <1>8 DEF StopServing, OnTheWayDown
<1>9. CASE ServeBroadcast(l)
  <2> DEFINE h == Head(rxServe[l])
             m == Msg("broadcast", h.changes, h.peer)
  <2>1. /\ rxServe[l] # <<>> /\ rxServe' = [rxServe EXCEPT ![l] = Tail(@)]
        /\ IF Wants(l, h) THEN SendDown(l, m) ELSE UNCHANGED down
        /\ UNCHANGED <<serve, as>>
    BY <1>9 DEF ServeBroadcast
  <2>2. rxServe[l] \in Seq(NoteType) /\ rxServe'[l] = Tail(rxServe[l])
    BY <2>1, QueueTypes
  <2>3. h \in NoteType /\ \A e \in ToSet(rxServe[l]) : e = h \/ e \in ToSet(rxServe'[l])
    BY <2>1, <2>2, TailRange, TailCovers
  <2>4. m \in DownMsg /\ m.type = "broadcast" /\ m.changes = h.changes /\ m.peer = h.peer
    BY <2>3 DEF NoteType, Msg, DownMsg
  <2> HIDE DEF h, m
  <2>5. ToSet(down[l]) \subseteq ToSet(down'[l]) /\ (Wants(l, h) /\ sock[l] = "open" => m \in ToSet(down'[l]))
    BY <2>1, <2>4, SendDownRange
  <2>6. CASE Wants(l, h) /\ TakesOn(h) /\ x \in h.changes
    BY <1>0, <1>1, <2>4, <2>5, <2>6 DEF OnTheWayDown, TakesOn
  <2>7. ASSUME NEW e \in ToSet(rxServe[l]), Wants(l, e), TakesOn(e), x \in e.changes,
               ~(Wants(l, h) /\ TakesOn(h) /\ x \in h.changes)
        PROVE  OnTheWayDown(l, x)'
    BY <2>1, <2>3, <2>7 DEF OnTheWayDown, Wants, TakesOn
  <2>8. CASE ~ \E e \in ToSet(rxServe[l]) : Wants(l, e) /\ TakesOn(e) /\ x \in e.changes
    BY <1>0, <1>1, <1>2, <1>3, <2>1, <2>5, <2>8 DEF OnTheWayDown, TakesOn
  <2> QED BY <2>6, <2>7, <2>8
<1> QED BY <1>4, <1>5, <1>6, <1>7, <1>8, <1>9 DEF Serve

\* The task that dials.
LEMMA DownDial ==
  ASSUME TypeInv, [Next]_vars, NEW l \in Link, ConnectToPeer(l), NEW x \in Change, OnTheWayDown(l, x)
  PROVE  OnTheWayDown(l, x)'
<1> USE DEF netVars, rxVars, idVars, docVars
<1>0. /\ From(l)' = From(l) /\ To(l)' = To(l) /\ From(l) \in Server /\ To(l) \in Server
      /\ <<l, "dial">> \in Task /\ <<l, "serve">> \in Task
  BY EndsFixed, Ends, LinkTasks
<1>1. UNCHANGED <<serve, rxServe>>
  BY DEF ConnectToPeer, Dial, Listen, TakeBroadcast, TakeSync, TakeFrame, Forward, Lag, ForwardFrame, HangUp
<1>2. /\ \A s \in Server : job'[s] = job[s]
      /\ job[<<l, "dial">>].step = "extracted" => job'[<<l, "dial">>] = job[<<l, "dial">>]
  <2>1. job' = job \/ \E S, loud : job' = [job EXCEPT ![<<l, "dial">>] = Push(S, loud)]
    BY DEF ConnectToPeer, Dial, Listen, TakeBroadcast, TakeSync, TakeFrame, Forward, Lag, ForwardFrame, HangUp
  <2>2. job[<<l, "dial">>].step = "extracted" => job'[<<l, "dial">>] = job[<<l, "dial">>]
    BY <1>0, JobsKept
  <2> QED BY <1>0, <2>1, <2>2, PushPut
<1>3. Airing(To(l), x) => Airing(To(l), x)'
  BY <1>0, <1>2 DEF Airing
<1>4. CASE Dial(l)
  BY <1>1, <1>4 DEF Dial, OnTheWayDown
<1>5. CASE HangUp(l)
  BY <1>5 DEF HangUp, OnTheWayDown
<1>6. CASE Listen(l) \/ Forward(l) \/ Lag(l) \/ ForwardFrame(l)
  <2>1. UNCHANGED <<db, sock, as, down, job>>
    BY <1>6 DEF Listen, Forward, Lag, ForwardFrame
  <2> QED BY <1>0, <1>1, <1>2, <1>3, <2>1, DownKept
<1>7. CASE TakeBroadcast(l) \/ TakeSync(l) \/ TakeFrame(l)
  <2> DEFINE h == Head(down[l])
  <2>1. /\ down[l] # <<>> /\ down' = [down EXCEPT ![l] = Tail(@)] /\ job[<<l, "dial">>] = Idle
        /\ UNCHANGED <<sock, as>>
    BY <1>7 DEF TakeBroadcast, TakeSync, TakeFrame, Pop, Dialling
  <2>2. down[l] \in Seq(DownMsg) /\ down'[l] = Tail(down[l])
    BY <2>1, QueueTypes
  <2>3. \A e \in ToSet(down[l]) : e = h \/ e \in ToSet(down'[l])
    BY <2>1, <2>2, TailCovers
  <2>4. db[From(l)] \subseteq db'[From(l)]
    BY <1>0, <1>7 DEF TakeBroadcast, TakeSync, TakeFrame, ApplySync, TypeInv, DataTypes
  <2> HIDE DEF h
  <2>5. ASSUME h.type = "sync" \/ (h.type = "broadcast" /\ TakesOn(h)), x \in h.changes
        PROVE  OnTheWayDown(l, x)'
    <3>1. CASE TakeBroadcast(l)
      <4>1. TakesOn(h) /\ job' = [job EXCEPT ![<<l, "dial">>] = Push(h.changes, TRUE)]
        BY <2>5, <3>1 DEF TakeBroadcast, Pop, h
      <4>2. job'[<<l, "dial">>] = Push(h.changes, TRUE)
        BY <1>0, <4>1 DEF TypeInv
      <4> QED BY <2>5, <4>2 DEF OnTheWayDown, Push
    <3>2. CASE TakeSync(l)
      <4>1. db' = [db EXCEPT ![From(l)] = @ \cup h.changes]
        BY <3>2 DEF TakeSync, ApplySync, h
      <4>2. x \in db'[From(l)]
        BY <1>0, <2>5, <4>1 DEF TypeInv, DataTypes
      <4> QED BY <1>0, <4>2 DEF OnTheWayDown
    <3>3. CASE TakeFrame(l)
      BY <2>5, <3>3 DEF TakeFrame, Pop, h
    <3> QED BY <1>7, <3>1, <3>2, <3>3
  <2>6. ASSUME NEW e \in ToSet(down[l]), e.type = "sync" \/ (e.type = "broadcast" /\ TakesOn(e)), x \in e.changes,
               e # h
        PROVE  OnTheWayDown(l, x)'
    BY <2>3, <2>6 DEF OnTheWayDown, TakesOn
  <2>7. CASE ~ \E e \in ToSet(down[l]) : /\ e.type = "sync" \/ (e.type = "broadcast" /\ TakesOn(e))
                                         /\ x \in e.changes
    <3>1. job[<<l, "dial">>].step # "extracted"
      BY <2>1 DEF Idle
    <3> QED BY <1>0, <1>1, <1>3, <2>1, <2>4, <2>7, <3>1 DEF OnTheWayDown, Wants, TakesOn
  <2> QED BY <2>5, <2>6, <2>7
<1> QED BY <1>4, <1>5, <1>6, <1>7 DEF ConnectToPeer

\* A browser's change is broadcast to the ring of the link, from there into the socket, from
\* there into a push of the server that dialled; a link that is cut off has the next Sync to
\* come.  Only a full ring, or a link without a subscription, drops it, and that is noted.
LEMMA BelowStep ==
  ASSUME TypeInv, GhostTypes, OwnPushes, LocalIsSaved, NothingLostBelow, [Next]_vars
  PROVE  NothingLostBelow'
<1> SUFFICES ASSUME NEW l \in Link, NEW x \in Change, how'[To(l)][x] = "client"
             PROVE  x \in lostDown'[l] \/ OnTheWayDown(l, x)'
  BY EndsFixed DEF NothingLostBelow, Change
<1> USE DEF netVars, rxVars, idVars, docVars
<1>0. /\ From(l)' = From(l) /\ To(l)' = To(l) /\ From(l) \in Server /\ To(l) \in Server
      /\ To(l) \in Task /\ <<l, "dial">> \in Task
  BY EndsFixed, Ends, LinkTasks DEF Task
<1>1. CASE how[To(l)][x] # "client"
  <2>1. Apply(To(l)) /\ x \in job[To(l)].changes
    BY <1>0, <1>1, ClientOrigin
  <2> QED BY <1>0, <2>1, ApplyAirs DEF OnTheWayDown, Airing
<1>2. CASE how[To(l)][x] = "client"
  <2>0. x \in lostDown[l] \/ OnTheWayDown(l, x)
    BY <1>2 DEF NothingLostBelow
  <2>1. ASSUME NEW t \in Task, Inside(t) PROVE x \in lostDown'[l] \/ OnTheWayDown(l, x)'
    BY <2>0, <2>1, DownInside
  <2>2. ASSUME lostDown' = lostDown, OnTheWayDown(l, x) => OnTheWayDown(l, x)'
        PROVE  x \in lostDown'[l] \/ OnTheWayDown(l, x)'
    BY <2>0, <2>2
  <2>3. ASSUME NEW k \in Link, Serve(k) \/ ConnectToPeer(k) PROVE OnTheWayDown(l, x) => OnTheWayDown(l, x)'
    <3>1. CASE k = l
      BY <1>2, <2>3, <3>1, DownServe, DownDial
    <3>2. CASE k # l
      <4>1. /\ sock'[l] = sock[l] /\ serve'[l] = serve[l] /\ as'[l] = as[l]
            /\ down'[l] = down[l] /\ rxServe'[l] = rxServe[l]
            /\ job'[<<l, "dial">>] = job[<<l, "dial">>]
        BY <2>3, <3>2, Elsewhere
      <4>2. db[From(l)] \subseteq db'[From(l)]
        BY <1>0, <2>3, <3>2, LinkDocs
      <4>3. ASSUME Airing(To(l), x) PROVE Airing(To(l), x)'
        <5>1. job[To(l)].step # "idle"
          BY <4>3 DEF Airing
        <5>2. job'[To(l)] = job[To(l)]
          BY <1>0, <2>3, <5>1, JobsKept
        <5> QED BY <1>0, <4>3, <5>2 DEF Airing
      <4> QED BY <1>0, <4>1, <4>2, <4>3, DownKept
    <3> QED BY <3>1, <3>2
  <2>4. ASSUME NEW k \in Link, Serve(k) \/ ConnectToPeer(k) PROVE lostDown' = lostDown
    BY <2>4 DEF Serve, Greet, SendSync, ServePush, DropRelay, ServeBroadcast, ServeFrame, StopServing,
                ConnectToPeer, Dial, Listen, TakeBroadcast, TakeSync, TakeFrame, Forward, Lag, ForwardFrame,
                HangUp, ghostVars
  <2>5. ASSUME NEW s \in Server, Restart(s) PROVE lostDown' = lostDown /\ (OnTheWayDown(l, x) => OnTheWayDown(l, x)')
    <3>1. CASE s \in {From(l), To(l)}
      BY <2>5, <3>1 DEF Restart, OnTheWayDown
    <3>2. CASE s \notin {From(l), To(l)}
      <4>1. Home(To(l)) = To(l) /\ Home(<<l, "dial">>) = From(l)
        BY <1>0, LinkTasks DEF Home
      <4>2. /\ db'[From(l)] = db[From(l)] /\ job'[To(l)] = job[To(l)]
            /\ job'[<<l, "dial">>] = job[<<l, "dial">>]
        BY <1>0, <2>5, <3>2, <4>1 DEF Restart, TypeInv, DataTypes
      <4>3. /\ sock'[l] = sock[l] /\ serve'[l] = serve[l] /\ as'[l] = as[l]
            /\ down'[l] = down[l] /\ rxServe'[l] = rxServe[l]
        BY <2>5, <3>2 DEF Restart
      <4>4. lostDown' = lostDown
        BY <2>5 DEF Restart
      <4> QED BY <1>0, <4>2, <4>3, <4>4, DownKept DEF Airing
    <3> QED BY <3>1, <3>2
  <2>6. ASSUME NEW k \in Link, Break(k) PROVE lostDown' = lostDown /\ (OnTheWayDown(l, x) => OnTheWayDown(l, x)')
    <3>1. sock' = [sock EXCEPT ![k] = "gone"] /\ UNCHANGED <<db, serve, as, rxServe, job, lostDown>>
      BY <2>6 DEF Break
    <3>2. CASE k = l
      BY <3>1, <3>2 DEF OnTheWayDown, TypeInv, NetTypes
    <3>3. CASE k # l
      <4>1. down'[l] = down[l] /\ sock'[l] = sock[l]
        BY <2>6, <3>3 DEF Break, TypeInv, NetTypes
      <4> QED BY <1>0, <3>1, <4>1, DownKept DEF Airing
    <3> QED BY <3>2, <3>3
  <2>7. ASSUME \/ \E s \in Server : Refresh(s) \/ \E y \in Change : Write(s, y)
               \/ \E s \in Server, f \in Frame : SendFrame(s, f)
               \/ UNCHANGED vars
        PROVE  lostDown' = lostDown /\ (OnTheWayDown(l, x) => OnTheWayDown(l, x)')
    <3>1. UNCHANGED <<db, sock, serve, as, down, rxServe, job, lostDown>>
      BY <2>7 DEF Refresh, Write, SendFrame, vars, ghostVars
    <3> QED BY <1>0, <3>1, DownKept DEF Airing
  <2>8. ASSUME NEW s \in Server, PushLocal(s)
        PROVE  lostDown' = lostDown /\ (OnTheWayDown(l, x) => OnTheWayDown(l, x)')
    <3>1. UNCHANGED <<db, sock, serve, as, down, rxServe, lostDown>>
      BY <2>8 DEF PushLocal, ghostVars
    <3>2. \A u \in Task : job[u].step # "idle" => job'[u] = job[u]
      BY <2>8, JobsKept
    <3>3. /\ Airing(To(l), x) => Airing(To(l), x)'
          /\ job'[<<l, "dial">>] = job[<<l, "dial">>]
      BY <1>0, <2>8, <3>2, LinkTasks DEF Airing, PushLocal, TypeInv
    <3> QED BY <1>0, <3>1, <3>3, DownKept
  <2> QED BY <2>1, <2>2, <2>3, <2>4, <2>5, <2>6, <2>7, <2>8 DEF Next, Run
<1> QED BY <1>1, <1>2

-----------------------------------------------------------------------------
(* On the way up. *)

\* What a browser pushed is broadcast, or will be.
LEMMA AiredStep ==
  ASSUME TypeInv, GhostTypes, OwnPushes, LocalIsSaved, NothingLostAbove, [Next]_vars,
         NEW s \in Server, NEW x \in Change, how'[s][x] = "client"
  PROVE  x \in aired'[s] \/ Airing(s, x)'
<1>1. CASE how[s][x] # "client"
  BY <1>1, ClientOrigin, ApplyAirs
<1>2. CASE how[s][x] = "client"
  <2>0. x \in aired[s] \/ Airing(s, x)
    BY <1>2 DEF NothingLostAbove
  <2>1. aired[s] \subseteq aired'[s]
    <3>1. ASSUME NEW t \in Task, Broadcast(t) PROVE aired[s] \subseteq aired'[s]
      BY <3>1 DEF Broadcast, GhostTypes
    <3>2. ASSUME NEW r \in Server, Restart(r) PROVE aired[s] \subseteq aired'[s]
      BY <3>2 DEF Restart, GhostTypes
    <3>3. CASE \/ \E t \in Task : Apply(t)
               \/ \E r \in Server : PushLocal(r) \/ Refresh(r) \/ \E y \in Change : Write(r, y)
               \/ \E l \in Link : Serve(l) \/ ConnectToPeer(l) \/ Break(l)
               \/ \E r \in Server, f \in Frame : SendFrame(r, f)
               \/ UNCHANGED vars
      BY <3>3 DEF Apply, PushLocal, Refresh, Write, Serve, Greet, SendSync, ServePush, DropRelay,
                  ServeBroadcast, ServeFrame, StopServing, ConnectToPeer, Dial, Listen, TakeBroadcast, TakeSync,
                  TakeFrame, Forward, Lag, ForwardFrame, HangUp, Break, SendFrame, ghostVars, vars
    <3> QED BY <3>1, <3>2, <3>3 DEF Next, Run, Inside
  <2>2. CASE Airing(s, x) /\ Broadcast(s)
    <3>1. Home(s) = s /\ x \in job[s].changes
      BY <2>2 DEF Home, Airing
    <3>2. aired' = [aired EXCEPT ![s] = @ \cup job[s].changes]
      BY <2>2, <3>1 DEF Broadcast, Note
    <3> QED BY <3>1, <3>2 DEF GhostTypes
  <2>3. CASE Restart(s)
    <3>1. how'[s][x] = IF x \in store[s] THEN how[s][x] ELSE "none"
      BY <2>3 DEF Restart, TypeInv, DataTypes
    <3>2. x \in store[s] /\ aired' = [aired EXCEPT ![s] = @ \cup store[s]]
      BY <2>3, <3>1 DEF Restart
    <3> QED BY <3>2 DEF GhostTypes
  <2> QED BY <2>0, <2>1, <2>2, <2>3, AiringKept
<1> QED BY <1>1, <1>2

\* Where no step takes anything from what brings x up, x is still on its way.  Of a
\* link that is not connected nothing is asked.
LEMMA UpKept ==
  ASSUME NEW l \in Link, NEW x, OnTheWayUp(l, x), From(l)' = From(l), To(l)' = To(l),
         x \in aired'[From(l)] \/ Airing(From(l), x)',
         x \in db[To(l)] => x \in db'[To(l)],
         sock[l] = "gone" \/ dial[l] # "up" => sock'[l] = "gone" \/ dial'[l] # "up",
         Airing(From(l), x) => Airing(From(l), x)',
         \A m \in ToSet(rxDial[l]) : TakesOn(m) /\ x \in m.changes => m \in ToSet(rxDial'[l]),
         \A m \in ToSet(up[l]) : m.type = "push" => m \in ToSet(up'[l]),
         job'[<<l, "serve">>] = job[<<l, "serve">>]
  PROVE  OnTheWayUp(l, x)'
<1>1. CASE x \in db[To(l)]
  BY <1>1 DEF OnTheWayUp
<1>2. CASE Airing(From(l), x)
  BY <1>2 DEF OnTheWayUp, Airing
<1>3. CASE x \in aired[From(l)] /\ (sock[l] = "gone" \/ dial[l] # "up")
  BY <1>3 DEF OnTheWayUp, Airing
<1>4. ASSUME NEW m \in ToSet(rxDial[l]), TakesOn(m), x \in m.changes PROVE OnTheWayUp(l, x)'
  BY <1>4 DEF OnTheWayUp, TakesOn
<1>5. ASSUME NEW m \in ToSet(up[l]), m.type = "push", x \in m.changes PROVE OnTheWayUp(l, x)'
  BY <1>5 DEF OnTheWayUp
<1>6. CASE job[<<l, "serve">>].step = "extracted" /\ x \in job[<<l, "serve">>].changes
  BY <1>6 DEF OnTheWayUp
<1> QED BY <1>1, <1>2, <1>3, <1>4, <1>5, <1>6 DEF OnTheWayUp

\* A push inside a server.
LEMMA UpInside ==
  ASSUME TypeInv, GhostTypes, [Next]_vars, NEW t \in Task, Inside(t),
         NEW l \in Link, NEW x \in Change, x \in lostUp[l] \/ OnTheWayUp(l, x),
         x \in aired'[From(l)] \/ Airing(From(l), x)'
  PROVE  x \in lostUp'[l] \/ OnTheWayUp(l, x)'
<1> USE DEF netVars
<1>0. /\ From(l)' = From(l) /\ To(l)' = To(l) /\ From(l) \in Server /\ To(l) \in Server
      /\ <<l, "serve">> \in Task /\ <<l, "serve">> \notin Server
  BY EndsFixed, Ends, LinkTasks
<1>1. CASE Apply(t)
  <2>1. UNCHANGED <<sock, dial, up, rxDial, lostUp, aired>>
    BY <1>1 DEF Apply, rxVars
  <2>2. /\ Home(t) \in Server /\ db' = [db EXCEPT ![Home(t)] = @ \cup job[t].changes]
        /\ job[t].step = "extracted"
        /\ job' = [job EXCEPT ![t] = IF @.loud THEN [@ EXCEPT !.step = "applied"] ELSE Idle]
    BY <1>1, HomeType DEF Apply, ApplyAndPersist
  <2>3. db[To(l)] \subseteq db'[To(l)]
    BY <1>0, <2>2 DEF TypeInv, DataTypes
  <2>4. Airing(From(l), x) => Airing(From(l), x)'
    BY <1>0, <2>2 DEF Airing, TypeInv, Task
  <2>5. CASE t = <<l, "serve">> /\ x \in job[t].changes
    <3>1. Home(t) = To(l)
      BY <1>0, <2>5 DEF Home
    <3>2. x \in db'[To(l)]
      BY <1>0, <2>2, <2>5, <3>1 DEF TypeInv, DataTypes
    <3> QED BY <1>0, <3>2 DEF OnTheWayUp
  <2>6. CASE t = <<l, "serve">> /\ x \notin job[t].changes
    BY <1>0, <2>1, <2>3, <2>4, <2>6 DEF OnTheWayUp, Airing, TakesOn
  <2>7. CASE t # <<l, "serve">>
    <3>1. job'[<<l, "serve">>] = job[<<l, "serve">>]
      BY <1>0, <2>2, <2>7 DEF TypeInv
    <3> QED BY <1>0, <2>1, <2>3, <2>4, <3>1, UpKept
  <2> QED BY <2>5, <2>6, <2>7
<1>2. CASE Broadcast(t)
  <2>1. UNCHANGED <<sock, dial, up, db>>
    BY <1>2 DEF Broadcast
  <2>2. /\ NoteOf(t).changes = job[t].changes /\ NoteOf(t).peer = (t \notin Server)
        /\ \A e \in ToSet(rxDial[l]) : e \in ToSet(rxDial'[l]) \/ e.changes \subseteq lostUp'[l]
        /\ From(l) = Home(t) /\ Listening(l) => NoteOf(t) \in ToSet(rxDial'[l])
        /\ lostUp[l] \subseteq lostUp'[l]
    BY <1>2, BroadcastRange
  <2>3. job[t].step = "applied" /\ job' = [job EXCEPT ![t] = Idle] /\ aired[From(l)] \subseteq aired'[From(l)]
    BY <1>2 DEF Broadcast, GhostTypes
  <2>4. job[<<l, "serve">>].step = "extracted" => job'[<<l, "serve">>] = job[<<l, "serve">>]
    BY <1>0, <2>3 DEF TypeInv
  <2>5. CASE Airing(From(l), x) /\ t = From(l)
    <3>1. Home(t) = From(l) /\ t \in Server /\ x \in job[t].changes
      BY <1>0, <2>5 DEF Home, Airing
    <3>2. CASE Listening(l)
      <4>1. PICK m \in ToSet(rxDial'[l]) : ~m.peer /\ x \in m.changes
        BY <2>2, <3>1, <3>2
      <4> QED BY <4>1 DEF OnTheWayUp, TakesOn
    <3>3. CASE ~Listening(l)
      BY <1>0, <2>1, <3>3 DEF Listening, OnTheWayUp, Airing
    <3> QED BY <3>2, <3>3
  <2>6. CASE Airing(From(l), x) /\ t # From(l)
    <3>1. job'[From(l)] = job[From(l)]
      BY <1>0, <2>3, <2>6 DEF TypeInv, Task
    <3> QED BY <1>0, <2>6, <3>1 DEF OnTheWayUp, Airing
  <2>7. ASSUME NEW m \in ToSet(rxDial[l]), TakesOn(m), x \in m.changes
        PROVE  x \in lostUp'[l] \/ OnTheWayUp(l, x)'
    <3>1. CASE m \in ToSet(rxDial'[l])
      BY <2>7, <3>1 DEF OnTheWayUp, TakesOn
    <3>2. CASE m.changes \subseteq lostUp'[l]
      BY <2>7, <3>2
    <3> QED BY <2>2, <3>1, <3>2
  <2>8. CASE \/ x \in db[To(l)]
             \/ x \in aired[From(l)] /\ (sock[l] = "gone" \/ dial[l] # "up")
             \/ \E m \in ToSet(up[l]) : m.type = "push" /\ x \in m.changes
             \/ job[<<l, "serve">>].step = "extracted" /\ x \in job[<<l, "serve">>].changes
    BY <1>0, <2>1, <2>3, <2>4, <2>8 DEF OnTheWayUp
  <2> QED BY <2>2, <2>5, <2>6, <2>7, <2>8 DEF OnTheWayUp
<1> QED BY <1>1, <1>2 DEF Inside

\* The task that serves the link.
LEMMA UpServe ==
  ASSUME TypeInv, [Next]_vars, NEW l \in Link, Serve(l), NEW x \in Change, OnTheWayUp(l, x),
         x \in aired'[From(l)] \/ Airing(From(l), x)'
  PROVE  OnTheWayUp(l, x)'
<1> USE DEF netVars, rxVars, idVars, docVars
<1>0. /\ From(l)' = From(l) /\ To(l)' = To(l) /\ From(l) \in Server /\ To(l) \in Server
      /\ <<l, "dial">> \in Task /\ <<l, "serve">> \in Task
  BY EndsFixed, Ends, LinkTasks
<1>1. UNCHANGED <<db, sock, dial, rxDial, aired>>
  BY DEF Serve, Greet, SendSync, ServePush, DropRelay, ServeBroadcast, ServeFrame, StopServing, ghostVars
<1>2. /\ \A s \in Server : job'[s] = job[s]
      /\ job[<<l, "serve">>].step = "extracted" => job'[<<l, "serve">>] = job[<<l, "serve">>]
  <2>1. job' = job \/ \E S, loud : job' = [job EXCEPT ![<<l, "serve">>] = Push(S, loud)]
    BY DEF Serve, Greet, SendSync, ServePush, DropRelay, ServeBroadcast, ServeFrame, StopServing
  <2>2. job[<<l, "serve">>].step = "extracted" => job'[<<l, "serve">>] = job[<<l, "serve">>]
    BY <1>0, JobsKept
  <2> QED BY <1>0, <2>1, <2>2, PushPut
<1>3. Airing(From(l), x) => Airing(From(l), x)'
  BY <1>0, <1>2 DEF Airing
<1>4. CASE SendSync(l) \/ ServeBroadcast(l) \/ ServeFrame(l) \/ StopServing(l)
  <2>1. UNCHANGED <<up, job>>
    BY <1>4 DEF SendSync, ServeBroadcast, ServeFrame, StopServing
  <2> QED BY <1>0, <1>1, <1>2, <1>3, <2>1, UpKept
<1>5. CASE Greet(l) \/ ServePush(l) \/ DropRelay(l)
  <2> DEFINE h == Head(up[l])
  <2>1. up[l] # <<>> /\ up' = [up EXCEPT ![l] = Tail(@)]
    BY <1>5 DEF Greet, ServePush, DropRelay
  <2>2. up[l] \in Seq(UpMsg) /\ up'[l] = Tail(up[l])
    BY <2>1, QueueTypes
  <2>3. \A e \in ToSet(up[l]) : e = h \/ e \in ToSet(up'[l])
    BY <2>1, <2>2, TailCovers
  <2> HIDE DEF h
  <2>4. ASSUME h.type = "push", x \in h.changes PROVE OnTheWayUp(l, x)'
    <3>1. job' = [job EXCEPT ![<<l, "serve">>] = Push(h.changes, Fresh(db[To(l)], h.changes) # {})]
      BY <1>5, <2>4 DEF Greet, ServePush, DropRelay, h
    <3>2. job'[<<l, "serve">>] = Push(h.changes, Fresh(db[To(l)], h.changes) # {})
      BY <1>0, <3>1 DEF TypeInv
    <3>3. job'[<<l, "serve">>].step = "extracted" /\ x \in job'[<<l, "serve">>].changes
      BY <2>4, <3>2 DEF Push
    <3> QED BY <3>3 DEF OnTheWayUp
  <2>5. ASSUME NEW e \in ToSet(up[l]), e.type = "push", x \in e.changes, e # h PROVE OnTheWayUp(l, x)'
    BY <2>3, <2>5 DEF OnTheWayUp
  <2>6. CASE ~ \E e \in ToSet(up[l]) : e.type = "push" /\ x \in e.changes
    BY <1>0, <1>1, <1>2, <1>3, <2>6 DEF OnTheWayUp, TakesOn
  <2> QED BY <2>4, <2>5, <2>6
<1> QED BY <1>4, <1>5 DEF Serve

\* The task that dials.
LEMMA UpDial ==
  ASSUME TypeInv, GhostTypes, NothingLostAbove, [Next]_vars, NEW l \in Link, ConnectToPeer(l),
         NEW x \in Change, how[From(l)][x] = "client", x \in before[l] \/ OnTheWayUp(l, x),
         x \in aired'[From(l)] \/ Airing(From(l), x)'
  PROVE  x \in before'[l] \/ OnTheWayUp(l, x)'
<1> USE DEF netVars, rxVars, idVars, docVars, ghostVars
<1>0. /\ From(l)' = From(l) /\ To(l)' = To(l) /\ From(l) \in Server /\ To(l) \in Server
      /\ <<l, "dial">> \in Task /\ <<l, "serve">> \in Task
      /\ sock[l] \in {"open", "gone"}
  BY EndsFixed, Ends, LinkTasks DEF TypeInv, NetTypes
<1>1. aired' = aired
  BY DEF ConnectToPeer, Dial, Listen, TakeBroadcast, TakeSync, TakeFrame, Forward, Lag, ForwardFrame, HangUp
<1>2. job'[<<l, "serve">>] = job[<<l, "serve">>] /\ \A s \in Server : job'[s] = job[s]
  <2>1. job' = job \/ \E S, loud : job' = [job EXCEPT ![<<l, "dial">>] = Push(S, loud)]
    BY DEF ConnectToPeer, Dial, Listen, TakeBroadcast, TakeSync, TakeFrame, Forward, Lag, ForwardFrame, HangUp
  <2> QED BY <1>0, <2>1, PushPut
<1>3. Airing(From(l), x) => Airing(From(l), x)'
  BY <1>0, <1>2 DEF Airing
<1>4. CASE Dial(l)
  <2>1. dial'[l] # "up"
    BY <1>4 DEF Dial, TypeInv, NetTypes
  <2> QED BY <1>0, <2>1 DEF OnTheWayUp, Airing
<1>5. CASE HangUp(l)
  BY <1>0, <1>5 DEF HangUp, OnTheWayUp, Airing
<1>6. CASE Listen(l)
  <2>1. before'[l] = aired[From(l)] /\ UNCHANGED <<db, rxDial, up, job>>
    BY <1>6 DEF Listen, GhostTypes
  <2>2. x \in aired[From(l)] \/ Airing(From(l), x)
    BY <1>0 DEF NothingLostAbove, TypeInv
  <2> QED BY <1>0, <1>3, <2>1, <2>2 DEF OnTheWayUp, Airing
<1>7. ASSUME before'[l] = before[l], OnTheWayUp(l, x) => OnTheWayUp(l, x)' PROVE x \in before'[l] \/ OnTheWayUp(l, x)'
  BY <1>7
<1>8. CASE TakeBroadcast(l) \/ TakeSync(l) \/ TakeFrame(l) \/ Lag(l)
  <2>1. UNCHANGED <<sock, dial, up, rxDial, before>>
    BY <1>8 DEF TakeBroadcast, TakeSync, TakeFrame, Lag, Pop
  <2>2. db[To(l)] \subseteq db'[To(l)]
    BY <1>0, <1>8 DEF TakeBroadcast, TakeSync, TakeFrame, Lag, ApplySync, TypeInv, DataTypes
  <2> QED BY <1>0, <1>1, <1>2, <1>3, <1>7, <2>1, <2>2, UpKept
<1>9. CASE ForwardFrame(l)
  <2> DEFINE m == Msg("relay", Head(exDial[l]).frame, FALSE)
  <2>1. /\ up' = up \/ up' = [up EXCEPT ![l] = Append(@, m)]
        /\ UNCHANGED <<db, sock, dial, rxDial, before>>
    BY <1>9 DEF ForwardFrame
  <2>2. m \in UpMsg
    <3>1. Head(exDial[l]) \in OutFrame
      BY <1>9, PopType DEF ForwardFrame, TypeInv, FrameTypes
    <3> QED BY <3>1 DEF OutFrame, Msg, UpMsg
  <2> HIDE DEF m
  <2>3. ToSet(up[l]) \subseteq ToSet(up'[l])
    <3>0. up[l] \in Seq(UpMsg)
      BY QueueTypes
    <3>1. ToSet(Append(up[l], m)) = ToSet(up[l]) \cup {m}
      BY <2>2, <3>0, AppendRange
    <3> QED BY <2>1, <3>1, QueueTypes
  <2> QED BY <1>0, <1>1, <1>2, <1>3, <1>7, <2>1, <2>3, UpKept
<1>10. CASE Forward(l)
  <2> DEFINE h == Head(rxDial[l])
             m == Msg("push", h.changes, FALSE)
  <2>1. /\ rxDial[l] # <<>> /\ rxDial' = [rxDial EXCEPT ![l] = Tail(@)]
        /\ up' = IF TakesOn(h) /\ sock[l] = "open" THEN [up EXCEPT ![l] = Append(@, m)] ELSE up
        /\ UNCHANGED <<db, sock, dial, before, job>>
    BY <1>10 DEF Forward
  <2>2. rxDial[l] \in Seq(NoteType) /\ rxDial'[l] = Tail(rxDial[l]) /\ up[l] \in Seq(UpMsg)
    BY <2>1, QueueTypes
  <2>3. h \in NoteType /\ \A e \in ToSet(rxDial[l]) : e = h \/ e \in ToSet(rxDial'[l])
    BY <2>1, <2>2, TailRange, TailCovers
  <2>4. m \in UpMsg /\ m.type = "push" /\ m.changes = h.changes
    BY <2>3 DEF NoteType, Msg, UpMsg
  <2> HIDE DEF h, m
  <2>5. ToSet(Append(up[l], m)) = ToSet(up[l]) \cup {m}
    BY <2>2, <2>4, AppendRange
  <2>6. ToSet(up[l]) \subseteq ToSet(up'[l]) /\ (TakesOn(h) /\ sock[l] = "open" => m \in ToSet(up'[l]))
    BY <2>1, <2>5, QueueTypes
  <2>7. CASE TakesOn(h) /\ x \in h.changes
    <3>1. CASE sock[l] = "open"
      BY <2>4, <2>6, <2>7, <3>1 DEF OnTheWayUp
    <3>2. CASE sock[l] = "gone"
      BY <1>0, <2>1, <3>2 DEF OnTheWayUp, Airing
    <3> QED BY <1>0, <3>1, <3>2
  <2>8. CASE ~(TakesOn(h) /\ x \in h.changes)
    <3>1. \A e \in ToSet(rxDial[l]) : TakesOn(e) /\ x \in e.changes => e \in ToSet(rxDial'[l])
      BY <2>3, <2>8
    <3> QED BY <1>0, <1>1, <1>2, <1>3, <1>7, <2>1, <2>6, <3>1, UpKept
  <2> QED BY <2>7, <2>8
<1> QED BY <1>4, <1>5, <1>6, <1>8, <1>9, <1>10 DEF ConnectToPeer

\* As below, by the channel of the dialling side and a Push; but a link that was cut off
\* has nothing to come: what was broadcast by the time it listens again is noted as before.
LEMMA AboveStep ==
  ASSUME TypeInv, GhostTypes, OwnPushes, LocalIsSaved, NothingLostAbove, [Next]_vars
  PROVE  NothingLostAbove'
<1>a. \A s \in Server : \A x \in Change : how'[s][x] = "client" => x \in aired'[s] \/ Airing(s, x)'
  BY AiredStep
<1>b. ASSUME NEW l \in Link, NEW x \in Change, how'[From(l)][x] = "client"
      PROVE  x \in before'[l] \cup lostUp'[l] \/ OnTheWayUp(l, x)'
  <2> USE DEF netVars, rxVars, idVars, docVars, ghostVars
  <2>0. /\ From(l)' = From(l) /\ To(l)' = To(l) /\ From(l) \in Server /\ To(l) \in Server
        /\ From(l) \in Task /\ <<l, "serve">> \in Task
    BY EndsFixed, Ends, LinkTasks DEF Task
  <2>1. x \in aired'[From(l)] \/ Airing(From(l), x)'
    BY <1>a, <1>b, <2>0
  <2>2. CASE how[From(l)][x] # "client"
    <3>1. Apply(From(l)) /\ x \in job[From(l)].changes
      BY <1>b, <2>0, <2>2, ClientOrigin
    <3> QED BY <2>0, <3>1, ApplyAirs DEF OnTheWayUp, Airing
  <2>3. CASE how[From(l)][x] = "client"
    <3>0. x \in before[l] \cup lostUp[l] \/ OnTheWayUp(l, x)
      BY <2>3 DEF NothingLostAbove
    <3>1. ASSUME NEW t \in Task, Inside(t) PROVE x \in before'[l] \cup lostUp'[l] \/ OnTheWayUp(l, x)'
      <4>1. before' = before
        BY <3>1 DEF Inside, Apply, Broadcast
      <4>2. lostUp[l] \subseteq lostUp'[l]
        BY <3>1, BroadcastRange DEF Inside, Apply
      <4> QED BY <2>1, <3>0, <3>1, <4>1, <4>2, UpInside
    <3>2. ASSUME before'[l] = before[l], lostUp' = lostUp, OnTheWayUp(l, x) => OnTheWayUp(l, x)'
          PROVE  x \in before'[l] \cup lostUp'[l] \/ OnTheWayUp(l, x)'
      BY <3>0, <3>2
    <3>3. ASSUME NEW k \in Link, Serve(k) \/ ConnectToPeer(k)
          PROVE  x \in before'[l] \cup lostUp'[l] \/ OnTheWayUp(l, x)'
      <4>1. lostUp' = lostUp
        BY <3>3 DEF Serve, Greet, SendSync, ServePush, DropRelay, ServeBroadcast, ServeFrame, StopServing,
                    ConnectToPeer, Dial, Listen, TakeBroadcast, TakeSync, TakeFrame, Forward, Lag, ForwardFrame, HangUp
      <4>2. CASE k = l /\ Serve(l)
        <5>1. before' = before
          BY <4>2 DEF Serve, Greet, SendSync, ServePush, DropRelay, ServeBroadcast, ServeFrame, StopServing
        <5> QED BY <2>1, <3>2, <4>1, <4>2, <5>1, UpServe
      <4>3. CASE k = l /\ ConnectToPeer(l)
        BY <2>1, <2>3, <3>0, <4>1, <4>3, UpDial
      <4>4. CASE k # l
        <5>1. /\ sock'[l] = sock[l] /\ dial'[l] = dial[l] /\ up'[l] = up[l] /\ rxDial'[l] = rxDial[l]
              /\ job'[<<l, "serve">>] = job[<<l, "serve">>]
          BY <3>3, <4>4, Elsewhere
        <5>2. db[To(l)] \subseteq db'[To(l)] /\ before'[l] = before[l]
          BY <2>0, <3>3, <4>4, LinkDocs
        <5>3. ASSUME Airing(From(l), x) PROVE Airing(From(l), x)'
          <6>1. job[From(l)].step # "idle"
            BY <5>3 DEF Airing
          <6>2. job'[From(l)] = job[From(l)]
            BY <2>0, <3>3, <6>1, JobsKept
          <6> QED BY <2>0, <5>3, <6>2 DEF Airing
        <5>4. OnTheWayUp(l, x) => OnTheWayUp(l, x)'
          BY <2>0, <2>1, <5>1, <5>2, <5>3, UpKept
        <5> QED BY <3>2, <4>1, <5>2, <5>4
      <4> QED BY <3>3, <4>2, <4>3, <4>4
    <3>4. ASSUME NEW s \in Server, Restart(s) PROVE OnTheWayUp(l, x) => OnTheWayUp(l, x)'
      <4>1. CASE s \in {From(l), To(l)}
        <5>1. sock'[l] = "gone"
          BY <3>4, <4>1 DEF Restart
        <5> QED BY <2>0, <2>1, <5>1 DEF OnTheWayUp, Airing
      <4>2. CASE s \notin {From(l), To(l)}
        <5>1. Home(From(l)) = From(l) /\ Home(<<l, "serve">>) = To(l)
          BY <2>0, LinkTasks DEF Home
        <5>2. /\ db'[To(l)] = db[To(l)] /\ job'[From(l)] = job[From(l)]
              /\ job'[<<l, "serve">>] = job[<<l, "serve">>]
          BY <2>0, <3>4, <4>2, <5>1 DEF Restart, TypeInv, DataTypes
        <5>3. sock'[l] = sock[l] /\ dial'[l] = dial[l] /\ up'[l] = up[l] /\ rxDial'[l] = rxDial[l]
          BY <3>4, <4>2 DEF Restart
        <5> QED BY <2>0, <2>1, <5>2, <5>3, UpKept DEF Airing
      <4> QED BY <4>1, <4>2
    <3>5. ASSUME NEW k \in Link, Break(k) PROVE OnTheWayUp(l, x) => OnTheWayUp(l, x)'
      <4>1. sock' = [sock EXCEPT ![k] = "gone"] /\ UNCHANGED <<db, dial, rxDial, job>>
        BY <3>5 DEF Break
      <4>2. CASE k = l
        <5>1. sock'[l] = "gone"
          BY <4>1, <4>2 DEF TypeInv, NetTypes
        <5> QED BY <2>0, <2>1, <5>1 DEF OnTheWayUp, Airing
      <4>3. CASE k # l
        <5>1. up'[l] = up[l] /\ sock'[l] = sock[l]
          BY <3>5, <4>3 DEF Break, TypeInv, NetTypes
        <5> QED BY <2>0, <2>1, <4>1, <5>1, UpKept DEF Airing
      <4> QED BY <4>2, <4>3
    <3>6. ASSUME \/ \E s \in Server : Refresh(s) \/ \E y \in Change : Write(s, y)
                 \/ \E s \in Server, f \in Frame : SendFrame(s, f)
                 \/ UNCHANGED vars
          PROVE  OnTheWayUp(l, x) => OnTheWayUp(l, x)'
      <4>1. UNCHANGED <<db, sock, dial, up, rxDial, job>>
        BY <3>6 DEF Refresh, Write, SendFrame, vars
      <4> QED BY <2>0, <2>1, <4>1, UpKept DEF Airing
    <3>7. ASSUME NEW s \in Server, PushLocal(s) PROVE OnTheWayUp(l, x) => OnTheWayUp(l, x)'
      <4>1. UNCHANGED <<db, sock, dial, up, rxDial>>
        BY <3>7 DEF PushLocal
      <4>2. \A u \in Task : job[u].step # "idle" => job'[u] = job[u]
        BY <3>7, JobsKept
      <4>3. /\ Airing(From(l), x) => Airing(From(l), x)'
            /\ job'[<<l, "serve">>] = job[<<l, "serve">>]
        BY <2>0, <3>7, <4>2, LinkTasks DEF Airing, PushLocal, TypeInv
      <4> QED BY <2>0, <2>1, <4>1, <4>3, UpKept
    <3>8. ASSUME \/ \E s \in Server : Restart(s) \/ PushLocal(s) \/ Refresh(s) \/ \E y \in Change : Write(s, y)
                 \/ \E s \in Server, f \in Frame : SendFrame(s, f)
                 \/ \E k \in Link : Break(k)
                 \/ UNCHANGED vars
          PROVE  before' = before /\ lostUp' = lostUp
      BY <3>8 DEF Restart, PushLocal, Refresh, Write, SendFrame, Break, vars
    <3> QED BY <3>1, <3>2, <3>3, <3>4, <3>5, <3>6, <3>7, <3>8 DEF Next, Run
  <2> QED BY <2>2, <2>3
<1> QED BY <1>a, <1>b, EndsFixed DEF NothingLostAbove, Change

-----------------------------------------------------------------------------
(* At rest. *)

\* What is kept by all that servers, links, browsers and failures do.
RestInv ==
  /\ TypeInv /\ GhostTypes /\ OwnPushes /\ Told /\ OnlyWritten /\ CausalGraph /\ LocalIsSaved
  /\ NothingLostBelow /\ NothingLostAbove

\* In the beginning there is nothing to keep.
LEMMA RestInit == Init => RestInv
<1> SUFFICES ASSUME Init PROVE RestInv
  OBVIOUS
<1> USE DEF Init, None
<1>0. TypeInv
  BY TypeInvInit
<1>e. Idle.step = "idle" /\ Idle.changes = {} /\ ToSet(<<>>) = {}
  BY EmptyRange DEF Idle
<1>1. GhostTypes
  BY DEF GhostTypes
<1>s. \A s \in Server : job[s] = Idle
  BY DEF Task
<1>2. OwnPushes
  BY <1>e, <1>s DEF OwnPushes
<1>3. Told
  BY DEF Told
<1>4. OnlyWritten
  BY <1>e DEF OnlyWritten
<1>5. CausalGraph
  <2>1. Cardinality({}) = 0
    BY FS_EmptySet
  <2> QED BY <2>1 DEF CausalGraph
<1>6. LocalIsSaved
  BY <1>e, <1>s DEF LocalIsSaved, Cut
<1>7. \A s \in Server : \A x \in Change : how[s][x] # "client"
  OBVIOUS
<1>8. NothingLostBelow /\ NothingLostAbove
  BY <1>0, <1>7, Ends DEF NothingLostBelow, NothingLostAbove
<1> QED BY <1>0, <1>1, <1>2, <1>3, <1>4, <1>5, <1>6, <1>8 DEF RestInv

\* Every step keeps it.
LEMMA RestNext == RestInv /\ [Next]_vars => RestInv'
BY TypeInvNext, GhostStep, OwnStep, ToldStep, WrittenStep, SavedStep, BelowStep, AboveStep DEF RestInv

\* Whatever servers, links, browsers and failures do, all of this holds together
\* (apply_changes_inner, handle_websocket and connect_to_peer).
THEOREM RestInvCorrect == Spec => []RestInv
BY RestInit, RestNext, PTL DEF Spec

\* At rest a browser lacks of its server only what came without a broadcast
\* (apply_changes_inner and connect_to_peer's Sync arm), however many servers are linked.
THEOREM OnlySilentUntold == Spec => []OnlySilentIsUntold
<1>1. RestInv => OnlySilentIsUntold
  <2> SUFFICES ASSUME RestInv, Quiet, NEW s \in Server, NEW x \in db[s] \ client[s] PROVE x \in silent[s]
    BY DEF OnlySilentIsUntold
  <2>1. \A t \in Task : job[t].step # "applied"
    BY DEF Quiet, Idle
  <2> QED BY <2>1 DEF RestInv, Told, Cut
<1> QED BY <1>1, RestInvCorrect, PTL

\* At rest a server that dialled (connect_to_peer) has all that the browsers of the other
\* server pushed, but for what the broadcast channel of handle_websocket lost.
THEOREM OnlyRelayedMissingBelow == Spec => []OnlyRelayedIsMissingBelow
<1>1. RestInv => OnlyRelayedIsMissingBelow
  <2> SUFFICES ASSUME RestInv, Quiet, NEW l \in Link, NEW x \in db[To(l)] \ db[From(l)],
                      how[To(l)][x] = "client"
               PROVE  x \in lostDown[l]
    BY DEF OnlyRelayedIsMissingBelow
  <2>1. x \in Change /\ To(l) \in Task /\ <<l, "dial">> \in Task
    BY Ends, LinkTasks DEF RestInv, TypeInv, DataTypes, Task
  <2>2. job[To(l)].step = "idle" /\ job[<<l, "dial">>].step = "idle"
    BY <2>1 DEF Quiet, Idle
  <2>3. ToSet(rxServe[l]) = {} /\ ToSet(down[l]) = {}
    BY EmptyRange DEF Quiet
  <2>4. ~OnTheWayDown(l, x)
    BY <2>2, <2>3 DEF OnTheWayDown, Airing, Quiet
  <2> QED BY <2>1, <2>4 DEF RestInv, NothingLostBelow
<1> QED BY <1>1, RestInvCorrect, PTL

\* At rest a server that was dialled has all that the browsers of the other pushed, but
\* for what was broadcast before connect_to_peer listened, lost by its channel, or is held there.
THEOREM OnlyEarlierMissingAbove == Spec => []OnlyEarlierIsMissingAbove
<1>1. RestInv => OnlyEarlierIsMissingAbove
  <2> SUFFICES ASSUME RestInv, Quiet, NEW l \in Link, NEW x \in db[From(l)] \ db[To(l)],
                      how[From(l)][x] = "client", x \notin before[l] \cup lostUp[l]
               PROVE  stalled[l] /\ \E m \in ToSet(rxDial[l]) : x \in m.changes
    BY DEF OnlyEarlierIsMissingAbove
  <2>1. x \in Change /\ From(l) \in Task /\ <<l, "serve">> \in Task
    BY Ends, LinkTasks DEF RestInv, TypeInv, DataTypes, Task
  <2>2. job[From(l)].step = "idle" /\ job[<<l, "serve">>].step = "idle"
    BY <2>1 DEF Quiet, Idle
  <2>3. ToSet(up[l]) = {} /\ (~stalled[l] => ToSet(rxDial[l]) = {})
    BY EmptyRange DEF Quiet
  <2>4. OnTheWayUp(l, x)
    BY <2>1 DEF RestInv, NothingLostAbove
  <2> QED BY <2>2, <2>3, <2>4 DEF OnTheWayUp, Airing, Quiet
<1> QED BY <1>1, RestInvCorrect, PTL
=============================================================================
