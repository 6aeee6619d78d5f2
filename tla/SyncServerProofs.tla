-------------------------- MODULE SyncServerProofs --------------------------
(* Theorems about SyncServer, for every set of clients, connections, changes *)
(* and paths, every channel capacity, and every bound.                       *)
EXTENDS SyncServer, DataLemmas, TLAPS

-----------------------------------------------------------------------------
(* Queues. *)

\* What an overrun drops was in the queue, and nothing else changes but m.
LEMMA EnqueueRange ==
  ASSUME NEW S, NEW s \in Seq(S), NEW m \in S
  PROVE  /\ Enqueue(s, m) \in Seq(S)
         /\ ToSet(Enqueue(s, m)) \subseteq ToSet(s) \cup {m}
         /\ Overrun(s) \subseteq S
<1>1. CASE Len(s) < Cap
  BY <1>1, AppendRange DEF Enqueue, Overrun
<1>2. CASE ~(Len(s) < Cap)
  <2>1. s # <<>>
    BY <1>2, ConstantsOK DEF ConstantsOK
  <2>2. Head(s) \in S /\ Tail(s) \in Seq(S) /\ ToSet(Tail(s)) \subseteq ToSet(s)
    BY <2>1, TailRange
  <2>3. \A t \in Seq(S) : Append(t, m) \in Seq(S) /\ ToSet(Append(t, m)) = ToSet(t) \cup {m}
    BY AppendRange
  <2> QED BY <1>2, <2>2, <2>3 DEF Enqueue, Overrun
<1> QED BY <1>1, <1>2

\* A ring takes the new message, and keeps the others but for the one it drops.
LEMMA EnqueueKeeps ==
  ASSUME NEW S, NEW s \in Seq(S), NEW m \in S
  PROVE  /\ m \in ToSet(Enqueue(s, m))
         /\ \A e \in ToSet(s) : e \in ToSet(Enqueue(s, m)) \/ e \in Overrun(s)
<1>1. CASE Len(s) < Cap
  BY <1>1, AppendRange DEF Enqueue
<1>2. CASE ~(Len(s) < Cap)
  <2>1. s # <<>>
    BY <1>2, ConstantsOK DEF ConstantsOK
  <2>2. Tail(s) \in Seq(S) /\ \A e \in ToSet(s) : e = Head(s) \/ e \in ToSet(Tail(s))
    BY <2>1, TailRange, TailCovers
  <2>3. \A t \in Seq(S) : ToSet(Append(t, m)) = ToSet(t) \cup {m}
    BY AppendRange
  <2> QED BY <1>2, <2>2, <2>3 DEF Enqueue, Overrun
<1> QED BY <1>1, <1>2

-----------------------------------------------------------------------------
(* Documents. *)

\* What takes effect, heads and deltas are parts of the document, and all of a closed one is in effect.
LEMMA DocumentParts ==
  ASSUME NEW S, NEW H
  PROVE  /\ Applied(S) \subseteq S /\ Heads(S) \subseteq S /\ Since(S, H) \subseteq S
         /\ Closed(S) => Applied(S) = S
BY DEF Applied, Heads, Since, Closed

\* A message built from changes has the type of messages, and the parts it was given.
LEMMA MessageTypes ==
  ASSUME NEW t \in {"none", "connect", "push", "sync", "ack", "broadcast"},
         NEW H \in SUBSET Change, NEW S \in SUBSET Change
  PROVE  /\ Msg(t, H, S) \in MsgType
         /\ Msg(t, H, S).type = t /\ Msg(t, H, S).heads = H /\ Msg(t, H, S).changes = S
BY DEF Msg, MsgType

-----------------------------------------------------------------------------
(* Type correctness. *)

\* The message that stands for none carries no changes.
LEMMA NoMsgType == NoMsg \in MsgType /\ NoMsg.changes = {}
BY DEF NoMsg, Msg, MsgType

\* A reply adds at most itself to the frames of its own connection, and moves only its own task.
LEMMA ReplyEffect ==
  ASSUME TypeOK, NEW k \in Conn, NEW m \in MsgType, NEW next \in PcType, Reply(k, m, next)
  PROVE  /\ down' \in [Conn -> Seq(MsgType)] /\ pc' \in [Conn -> PcType]
         /\ pc'[k] \in {next, "closing"}
         /\ \A j \in Conn \ {k} : pc'[j] = pc[j] /\ down'[j] = down[j]
         /\ sock[k] # "open" => down'[k] = down[k]
         /\ ToSet(down'[k]) \subseteq ToSet(down[k]) \cup {m}
<1>1. Append(down[k], m) \in Seq(MsgType) /\ ToSet(Append(down[k], m)) = ToSet(down[k]) \cup {m}
  BY AppendRange DEF TypeOK
<1>2. CASE sock[k] = "open"
  BY <1>1, <1>2 DEF Reply, TypeOK
<1>3. CASE sock[k] # "open"
  BY <1>3 DEF Reply, TypeOK, PcType
<1> QED BY <1>2, <1>3

\* A task that comes to rest forgets its own push only.
LEMMA RestEffect ==
  ASSUME TypeOK, NEW k \in Conn, Rest(k)
  PROVE  /\ arg' \in [Conn -> MsgType] /\ paths' \in [Conn -> SUBSET Topic]
         /\ targets' \in [Conn -> SUBSET Client]
         /\ arg'[k] = NoMsg /\ \A j \in Conn \ {k} : arg'[j] = arg[j]
BY NoMsgType DEF Rest, TypeOK

\* Sending a push adds at most that push to the frames of its own connection.
LEMMA PushType ==
  ASSUME TypeOK, NEW k \in Conn, NEW S \in SUBSET Change, SendPush(k, S)
  PROVE  /\ up' \in [Conn -> Seq(MsgType)]
         /\ \A j \in Conn \ {k} : up'[j] = up[j]
         /\ ToSet(up'[k]) \subseteq ToSet(up[k]) \cup {Msg("push", {}, S)}
         /\ sock[k] # "open" => up' = up
<1>1. Msg("push", {}, S) \in MsgType
  BY MessageTypes
<1>2. /\ Append(up[k], Msg("push", {}, S)) \in Seq(MsgType)
      /\ ToSet(Append(up[k], Msg("push", {}, S))) = ToSet(up[k]) \cup {Msg("push", {}, S)}
  BY <1>1, AppendRange DEF TypeOK
<1> QED BY <1>2 DEF SendPush, TypeOK

\* The steps of the server's tasks keep the types.
LEMMA TypeTask ==
  ASSUME TypeOK, NEW k \in Conn, Task(k)
  PROVE  TypeOK'
<1> USE ConstantsOK DEF ConstantsOK
<1>h. up[k] # <<>> => Head(up[k]) \in MsgType /\ Tail(up[k]) \in Seq(MsgType)
  BY TailRange DEF TypeOK
<1>1. CASE RegisterClient(k)
  BY <1>h, <1>1 DEF RegisterClient, TypeOK, PcType, changeVars, clientVars, ghostVars
<1>2. CASE Subscribe(k)
  BY <1>2 DEF Subscribe, TypeOK, PcType, changeVars, serverVars, netVars, clientVars, ghostVars
<1>3. CASE SendSync(k)
  <2>0. db \subseteq Change
    BY DEF TypeOK
  <2>1. SyncReply(k) \in MsgType
    BY <2>0, DocumentParts, MessageTypes DEF SyncReply
  <2>2. Reply(k, SyncReply(k), "idle") /\ Rest(k)
    BY <1>3 DEF SendSync
  <2>3. down' \in [Conn -> Seq(MsgType)] /\ pc' \in [Conn -> PcType]
    BY <2>1, <2>2, ReplyEffect DEF PcType
  <2> QED BY <1>3, <2>2, <2>3, RestEffect
          DEF SendSync, TypeOK, changeVars, serverVars, clientVars, ghostVars
<1>4. CASE ReceivePush(k)
  <2>1. PICK lost \in SUBSET Contended(Head(up[k]).changes) :
          /\ paths' = [paths EXCEPT ![k] = AffectedPaths(Head(up[k]).changes, lost)]
          /\ shadowed' = shadowed \cup lost
    BY <1>4 DEF ReceivePush
  <2>2. Head(up[k]) \in MsgType /\ Tail(up[k]) \in Seq(MsgType) /\ Head(up[k]).changes \subseteq Change
    BY <1>4, <1>h DEF ReceivePush, MsgType
  <2>3. Fresh(Head(up[k]).changes) \subseteq Change
    BY <2>2 DEF Fresh, Applied, TypeOK
  <2>4. lost \subseteq Change
    BY <2>1, <2>3 DEF Contended
  <2>5. AffectedPaths(Head(up[k]).changes, lost) \subseteq Topic
    BY <2>3 DEF AffectedPaths, Topic
  <2> QED BY <1>4, <2>1, <2>2, <2>4, <2>5
          DEF ReceivePush, TypeOK, PcType, changeVars, serverVars, clientVars
<1>5. CASE Apply(k)
  BY <1>5 DEF Apply, Persist, TypeOK, MsgType, PcType, changeVars, netVars, clientVars, ghostVars
<1>6. CASE ApplyPersistFails(k)
  <2>1. arg[k].changes \subseteq Change
    BY DEF TypeOK, MsgType
  <2>2. Rest(k) /\ pc' = [pc EXCEPT ![k] = "idle"]
    BY <1>6 DEF ApplyPersistFails, GiveUp
  <2>3. missed' \in [Conn -> SUBSET Change]
    BY <1>6, <2>1 DEF ApplyPersistFails, TypeOK
  <2> QED BY <1>6, <2>1, <2>2, <2>3, RestEffect
          DEF ApplyPersistFails, TypeOK, PcType, changeVars, netVars, clientVars
<1>7. CASE PickTargets(k)
  BY <1>7 DEF PickTargets, Subscribers, TypeOK, PcType, changeVars, serverVars, netVars,
              clientVars, ghostVars
<1>8. CASE SendBroadcast(k)
  <2>1. BroadcastOf(k) \in BroadcastType
    BY DEF BroadcastOf, BroadcastType, TypeOK, MsgType
  <2>2. \A j \in Conn : /\ Enqueue(rx[j], BroadcastOf(k)) \in Seq(BroadcastType)
                        /\ Overrun(rx[j]) \subseteq BroadcastType
    BY <2>1, EnqueueRange DEF TypeOK
  <2>3. rx' \in [Conn -> Seq(BroadcastType)]
    BY <1>8, <2>2 DEF SendBroadcast, TypeOK
  <2>4. \A j \in Conn : \A n \in Overrun(rx[j]) : n.changes \subseteq Change
    BY <2>2 DEF BroadcastType
  <2>5. missed' \in [Conn -> SUBSET Change]
    BY <1>8, <2>4 DEF SendBroadcast, TypeOK
  <2> QED BY <1>8, <2>3, <2>5
          DEF SendBroadcast, TypeOK, PcType, changeVars, serverVars, netVars, clientVars
<1>9. CASE SendPushAck(k)
  <2>1. Msg("ack", Heads(db), {}) \in MsgType
    BY DocumentParts, MessageTypes DEF TypeOK
  <2>2. Reply(k, Msg("ack", Heads(db), {}), "idle") /\ Rest(k)
    BY <1>9 DEF SendPushAck
  <2>3. down' \in [Conn -> Seq(MsgType)] /\ pc' \in [Conn -> PcType]
    BY <2>1, <2>2, ReplyEffect DEF PcType
  <2> QED BY <1>9, <2>2, <2>3, RestEffect
          DEF SendPushAck, TypeOK, MsgType, changeVars, serverVars, clientVars
<1>10. CASE ReceiveBroadcast(k)
  <2>1. Head(rx[k]) \in BroadcastType /\ Tail(rx[k]) \in Seq(BroadcastType)
    BY <1>10, TailRange DEF ReceiveBroadcast, TypeOK
  <2>2. Msg("broadcast", {}, Head(rx[k]).changes) \in MsgType
    BY <2>1, MessageTypes DEF BroadcastType
  <2>3. down' \in [Conn -> Seq(MsgType)] /\ pc' \in [Conn -> PcType]
    <3>1. CASE Wants(k, Head(rx[k]))
      BY <1>10, <2>2, <3>1, ReplyEffect DEF ReceiveBroadcast, PcType
    <3>2. CASE ~Wants(k, Head(rx[k]))
      BY <1>10, <3>2 DEF ReceiveBroadcast, TypeOK
    <3> QED BY <3>1, <3>2
  <2> QED BY <1>10, <2>1, <2>3
          DEF ReceiveBroadcast, TypeOK, changeVars, serverVars, clientVars, ghostVars
<1>11. CASE Unregister(k)
  <2>1. Rest(k) /\ <<>> \in Seq(MsgType) /\ <<>> \in Seq(BroadcastType)
    BY <1>11 DEF Unregister
  <2> QED BY <1>11, <2>1, RestEffect
          DEF Unregister, TypeOK, PcType, changeVars, clientVars, ghostVars
<1> QED BY <1>1, <1>2, <1>3, <1>4, <1>5, <1>6, <1>7, <1>8, <1>9, <1>10, <1>11 DEF Task

\* A crash of the server keeps the types.
LEMMA TypeRestart == ASSUME TypeOK, Restart PROVE TypeOK'
<1>1. /\ NoMsg \in MsgType /\ <<>> \in Seq(MsgType) /\ <<>> \in Seq(BroadcastType)
  BY NoMsgType
<1>2. faults' \in 0 .. MaxFaults
  BY ConstantsOK DEF Restart, TypeOK, ConstantsOK
<1> QED BY <1>1, <1>2
        DEF Restart, Load, TypeOK, PcType, changeVars, clientVars

\* The steps of the network on a connection keep the types.
LEMMA TypeConnection ==
  ASSUME TypeOK, NEW k \in Conn, Connect(k) \/ Close(k) \/ NoticeDrop(k) \/ Receive(k)
  PROVE  TypeOK'
<1> USE ConstantsOK DEF ConstantsOK
<1>c. ClientOf[k] \in Client /\ <<>> \in Seq(MsgType)
  OBVIOUS
<1>1. CASE Connect(k)
  <2> DEFINE hello == Msg("connect", IF ClientOf[k] \in Delta THEN Heads(replica[ClientOf[k]]) ELSE {}, {})
  <2>0. replica[ClientOf[k]] \subseteq Change
    BY <1>c DEF TypeOK
  <2>1. hello \in MsgType
    BY <2>0, DocumentParts, MessageTypes
  <2>2. <<hello>> \in Seq(MsgType)
    BY <2>1
  <2>3. up' = [up EXCEPT ![k] = <<hello>>]
    BY <1>1 DEF Connect
  <2>4. up' \in [Conn -> Seq(MsgType)]
    BY <2>2, <2>3 DEF TypeOK
  <2> QED BY <1>1, <1>c, <2>4
          DEF Connect, ForgetSyncedHeads, TypeOK, changeVars, serverVars, taskVars, ghostVars
<1>2. CASE Close(k)
  <2>1. PICK n \in 0 .. Len(up[k]) : up' = [up EXCEPT ![k] = SubSeq(@, 1, n)]
    BY <1>2 DEF Close
  <2>2. SubSeq(up[k], 1, n) \in Seq(MsgType)
    BY PrefixRange DEF TypeOK
  <2> QED BY <1>2, <1>c, <2>1, <2>2
          DEF Close, TypeOK, changeVars, serverVars, taskVars, ghostVars
<1>3. CASE NoticeDrop(k)
  BY <1>3, <1>c DEF NoticeDrop, TypeOK, changeVars, serverVars, taskVars, ghostVars
<1>4. CASE Receive(k)
  <2>1. Head(down[k]) \in MsgType /\ Tail(down[k]) \in Seq(MsgType)
    BY <1>4, TailRange DEF Receive, TypeOK
  <2> QED BY <1>4, <1>c, <2>1
          DEF Receive, TypeOK, MsgType, changeVars, serverVars, taskVars, ghostVars
<1> QED BY <1>1, <1>2, <1>3, <1>4

\* The clients' writes and pushes keep the types.
LEMMA TypeClient ==
  ASSUME TypeOK, NEW c \in Client,
         \/ SyncChanges(c) \/ \E changes \in outbox[c] : Push(c, changes)
         \/ \E x \in Change : SetPath(c, x) \/ SetPathLocal(c, x)
  PROVE  TypeOK'
<1>a. Applied(replica[c]) \subseteq Change /\ current[c] \in Conn \cup {None}
  BY DEF Applied, TypeOK
<1>w. ASSUME NEW x \in Change, Write(c, x)
      PROVE  /\ written' \subseteq Change
             /\ deps' \in [Change -> SUBSET Change]
             /\ replica' \in [Client -> SUBSET Change]
  BY <1>a, <1>w DEF Write, TypeOK
<1>1. ASSUME NEW x \in Change, SetPath(c, x) PROVE TypeOK'
  <2>1. Everything(c, x) \in SUBSET Change
    BY <1>a DEF Everything
  <2>2. Write(c, x) /\ outbox' \in [Client -> SUBSET SUBSET Change]
    BY <1>1, <2>1 DEF SetPath, TypeOK
  <2> QED BY <1>1, <1>w, <2>2 DEF SetPath, TypeOK, serverVars, taskVars, netVars, ghostVars
<1>2. ASSUME NEW x \in Change, SetPathLocal(c, x) PROVE TypeOK'
  <2>1. Write(c, x)
    BY <1>2 DEF SetPathLocal
  <2> QED BY <1>2, <1>w, <2>1 DEF SetPathLocal, TypeOK, serverVars, taskVars, netVars, ghostVars
<1>3. CASE SyncChanges(c)
  <2>1. Unsynced(c) \in SUBSET Change
    BY DocumentParts DEF Unsynced, TypeOK
  <2>2. up' \in [Conn -> Seq(MsgType)]
    BY <1>3, <1>a, <2>1, PushType DEF SyncChanges
  <2> QED BY <1>3, <2>2
          DEF SyncChanges, TypeOK, changeVars, serverVars, taskVars, clientVars, ghostVars
<1>4. ASSUME NEW changes \in outbox[c], Push(c, changes) PROVE TypeOK'
  <2>1. changes \in SUBSET Change /\ outbox' \in [Client -> SUBSET SUBSET Change]
    BY <1>4 DEF Push, TypeOK
  <2>2. up' \in [Conn -> Seq(MsgType)]
    BY <1>4, <1>a, <2>1, PushType DEF Push
  <2> QED BY <1>4, <2>1, <2>2 DEF Push, TypeOK, changeVars, serverVars, taskVars, ghostVars
<1> QED BY <1>1, <1>2, <1>3, <1>4

\* The types are right at the start.
LEMMA TypeInit == Init => TypeOK
BY NoMsgType, ConstantsOK DEF Init, TypeOK, PcType, ConstantsOK

\* No step breaks the types.
LEMMA TypeStep == TypeOK /\ [Next]_vars => TypeOK'
<1> SUFFICES ASSUME TypeOK, [Next]_vars PROVE TypeOK'
  OBVIOUS
<1>1. CASE Next
  BY <1>1, TypeTask, TypeRestart, TypeConnection, TypeClient DEF Next
<1>2. CASE UNCHANGED vars
  BY <1>2 DEF vars, TypeOK, changeVars, serverVars, taskVars, netVars, clientVars, ghostVars
<1> QED BY <1>1, <1>2

\* Every variable keeps its type, whatever the instance.
THEOREM TypeCorrect == Spec => []TypeOK
BY TypeInit, TypeStep, PTL DEF Spec

-----------------------------------------------------------------------------
(* The inductive invariant. *)

\* What a task may do to the messages while the documents, the graph and the
\* image stay as they are: it moves messages that were there, sends clients what
\* the document holds, announces heads of the document, and broadcasts and
\* acknowledges what is stored.
TaskKeeps ==
  /\ UNCHANGED <<changeVars, db, store, replica, synced, current, outbox, sock>>
  /\ acked' \subseteq acked \cup store
  /\ \A k \in Conn :
       /\ arg'[k] \in {arg[k], NoMsg} \cup ToSet(up[k])
       /\ ToSet(up'[k]) \subseteq ToSet(up[k])
       /\ \A m \in ToSet(rx'[k]) \ ToSet(rx[k]) : m.changes \subseteq store
       /\ \A m \in ToSet(down'[k]) \ ToSet(down[k]) :
            sock[k] # "new" /\ m.changes \subseteq written /\ m.heads \subseteq db /\ Below(m.heads) \subseteq db
       /\ sock[k] # "open" => down'[k] = down[k]
       /\ pc'[k] \in {"applied", "picked", "acking"} =>
            pc[k] \in {"applied", "picked", "acking"} /\ arg'[k] = arg[k]

\* A step that changes no document and sends only what the server knows keeps the invariant.
LEMMA TaskKeepsInv ==
  ASSUME ServerInv, TaskKeeps
  PROVE  ServerInv'
<1>0. NoMsg.changes = {}
  BY NoMsgType
<1>1. OnlyWritten'
  BY <1>0 DEF ServerInv, OnlyWritten, StoredWhenApplied, TaskKeeps, changeVars
<1>2. PushesFit'
  BY <1>0 DEF ServerInv, PushesFit, BuiltOnServer, TaskKeeps, changeVars
<1>3. HeadsKnown' /\ UnusedIsEmpty'
  BY DEF ServerInv, HeadsKnown, UnusedIsEmpty, Below, TaskKeeps, changeVars
<1>4. StoredWhenApplied' /\ AckedDurable' /\ BroadcastDurable'
  BY DEF ServerInv, StoredWhenApplied, AckedDurable, BroadcastDurable, TaskKeeps
<1>5. /\ CausalGraph' /\ OwnConnection' /\ OutboxComplete'
      /\ CausallyClosed' /\ SyncedIsOnServer'
  BY DEF ServerInv, CausalGraph, OwnConnection, OutboxComplete, CausallyClosed, Closed, SyncedIsOnServer, InUse, Below,
         TaskKeeps, changeVars
<1> QED BY <1>1, <1>2, <1>3, <1>4, <1>5 DEF ServerInv

\* What the server announces: in a closed document, the heads and everything
\* below them are there.
LEMMA HeadsInside ==
  ASSUME NEW S, Closed(S) PROVE Heads(S) \subseteq S /\ Below(Heads(S)) \subseteq S
BY DEF Heads, Below, Applied, Closed

\* Each step of a task but the two that apply a push is of that kind.
LEMMA TaskStepKeeps ==
  ASSUME TypeOK, ServerInv, NEW k \in Conn,
         Task(k), ~Apply(k), ~ApplyPersistFails(k)
  PROVE  TaskKeeps
<1>0. db \subseteq written /\ store \subseteq written /\ Closed(db)
  BY DEF ServerInv, OnlyWritten, StoredWhenApplied, CausallyClosed
<1>h. up[k] # <<>> => /\ Head(up[k]) \in ToSet(up[k])
                      /\ ToSet(Tail(up[k])) \subseteq ToSet(up[k])
  BY TailRange DEF TypeOK
<1>r. ASSUME NEW H \in SUBSET Change, NEW S \in SUBSET Change, NEW t \in {"sync", "ack", "broadcast"},
             Reply(k, Msg(t, H, S), "idle"),
             S \subseteq written, H \subseteq db, Below(H) \subseteq db
      PROVE  /\ pc'[k] \notin {"applied", "picked", "acking"}
             /\ \A j \in Conn \ {k} : pc'[j] = pc[j]
             /\ \A j \in Conn : sock[j] # "open" => down'[j] = down[j]
             /\ \A j \in Conn : \A m \in ToSet(down'[j]) \ ToSet(down[j]) :
                  /\ sock[j] # "new"
                  /\ m.changes \subseteq written /\ m.heads \subseteq db /\ Below(m.heads) \subseteq db
  <2>1. /\ Msg(t, H, S) \in MsgType
        /\ Msg(t, H, S).heads = H /\ Msg(t, H, S).changes = S
    BY MessageTypes
  <2>2. /\ pc'[k] \in {"idle", "closing"}
        /\ \A j \in Conn \ {k} : pc'[j] = pc[j] /\ down'[j] = down[j]
        /\ sock[k] # "open" => down'[k] = down[k]
        /\ ToSet(down'[k]) \subseteq ToSet(down[k]) \cup {Msg(t, H, S)}
    BY <1>r, <2>1, ReplyEffect DEF PcType
  <2> QED BY <1>r, <2>1, <2>2
<1>1. CASE RegisterClient(k)
  BY <1>1, <1>h DEF RegisterClient, TaskKeeps, TypeOK, changeVars, clientVars, ghostVars
<1>2. CASE Subscribe(k)
  BY <1>2 DEF Subscribe, TaskKeeps, TypeOK, changeVars, serverVars, netVars, clientVars, ghostVars
<1>3. CASE SendSync(k)
  <2>1. /\ Heads(db) \in SUBSET Change /\ Since(db, arg[k].heads) \in SUBSET Change
        /\ Since(db, arg[k].heads) \subseteq db
        /\ Heads(db) \subseteq db /\ Below(Heads(db)) \subseteq db
    BY <1>0, HeadsInside, DocumentParts DEF TypeOK
  <2>2. Reply(k, Msg("sync", Heads(db), Since(db, arg[k].heads)), "idle") /\ Rest(k)
    BY <1>3 DEF SendSync, SyncReply
  <2> QED BY <1>3, <1>0, <1>r, <2>1, <2>2, RestEffect
          DEF SendSync, TaskKeeps, TypeOK, changeVars, serverVars, clientVars, ghostVars
<1>4. CASE ReceivePush(k)
  BY <1>4, <1>h DEF ReceivePush, TaskKeeps, TypeOK, changeVars, serverVars, clientVars
<1>7. CASE PickTargets(k)
  BY <1>7 DEF PickTargets, TaskKeeps, TypeOK, changeVars, serverVars, netVars, clientVars, ghostVars
<1>8. CASE SendBroadcast(k)
  <2>1. BroadcastOf(k) \in BroadcastType /\ BroadcastOf(k).changes \subseteq store
    BY <1>8 DEF SendBroadcast, BroadcastOf, BroadcastType, TypeOK, MsgType, ServerInv, StoredWhenApplied
  <2>2. \A j \in Conn : ToSet(rx'[j]) \subseteq ToSet(rx[j]) \cup {BroadcastOf(k)}
    <3>1. \A j \in Conn : rx[j] \in Seq(BroadcastType)
      BY DEF TypeOK
    <3>2. \A j \in Conn : ToSet(Enqueue(rx[j], BroadcastOf(k))) \subseteq ToSet(rx[j]) \cup {BroadcastOf(k)}
      BY <2>1, <3>1, EnqueueRange
    <3> QED BY <1>8, <3>2 DEF SendBroadcast
  <2> QED BY <1>8, <2>1, <2>2
          DEF SendBroadcast, TaskKeeps, TypeOK, changeVars, serverVars, netVars, clientVars
<1>9. CASE SendPushAck(k)
  <2>1. Heads(db) \in SUBSET Change /\ Heads(db) \subseteq db /\ Below(Heads(db)) \subseteq db
    BY <1>0, HeadsInside DEF TypeOK
  <2>2. Reply(k, Msg("ack", Heads(db), {}), "idle") /\ Rest(k)
    BY <1>9 DEF SendPushAck
  <2>3. arg[k].changes \subseteq store
    BY <1>9 DEF SendPushAck, ServerInv, StoredWhenApplied
  <2>4. /\ pc'[k] \notin {"applied", "picked", "acking"}
        /\ \A j \in Conn \ {k} : pc'[j] = pc[j]
        /\ \A j \in Conn : sock[j] # "open" => down'[j] = down[j]
        /\ \A j \in Conn : \A m \in ToSet(down'[j]) \ ToSet(down[j]) :
             /\ sock[j] # "new"
             /\ m.changes \subseteq written /\ m.heads \subseteq db /\ Below(m.heads) \subseteq db
    BY <1>r, <2>1, <2>2
  <2> QED BY <1>9, <2>2, <2>3, <2>4, RestEffect
          DEF SendPushAck, TaskKeeps, TypeOK, changeVars, serverVars, clientVars
<1>10. CASE ReceiveBroadcast(k)
  <2>1. /\ Head(rx[k]) \in BroadcastType /\ Head(rx[k]) \in ToSet(rx[k])
        /\ ToSet(Tail(rx[k])) \subseteq ToSet(rx[k])
    BY <1>10, TailRange DEF ReceiveBroadcast, TypeOK
  <2>2. /\ Head(rx[k]).changes \in SUBSET Change
        /\ Head(rx[k]).changes \subseteq written
    BY <2>1 DEF BroadcastType, ServerInv, OnlyWritten
  <2>3. Below({}) = {}
    BY DEF Below
  <2>4. CASE Wants(k, Head(rx[k]))
    BY <1>10, <1>r, <2>1, <2>2, <2>3, <2>4
       DEF ReceiveBroadcast, TaskKeeps, TypeOK, changeVars, serverVars, clientVars, ghostVars
  <2>5. CASE ~Wants(k, Head(rx[k]))
    BY <1>10, <2>1, <2>5
       DEF ReceiveBroadcast, TaskKeeps, TypeOK, changeVars, serverVars, clientVars, ghostVars
  <2> QED BY <2>4, <2>5
<1>11. CASE Unregister(k)
  <2>1. Rest(k) /\ ToSet(<<>>) = {}
    BY <1>11, EmptyRange DEF Unregister
  <2> QED BY <1>11, <2>1, RestEffect
          DEF Unregister, TaskKeeps, TypeOK, changeVars, clientVars, ghostVars
<1> QED BY <1>1, <1>2, <1>3, <1>4, <1>7, <1>8, <1>9, <1>10, <1>11 DEF Task

\* A push that fits the document leaves it closed, whether or not it is stored.
LEMMA DocumentGrows ==
  ASSUME ServerInv, NEW S, S \subseteq written, \A x \in S : deps[x] \subseteq S \cup db,
         UNCHANGED <<changeVars, netVars, rx, replica, synced, current, outbox, acked>>,
         db' = db \cup S, store' \in {store, db \cup S},
         \A k \in Conn : /\ arg'[k] \in {arg[k], NoMsg}
                         /\ pc'[k] \in {"applied", "picked", "acking"} =>
                              /\ arg'[k] = arg[k]
                              /\ \/ pc[k] \in {"applied", "picked", "acking"}
                                 \/ arg[k].changes \subseteq store'
  PROVE  ServerInv'
<1>0. NoMsg.changes = {}
  BY NoMsgType
<1>1. OnlyWritten'
  BY <1>0 DEF ServerInv, OnlyWritten, changeVars, netVars
<1>2. PushesFit'
  BY <1>0 DEF ServerInv, PushesFit, BuiltOnServer, changeVars, netVars
<1>3. HeadsKnown' /\ UnusedIsEmpty'
  BY DEF ServerInv, HeadsKnown, UnusedIsEmpty, Below, changeVars, netVars
<1>4. StoredWhenApplied' /\ AckedDurable' /\ BroadcastDurable'
  BY DEF ServerInv, StoredWhenApplied, AckedDurable, BroadcastDurable
<1>5. CausallyClosed'
  BY DEF ServerInv, CausallyClosed, Closed, changeVars
<1>6. CausalGraph' /\ OwnConnection' /\ OutboxComplete' /\ SyncedIsOnServer'
  BY DEF ServerInv, CausalGraph, OwnConnection, OutboxComplete, Closed, SyncedIsOnServer, InUse, Below, changeVars, netVars
<1> QED BY <1>1, <1>2, <1>3, <1>4, <1>5, <1>6 DEF ServerInv

\* Every step of a task keeps the invariant.
LEMMA InvTask == ASSUME TypeOK, ServerInv, NEW k \in Conn, Task(k) PROVE ServerInv'
<1>0. /\ arg[k].changes \subseteq written
      /\ \A x \in arg[k].changes : deps[x] \subseteq arg[k].changes \cup db
  BY DEF ServerInv, OnlyWritten, PushesFit, BuiltOnServer
<1>1. CASE Apply(k)
  <2>1. /\ db' = db \cup arg[k].changes /\ store' = db'
        /\ arg' = arg /\ pc' = [pc EXCEPT ![k] = "applied"]
        /\ UNCHANGED <<changeVars, netVars, rx, replica, synced, current, outbox, acked>>
    BY <1>1 DEF Apply, Persist, clientVars, ghostVars
  <2>2. \A j \in Conn : pc'[j] \in {"applied", "picked", "acking"} =>
          pc[j] \in {"applied", "picked", "acking"} \/ arg[j].changes \subseteq store'
    BY <2>1 DEF TypeOK
  <2> QED BY <1>0, <2>1, <2>2, DocumentGrows
<1>2. CASE ApplyPersistFails(k)
  <2>1. /\ db' = db \cup arg[k].changes /\ store' = store
        /\ Rest(k) /\ pc' = [pc EXCEPT ![k] = "idle"]
        /\ UNCHANGED <<changeVars, netVars, rx, replica, synced, current, outbox, acked>>
    BY <1>2 DEF ApplyPersistFails, GiveUp, clientVars
  <2>2. \A j \in Conn : /\ arg'[j] \in {arg[j], NoMsg}
                        /\ pc'[j] \in {"applied", "picked", "acking"} =>
                             arg'[j] = arg[j] /\ pc[j] \in {"applied", "picked", "acking"}
    BY <2>1, RestEffect DEF TypeOK
  <2> QED BY <1>0, <2>1, <2>2, DocumentGrows
<1>3. CASE ~Apply(k) /\ ~ApplyPersistFails(k)
  BY <1>3, TaskStepKeeps, TaskKeepsInv
<1> QED BY <1>1, <1>2, <1>3

\* After a crash the document is the image, which is closed, and no connection
\* is open to rely on anything more.
LEMMA InvRestart == ASSUME TypeOK, ServerInv, Restart PROVE ServerInv'
<1>1. /\ UNCHANGED <<changeVars, store, replica, synced, current, outbox, down, acked>>
      /\ db' = store
      /\ \A k \in Conn : /\ pc'[k] = "off" /\ arg'[k] = NoMsg
                         /\ up'[k] = <<>> /\ rx'[k] = <<>>
                         /\ sock'[k] # "open" /\ (sock'[k] = "new" => sock[k] = "new")
  BY DEF Restart, Load, clientVars, TypeOK
<1>2. NoMsg.changes = {} /\ ToSet(<<>>) = {}
  BY NoMsgType, EmptyRange
<1>3. OnlyWritten' /\ PushesFit'
  BY <1>1, <1>2 DEF ServerInv, OnlyWritten, StoredWhenApplied, PushesFit, BuiltOnServer, changeVars
<1>4. OwnConnection' /\ UnusedIsEmpty' /\ HeadsKnown' /\ SyncedIsOnServer'
  BY <1>1 DEF ServerInv, OwnConnection, UnusedIsEmpty, HeadsKnown, SyncedIsOnServer
<1>5. StoredWhenApplied' /\ AckedDurable' /\ BroadcastDurable'
  BY <1>1, <1>2 DEF ServerInv, StoredWhenApplied, AckedDurable, BroadcastDurable
<1>6. CausalGraph' /\ OutboxComplete' /\ CausallyClosed'
  BY <1>1 DEF ServerInv, CausalGraph, OutboxComplete, CausallyClosed, Closed, changeVars
<1> QED BY <1>3, <1>4, <1>5, <1>6 DEF ServerInv

\* Steps of a client and its sockets that neither write nor touch the server.
LEMMA InvConnection ==
  ASSUME TypeOK, ServerInv, NEW k \in Conn,
         Connect(k) \/ Close(k) \/ NoticeDrop(k) \/ Receive(k)
  PROVE  ServerInv'
<1> DEFINE c == ClientOf[k]
<1>c. c \in Client /\ None \notin Conn /\ ClientOf \in [Conn -> Client]
  BY ConstantsOK DEF ConstantsOK
<1>0. ToSet(<<>>) = {} /\ Below({}) = {}
  BY EmptyRange DEF Below
<1>s. UNCHANGED <<changeVars, db, store, taskVars, acked>>
  BY DEF Connect, Close, NoticeDrop, Receive, serverVars, ghostVars
<1>o. \A d \in Client : outbox'[d] \in {outbox[d], {}}
  BY DEF Connect, Close, NoticeDrop, Receive, TypeOK
<1>1. /\ CausalGraph' /\ OutboxComplete' /\ CausallyClosed'
      /\ StoredWhenApplied' /\ AckedDurable' /\ BroadcastDurable'
  BY <1>s, <1>o DEF ServerInv, CausalGraph, OutboxComplete, CausallyClosed, Closed, StoredWhenApplied, AckedDurable,
              BroadcastDurable, changeVars, taskVars
<1>2. CASE Connect(k)
  <2>1. PICK H : up' = [up EXCEPT ![k] = <<Msg("connect", H, {})>>]
    BY <1>2 DEF Connect
  <2>2. \A m \in ToSet(up'[k]) : m.changes = {}
    <3>1. up'[k] = <<Msg("connect", H, {})>>
      BY <2>1 DEF TypeOK
    <3>2. ToSet(<<Msg("connect", H, {})>>) = {Msg("connect", H, {})}
      BY DEF ToSet
    <3> QED BY <3>1, <3>2 DEF Msg
  <2>3. \A j \in Conn \ {k} : up'[j] = up[j]
    BY <2>1 DEF TypeOK
  <2>4. /\ sock' = [sock EXCEPT ![k] = "open"] /\ down' = down /\ sock[k] = "new"
        /\ current' = [current EXCEPT ![c] = k]
        /\ synced' = [synced EXCEPT ![c] = {}]
        /\ replica' \in {replica, [replica EXCEPT ![c] = {}]}
    BY <1>2 DEF Connect, ForgetSyncedHeads
  <2>5. OnlyWritten'
    <3>1. \A d \in Client : replica'[d] \subseteq replica[d] /\ synced'[d] \subseteq synced[d]
      BY <2>4 DEF TypeOK
    <3> QED BY <1>s, <1>o, <2>2, <2>3, <2>4, <3>1 DEF ServerInv, OnlyWritten, changeVars, taskVars
  <2>6. PushesFit'
    BY <1>s, <2>2, <2>3 DEF ServerInv, PushesFit, BuiltOnServer, changeVars, taskVars
  <2>7. HeadsKnown' /\ UnusedIsEmpty'
    BY <1>s, <1>0, <2>4 DEF ServerInv, HeadsKnown, UnusedIsEmpty, Below, changeVars, TypeOK
  <2>8. SyncedIsOnServer'
    BY <1>s, <1>0, <1>c, <2>4 DEF ServerInv, SyncedIsOnServer, InUse, Below, changeVars, TypeOK
  <2>9. OwnConnection'
    BY <1>c, <2>4 DEF ServerInv, OwnConnection, TypeOK
  <2> QED BY <1>1, <2>5, <2>6, <2>7, <2>8, <2>9 DEF ServerInv
<1>3. CASE Close(k) \/ NoticeDrop(k)
  <2>1. \A j \in Conn : ToSet(up'[j]) \subseteq ToSet(up[j])
    <3>1. CASE Close(k)
      <4>1. PICK n \in 0 .. Len(up[k]) : up' = [up EXCEPT ![k] = SubSeq(@, 1, n)]
        BY <3>1 DEF Close
      <4>2. ToSet(SubSeq(up[k], 1, n)) \subseteq ToSet(up[k])
        BY PrefixRange DEF TypeOK
      <4> QED BY <4>1, <4>2 DEF TypeOK
    <3>2. CASE NoticeDrop(k)
      BY <3>2 DEF NoticeDrop
    <3> QED BY <1>3, <3>1, <3>2
  <2>2. /\ replica' = replica /\ synced' = synced
        /\ \A j \in Conn : /\ sock'[j] \in {sock[j], "gone"}
                           /\ down'[j] \in {down[j], <<>>}
        /\ current' \in {current, [current EXCEPT ![c] = None]}
    BY <1>3 DEF Close, NoticeDrop, TypeOK
  <2>3. OnlyWritten' /\ PushesFit'
    BY <1>s, <1>o, <1>0, <2>1, <2>2
       DEF ServerInv, OnlyWritten, PushesFit, BuiltOnServer, changeVars, taskVars
  <2>4. HeadsKnown' /\ UnusedIsEmpty'
    BY <1>s, <1>0, <2>2 DEF ServerInv, HeadsKnown, UnusedIsEmpty, Below, changeVars
  <2>5. \A j \in Conn : /\ current'[ClientOf[j]] = j => current[ClientOf[j]] = j
                        /\ sock'[j] = "open" => sock[j] = "open"
    BY <1>c, <2>2 DEF TypeOK
  <2>6. SyncedIsOnServer'
    BY <1>s, <2>2, <2>5 DEF ServerInv, SyncedIsOnServer, InUse, Below, changeVars
  <2>7. OwnConnection'
    BY <1>c, <2>2 DEF ServerInv, OwnConnection, TypeOK
  <2> QED BY <1>1, <2>3, <2>4, <2>6, <2>7 DEF ServerInv
<1>4. CASE Receive(k)
  <2> DEFINE m == Head(down[k])
  <2>1. /\ m \in ToSet(down[k])
        /\ \A j \in Conn : ToSet(down'[j]) \subseteq ToSet(down[j])
        /\ down[k] # <<>> /\ \A j \in Conn : down[j] = <<>> => down'[j] = <<>>
    BY <1>4, TailRange DEF Receive, TypeOK
  <2>2. /\ sock' = sock /\ current' = current /\ up' = up /\ current[c] = k
        /\ replica' = [replica EXCEPT ![c] = @ \cup m.changes]
        /\ synced' \in {synced, [synced EXCEPT ![c] = m.heads]}
    BY <1>4 DEF Receive, InUse
  <2>3. OnlyWritten'
    <3>1. m.changes \subseteq written /\ m.heads \subseteq written
      BY <2>1 DEF ServerInv, OnlyWritten
    <3>2. \A d \in Client : replica'[d] \subseteq written /\ synced'[d] \subseteq written
      BY <2>2, <3>1 DEF ServerInv, OnlyWritten, TypeOK
    <3> QED BY <1>s, <1>o, <2>1, <2>2, <3>2 DEF ServerInv, OnlyWritten, changeVars, taskVars
  <2>4. PushesFit'
    BY <1>s, <2>2 DEF ServerInv, PushesFit, BuiltOnServer, changeVars, taskVars
  <2>5. HeadsKnown' /\ UnusedIsEmpty'
    BY <1>s, <2>1, <2>2 DEF ServerInv, HeadsKnown, UnusedIsEmpty, Below, changeVars
  <2>6. sock[k] = "open" => Below(m.heads) \subseteq db
    BY <2>1 DEF ServerInv, HeadsKnown
  <2>7. SyncedIsOnServer'
    <3>1. ASSUME NEW j \in Conn, sock[j] = "open", current[ClientOf[j]] = j
          PROVE  \/ synced'[ClientOf[j]] = synced[ClientOf[j]]
                 \/ j = k /\ synced'[ClientOf[j]] = m.heads
      BY <1>c, <2>2, <3>1 DEF TypeOK
    <3> QED BY <1>s, <2>2, <2>6, <3>1
            DEF ServerInv, SyncedIsOnServer, InUse, Below, changeVars
  <2>8. OwnConnection'
    BY <2>2 DEF ServerInv, OwnConnection
  <2> QED BY <1>1, <2>3, <2>4, <2>5, <2>7, <2>8 DEF ServerInv
<1> QED BY <1>2, <1>3, <1>4

\* A new change, whose dependencies are what its author's document has applied,
\* disturbs nothing that is known already.
LEMMA InvWrite ==
  ASSUME TypeOK, ServerInv, NEW c \in Client, NEW x \in Change, Write(c, x),
         UNCHANGED <<serverVars, taskVars, netVars, synced, current, ghostVars>>,
         \A d \in Client : outbox'[d] \subseteq outbox[d] \cup {Everything(c, x)}
  PROVE  ServerInv'
<1> DEFINE A == Applied(replica[c])
<1>1. /\ x \notin written /\ written' = written \cup {x}
      /\ A \subseteq written /\ x \notin A
      /\ \A y \in A : deps[y] \subseteq A
  BY DEF Write, Applied, ServerInv, OnlyWritten, CausalGraph, TypeOK
<1>2. deps' = [deps EXCEPT ![x] = A] /\ replica' = [replica EXCEPT ![c] = @ \cup {x}]
  BY DEF Write
<1>3. /\ deps'[x] = A
      /\ \A y \in Change \ {x} : deps'[y] = deps[y]
      /\ \A y \in written : y \in Change /\ deps'[y] = deps[y]
  BY <1>1, <1>2 DEF TypeOK
<1>4. Everything(c, x) \subseteq written' /\ OutboxComplete'
  <2>1. Everything(c, x) = A \cup {x}
    BY DEF Everything
  <2>2. \A y \in A \cup {x} : deps'[y] \subseteq A \cup {x}
    BY <1>1, <1>3
  <2>3. \A y \in Everything(c, x) : deps'[y] \subseteq Everything(c, x)
    BY <2>1, <2>2
  <2>4. OutboxComplete'
    <3>1. \A d \in Client : \A S \in outbox[d] : \A y \in S : y \in written /\ deps[y] \subseteq S
      BY DEF ServerInv, OnlyWritten, OutboxComplete, Closed
    <3>2. \A d \in Client : \A S \in outbox'[d] : \A y \in S : deps'[y] \subseteq S
      BY <1>3, <2>3, <3>1
    <3> QED BY <3>2 DEF OutboxComplete, Closed
  <2> QED BY <1>1, <2>1, <2>4
<1>5. OnlyWritten'
  <2>1. \A d \in Client : replica'[d] \subseteq written'
    BY <1>1, <1>2 DEF ServerInv, OnlyWritten, TypeOK
  <2> QED BY <1>1, <1>4, <2>1 DEF ServerInv, OnlyWritten, serverVars, taskVars, netVars, ghostVars
<1>6. CausalGraph'
  <2>1. \A y \in Change : deps'[y] \subseteq written'
    BY <1>1, <1>3 DEF ServerInv, CausalGraph
  <2>2. \A y \in Change \ written' : deps'[y] = {}
    BY <1>1, <1>3 DEF ServerInv, CausalGraph
  <2>3. \A y \in Change : \A w \in deps'[y] : deps'[w] \subseteq deps'[y]
    BY <1>1, <1>3 DEF ServerInv, CausalGraph
  <2> QED BY <2>1, <2>2, <2>3 DEF CausalGraph
<1>7. PushesFit'
  <2>1. \A k \in Conn : /\ arg'[k] = arg[k] /\ arg[k].changes \subseteq written
                        /\ \A m \in ToSet(up[k]) : m.changes \subseteq written
    BY DEF ServerInv, OnlyWritten, taskVars
  <2>2. \A m : m.changes \subseteq written /\ BuiltOnServer(m) => BuiltOnServer(m)'
    BY <1>3 DEF BuiltOnServer, serverVars
  <2> QED BY <2>1, <2>2 DEF ServerInv, PushesFit, netVars
<1>8. HeadsKnown' /\ SyncedIsOnServer'
  <2>2. \A k \in Conn : \A m \in ToSet(down[k]) : m.heads \subseteq written
    BY DEF ServerInv, OnlyWritten
  <2>3. HeadsKnown'
    BY <1>3, <2>2 DEF ServerInv, HeadsKnown, Below, serverVars, netVars
  <2>4. \A k \in Conn : synced[ClientOf[k]] \subseteq written
    BY ConstantsOK DEF ServerInv, OnlyWritten, ConstantsOK
  <2>5. SyncedIsOnServer'
    BY <1>3, <2>4 DEF ServerInv, SyncedIsOnServer, InUse, Below, serverVars, netVars
  <2> QED BY <2>3, <2>5
<1>9. CausallyClosed'
  BY <1>3 DEF ServerInv, OnlyWritten, StoredWhenApplied, CausallyClosed, Closed, serverVars
<1>10. OwnConnection' /\ UnusedIsEmpty' /\ StoredWhenApplied' /\ AckedDurable' /\ BroadcastDurable'
  BY DEF ServerInv, OwnConnection, UnusedIsEmpty, StoredWhenApplied, AckedDurable, BroadcastDurable,
         serverVars, taskVars, netVars, ghostVars
<1> QED BY <1>4, <1>5, <1>6, <1>7, <1>8, <1>9, <1>10 DEF ServerInv

\* A delta fits: what it leaves out is below last_synced_heads, and so on the server.
LEMMA DeltaFits ==
  ASSUME TypeOK, ServerInv, NEW c \in Client, NEW k \in Conn,
         ClientOf[k] = c, current[c] = k, sock[k] = "open"
  PROVE  /\ Unsynced(c) \subseteq written
         /\ \A x \in Unsynced(c) : deps[x] \subseteq Unsynced(c) \cup db
<1> DEFINE A == Applied(replica[c])
<1>1. /\ A \subseteq written /\ \A x \in A : x \in Change /\ deps[x] \subseteq A
  BY DEF Applied, ServerInv, OnlyWritten, CausalGraph, TypeOK
<1>2. Below(synced[c] \cap A) \subseteq Below(synced[c])
  BY DEF Below
<1>3. Below(synced[c]) \subseteq db
  BY DEF ServerInv, SyncedIsOnServer, InUse
<1>4. Unsynced(c) = A \ Below(synced[c] \cap A)
  BY DEF Unsynced, Since
<1> QED BY <1>1, <1>2, <1>3, <1>4

\* A push that is sent fits, and nothing else moves.
LEMMA InvSend ==
  ASSUME TypeOK, ServerInv, NEW k \in Conn, NEW S \in SUBSET Change, SendPush(k, S),
         UNCHANGED <<changeVars, serverVars, taskVars, sock, down, replica, synced, current, ghostVars>>,
         \A c \in Client : outbox'[c] \subseteq outbox[c],
         sock[k] = "open" => S \subseteq written /\ \A x \in S : deps[x] \subseteq S \cup db
  PROVE  ServerInv'
<1> DEFINE m == Msg("push", {}, S)
<1>1. /\ \A j \in Conn \ {k} : up'[j] = up[j]
      /\ ToSet(up'[k]) \subseteq ToSet(up[k]) \cup {m}
      /\ sock[k] # "open" => up' = up
  BY PushType
<1>2. sock[k] = "open" => m.changes \subseteq written /\ BuiltOnServer(m)
  BY DEF BuiltOnServer, Msg
<1>3. OnlyWritten' /\ PushesFit'
  BY <1>1, <1>2
     DEF ServerInv, OnlyWritten, PushesFit, BuiltOnServer, changeVars, serverVars, taskVars, ghostVars
<1>4. /\ CausalGraph' /\ OwnConnection' /\ UnusedIsEmpty' /\ OutboxComplete' /\ HeadsKnown'
      /\ CausallyClosed' /\ SyncedIsOnServer'
  BY DEF ServerInv, CausalGraph, OwnConnection, UnusedIsEmpty, OutboxComplete, HeadsKnown,
         CausallyClosed, Closed, SyncedIsOnServer, InUse, Below, changeVars, serverVars
<1>5. StoredWhenApplied' /\ AckedDurable' /\ BroadcastDurable'
  BY DEF ServerInv, StoredWhenApplied, AckedDurable, BroadcastDurable, serverVars, taskVars, ghostVars
<1> QED BY <1>3, <1>4, <1>5 DEF ServerInv

\* What the clients write and push keeps the invariant.
LEMMA InvClient ==
  ASSUME TypeOK, ServerInv, NEW c \in Client,
         \/ SyncChanges(c) \/ \E changes \in outbox[c] : Push(c, changes)
         \/ \E x \in Change : SetPath(c, x) \/ SetPathLocal(c, x)
  PROVE  ServerInv'
<1>a. current[c] \in Conn \cup {None} /\ (current[c] # None => ClientOf[current[c]] = c)
  BY DEF TypeOK, ServerInv, OwnConnection
<1>1. ASSUME NEW x \in Change, SetPath(c, x) PROVE ServerInv'
  <2>1. \A d \in Client : outbox'[d] \subseteq outbox[d] \cup {Everything(c, x)}
    BY <1>1 DEF SetPath, TypeOK
  <2> QED BY <1>1, <2>1, InvWrite DEF SetPath
<1>2. ASSUME NEW x \in Change, SetPathLocal(c, x) PROVE ServerInv'
  BY <1>2, InvWrite DEF SetPathLocal
<1>3. CASE SyncChanges(c)
  <2>1. /\ current[c] \in Conn /\ ClientOf[current[c]] = c
        /\ SendPush(current[c], Unsynced(c)) /\ Unsynced(c) \in SUBSET Change
    BY <1>3, <1>a, DocumentParts DEF SyncChanges, Unsynced, TypeOK
  <2>2. sock[current[c]] = "open" => /\ Unsynced(c) \subseteq written
                                     /\ \A x \in Unsynced(c) : deps[x] \subseteq Unsynced(c) \cup db
    BY <2>1, DeltaFits
  <2> QED BY <1>3, <2>1, <2>2, InvSend DEF SyncChanges, clientVars
<1>4. ASSUME NEW changes \in outbox[c], Push(c, changes) PROVE ServerInv'
  <2>1. /\ current[c] \in Conn /\ SendPush(current[c], changes) /\ changes \in SUBSET Change
        /\ \A d \in Client : outbox'[d] \subseteq outbox[d]
    BY <1>4, <1>a DEF Push, TypeOK
  <2>2. changes \subseteq written /\ \A x \in changes : deps[x] \subseteq changes \cup db
    BY DEF ServerInv, OnlyWritten, OutboxComplete, Closed
  <2> QED BY <1>4, <2>1, <2>2, InvSend DEF Push
<1> QED BY <1>1, <1>2, <1>3, <1>4

\* The invariant holds at the start.
LEMMA InvInit == Init => ServerInv
<1> SUFFICES ASSUME Init PROVE ServerInv
  OBVIOUS
<1>1. ToSet(<<>>) = {} /\ NoMsg.changes = {} /\ Below({}) = {}
  BY EmptyRange, NoMsgType DEF Below
<1>2. OnlyWritten /\ PushesFit
  BY <1>1 DEF Init, OnlyWritten, PushesFit, BuiltOnServer
<1>3. CausalGraph /\ CausallyClosed /\ OwnConnection /\ OutboxComplete
  BY DEF Init, CausalGraph, CausallyClosed, Closed, OwnConnection, OutboxComplete
<1>4. UnusedIsEmpty /\ HeadsKnown /\ StoredWhenApplied /\ AckedDurable /\ BroadcastDurable
  BY <1>1 DEF Init, UnusedIsEmpty, HeadsKnown, StoredWhenApplied, AckedDurable, BroadcastDurable
<1>5. SyncedIsOnServer
  BY DEF Init, SyncedIsOnServer
<1> QED BY <1>2, <1>3, <1>4, <1>5 DEF ServerInv

\* No step breaks the invariant.
LEMMA InvStep == TypeOK /\ ServerInv /\ [Next]_vars => ServerInv'
<1> SUFFICES ASSUME TypeOK, ServerInv, [Next]_vars PROVE ServerInv'
  OBVIOUS
<1>1. CASE Next
  BY <1>1, InvTask, InvRestart, InvConnection, InvClient DEF Next
<1>2. CASE UNCHANGED vars
  <2>1. TaskKeeps
    BY <1>2 DEF TaskKeeps, vars, changeVars, serverVars, taskVars, netVars, clientVars, ghostVars
  <2> QED BY <2>1, TaskKeepsInv
<1> QED BY <1>1, <1>2

\* The invariant that makes the server safe, whatever the instance.
THEOREM ServerInvCorrect == Spec => []ServerInv
BY TypeCorrect, InvInit, InvStep, PTL DEF Spec

\* Neither the document nor its stored image ever lacks a dependency.
THEOREM DocumentsClosed == Spec => []CausallyClosed
<1>1. ServerInv => CausallyClosed
  BY DEF ServerInv
<1> QED BY <1>1, ServerInvCorrect, PTL

\* What a browser leaves out of its pushes is on the server.
THEOREM DeltasAreEnough == Spec => []SyncedIsOnServer
<1>1. ServerInv => SyncedIsOnServer
  BY DEF ServerInv
<1> QED BY <1>1, ServerInvCorrect, PTL

\* Acknowledged changes are in the stored image, and stay there.
THEOREM AcksAreDurable == Spec => []AckedDurable
<1>1. ServerInv => AckedDurable
  BY DEF ServerInv
<1> QED BY <1>1, ServerInvCorrect, PTL

\* Changes are broadcast only once they are stored.
THEOREM BroadcastsAreDurable == Spec => []BroadcastDurable
<1>1. ServerInv => BroadcastDurable
  BY DEF ServerInv
<1> QED BY <1>1, ServerInvCorrect, PTL

-----------------------------------------------------------------------------
(* The server implements the causal store. *)

\* Every step is a step of the causal store, or leaves it alone.
LEMMA StoreStep ==
  ASSUME TypeOK, ServerInv, [Next]_vars, ServerInv'
  PROVE  [Store!Next]_(Store!vars)
<1> USE DEF Store!vars, Store!Next
<1>t. \A k \in Conn : arg[k].changes \in SUBSET Change
  BY DEF TypeOK, MsgType
<1>1. ASSUME NEW k \in Conn, Apply(k) \/ ApplyPersistFails(k) PROVE Store!Merge(arg[k].changes)
  <2>1. /\ db' = db \cup arg[k].changes /\ deps' = deps /\ acked' = acked
        /\ store' = db' \/ store' = store
    BY <1>1 DEF Apply, Persist, ApplyPersistFails, changeVars, ghostVars
  <2>2. Closed(db)'
    BY DEF ServerInv, CausallyClosed
  <2>3. Store!IsClosed(db \cup arg[k].changes)
    BY <2>1, <2>2 DEF Closed, Store!IsClosed
  <2> QED BY <2>1, <2>3 DEF Store!Merge
<1>2. ASSUME NEW k \in Conn, SendPushAck(k) PROVE Store!Promise(arg[k].changes)
  BY <1>2 DEF SendPushAck, Store!Promise, changeVars, serverVars, ServerInv, StoredWhenApplied
<1>3. ASSUME NEW k \in Conn, Task(k), ~Apply(k), ~ApplyPersistFails(k), ~SendPushAck(k)
      PROVE  UNCHANGED <<deps, db, store, acked>>
  BY <1>3 DEF Task, RegisterClient, Subscribe, SendSync, ReceivePush, PickTargets, SendBroadcast,
              ReceiveBroadcast, Unregister, changeVars, serverVars, ghostVars
<1>4. ASSUME Restart PROVE Store!Crash
  BY <1>4 DEF Restart, Load, Store!Crash, changeVars
<1>5. ASSUME NEW k \in Conn, Connect(k) \/ Close(k) \/ NoticeDrop(k) \/ Receive(k)
      PROVE  UNCHANGED <<deps, db, store, acked>>
  BY <1>5 DEF Connect, Close, NoticeDrop, Receive, changeVars, serverVars, ghostVars
<1>6. ASSUME NEW c \in Client, NEW x \in Change, SetPath(c, x) \/ SetPathLocal(c, x)
      PROVE  Store!Create(x, Applied(replica[c]))
  <2>1. Write(c, x) /\ UNCHANGED <<db, store, acked>>
    BY <1>6 DEF SetPath, SetPathLocal, serverVars, ghostVars
  <2>2. x \notin db
    BY <2>1 DEF Write, ServerInv, OnlyWritten
  <2> QED BY <2>1, <2>2 DEF Write, Store!Create
<1>7. ASSUME NEW c \in Client, SyncChanges(c) \/ \E changes \in outbox[c] : Push(c, changes)
      PROVE UNCHANGED <<deps, db, store, acked>>
  BY <1>7 DEF SyncChanges, Push, changeVars, serverVars, ghostVars
<1>8. \A c \in Client : Applied(replica[c]) \in SUBSET Change
  BY DEF Applied, TypeOK
<1>9. CASE UNCHANGED vars
  BY <1>9 DEF vars, changeVars, serverVars, ghostVars
<1>10. CASE \E k \in Conn : Task(k)
  BY <1>10, <1>t, <1>1, <1>2, <1>3
<1>11. CASE Restart
  BY <1>11, <1>4
<1>12. CASE \E k \in Conn : Connect(k) \/ Close(k) \/ NoticeDrop(k) \/ Receive(k)
  BY <1>12, <1>5
<1>13. CASE \E c \in Client, x \in Change : SetPath(c, x) \/ SetPathLocal(c, x)
  BY <1>13, <1>6, <1>8
<1>14. CASE \E c \in Client : SyncChanges(c) \/ \E changes \in outbox[c] : Push(c, changes)
  BY <1>14, <1>7
<1> QED BY <1>9, <1>10, <1>11, <1>12, <1>13, <1>14 DEF Next

\* Every behaviour of the server and its clients is one of a causal store.
THEOREM StoreImplemented == Spec => ImplementsCausalStore
<1>1. Init => Store!Init
  BY DEF Init, Store!Init
<1> QED BY <1>1, TypeCorrect, ServerInvCorrect, StoreStep, PTL
        DEF Spec, ImplementsCausalStore, Store!Spec

-----------------------------------------------------------------------------
(* No silent gap, when no client connects again before the server saw it leave. *)

\* A step of a task opens no connection, and none that is over begins again.
LEMMA LivesTask ==
  ASSUME TypeOK, LivesOnce, NEW k \in Conn, Task(k)
  PROVE  LivesOnce' /\ \A j \in Conn : Finished(j) => Finished(j)'
<1>1. UNCHANGED <<sock, current>> /\ \A j \in Conn \ {k} : pc'[j] = pc[j] /\ up'[j] = up[j] /\ arg'[j] = arg[j]
  <2>1. CASE RegisterClient(k)
    BY <2>1 DEF RegisterClient, TypeOK, clientVars
  <2>2. CASE Subscribe(k)
    BY <2>2 DEF Subscribe, TypeOK, clientVars, netVars
  <2>3. CASE SendSync(k) \/ SendPushAck(k)
    BY <2>3 DEF SendSync, SendPushAck, Reply, Rest, TypeOK, clientVars
  <2>4. CASE ReceivePush(k)
    BY <2>4 DEF ReceivePush, TypeOK, clientVars
  <2>5. CASE Apply(k) \/ ApplyPersistFails(k)
    BY <2>5 DEF Apply, ApplyPersistFails, GiveUp, Rest, TypeOK, netVars, clientVars
  <2>6. CASE PickTargets(k) \/ SendBroadcast(k)
    BY <2>6 DEF PickTargets, SendBroadcast, TypeOK, netVars, clientVars
  <2>7. CASE ReceiveBroadcast(k)
    BY <2>7 DEF ReceiveBroadcast, Reply, TypeOK, clientVars
  <2>8. CASE Unregister(k)
    BY <2>8 DEF Unregister, Rest, TypeOK, clientVars
  <2> QED BY <2>1, <2>2, <2>3, <2>4, <2>5, <2>6, <2>7, <2>8 DEF Task
<1>2. ~Finished(k)
  BY DEF Task, Finished, RegisterClient, Subscribe, SendSync, ReceivePush, Apply, ApplyPersistFails,
         PickTargets, SendBroadcast, SendPushAck, ReceiveBroadcast, Unregister, Ended
<1>3. sock[k] = "open" => pc'[k] \notin {"off", "closing"}
  <2>1. CASE RegisterClient(k)
    BY <2>1 DEF RegisterClient, TypeOK
  <2>2. CASE Subscribe(k)
    BY <2>2 DEF Subscribe, TypeOK
  <2>3. CASE SendSync(k) \/ SendPushAck(k)
    BY <2>3 DEF SendSync, SendPushAck, Reply, TypeOK
  <2>4. CASE ReceivePush(k)
    BY <2>4 DEF ReceivePush, TypeOK
  <2>5. CASE Apply(k) \/ ApplyPersistFails(k)
    BY <2>5 DEF Apply, ApplyPersistFails, GiveUp, TypeOK
  <2>6. CASE PickTargets(k) \/ SendBroadcast(k)
    BY <2>6 DEF PickTargets, SendBroadcast, TypeOK
  <2>7. CASE ReceiveBroadcast(k)
    BY <2>7 DEF ReceiveBroadcast, Reply, TypeOK
  <2>8. CASE Unregister(k)
    BY <2>8 DEF Unregister, Ended, LivesOnce
  <2> QED BY <2>1, <2>2, <2>3, <2>4, <2>5, <2>6, <2>7, <2>8 DEF Task
<1> QED BY <1>1, <1>2, <1>3 DEF LivesOnce, Finished, InUse

\* Only the opening of a connection begins one.
LEMMA LivesStep ==
  ASSUME TypeOK, ServerInv, LivesOnce, [Next]_vars
  PROVE  LivesOnce' /\ \A j \in Conn : Finished(j) => Finished(j)' \/ Connect(j)
<1>c. None \notin Conn /\ ClientOf \in [Conn -> Client]
  BY ConstantsOK DEF ConstantsOK
<1>1. ASSUME NEW k \in Conn, Task(k)
      PROVE  LivesOnce' /\ \A j \in Conn : Finished(j) => Finished(j)'
  BY <1>1, LivesTask
<1>2. CASE Restart
  BY <1>2 DEF Restart, LivesOnce, Finished, InUse, clientVars
<1>3. ASSUME NEW k \in Conn, Connect(k)
      PROVE  LivesOnce' /\ \A j \in Conn \ {k} : Finished(j) => Finished(j)'
  <2>1. PICK m : up' = [up EXCEPT ![k] = <<m>>]
    BY <1>3 DEF Connect
  <2>2. up'[k] # <<>> /\ \A j \in Conn \ {k} : up'[j] = up[j]
    BY <2>1 DEF TypeOK
  <2>3. /\ pc' = pc /\ arg' = arg /\ sock[k] = "new"
        /\ sock' = [sock EXCEPT ![k] = "open"] /\ current' = [current EXCEPT ![ClientOf[k]] = k]
    BY <1>3 DEF Connect, taskVars
  <2> QED BY <1>c, <2>2, <2>3 DEF LivesOnce, Finished, InUse, TypeOK
<1>4. ASSUME NEW k \in Conn, Close(k) \/ NoticeDrop(k) \/ Receive(k)
      PROVE  LivesOnce' /\ \A j \in Conn : Finished(j) => Finished(j)'
  <2>1. /\ pc' = pc /\ arg' = arg
        /\ \A j \in Conn : /\ sock'[j] \in {sock[j], "gone"}
                           /\ current'[ClientOf[j]] \in {current[ClientOf[j]], None}
                           /\ sock'[j] = "open" => up'[j] = up[j]
    BY <1>4, <1>c DEF Close, NoticeDrop, Receive, taskVars, TypeOK
  <2>2. \A j \in Conn : up[j] = <<>> => up'[j] = <<>>
    <3>1. CASE Close(k)
      <4>1. PICK n \in 0 .. Len(up[k]) : up' = [up EXCEPT ![k] = SubSeq(@, 1, n)]
        BY <3>1 DEF Close
      <4>2. up[k] = <<>> => SubSeq(up[k], 1, n) = <<>>
        OBVIOUS
      <4> QED BY <4>1, <4>2 DEF TypeOK
    <3>2. CASE ~Close(k)
      BY <1>4, <3>2 DEF NoticeDrop, Receive
    <3> QED BY <3>1, <3>2
  <2>3. \A j \in Conn : sock'[j] = "new" => sock[j] = "new" /\ up[j] = <<>>
    BY <2>1 DEF LivesOnce, Finished
  <2> QED BY <1>c, <2>1, <2>2, <2>3 DEF LivesOnce, Finished, InUse
<1>5. ASSUME NEW c \in Client, NEW x \in Change, SetPath(c, x) \/ SetPathLocal(c, x)
      PROVE  LivesOnce' /\ \A j \in Conn : Finished(j) => Finished(j)'
  BY <1>5 DEF SetPath, SetPathLocal, LivesOnce, Finished, InUse, taskVars, netVars
<1>6. ASSUME NEW c \in Client, SyncChanges(c) \/ \E changes \in outbox[c] : Push(c, changes)
      PROVE  LivesOnce' /\ \A j \in Conn : Finished(j) => Finished(j)'
  <2>1. PICK S \in SUBSET Change :
          /\ current[c] \in Conn /\ SendPush(current[c], S)
          /\ UNCHANGED <<taskVars, sock, current>>
    BY <1>6, DocumentParts DEF SyncChanges, Push, clientVars, Unsynced, TypeOK
  <2>2. /\ sock[current[c]] # "open" => up' = up
        /\ \A j \in Conn \ {current[c]} : up'[j] = up[j]
        /\ sock[current[c]] = "open" => up'[current[c]] # <<>>
    <3>1. up[current[c]] \in Seq(MsgType)
      BY <2>1 DEF TypeOK
    <3>2. Append(up[current[c]], Msg("push", {}, S)) # <<>>
      <4> DEFINE m == Msg("push", {}, S)
      <4>0. m \in MsgType
        <5>1. {} \in SUBSET Change /\ S \in SUBSET Change
          OBVIOUS
        <5> QED BY <5>1, MessageTypes
      <4> HIDE DEF m
      <4>1. m \in ToSet(Append(up[current[c]], m)) /\ ToSet(<<>>) = {}
        BY <3>1, <4>0, AppendRange, EmptyRange
      <4> QED BY <4>1 DEF m
    <3> QED BY <2>1, <3>2 DEF SendPush, TypeOK
  <2>3. sock[current[c]] = "open" => sock'[current[c]] # "new" /\ ~Finished(current[c])
    BY <2>1 DEF LivesOnce
  <2> QED BY <2>1, <2>2, <2>3 DEF LivesOnce, Finished, InUse, taskVars
<1>7. CASE UNCHANGED vars
  BY <1>7 DEF vars, taskVars, netVars, clientVars, LivesOnce, Finished, InUse
<1> QED BY <1>1, <1>2, <1>3, <1>4, <1>5, <1>6, <1>7 DEF Next

\* One connection of a client at a time: the next one is opened when the server has
\* nothing left of the last.
LEMMA OneStep ==
  ASSUME ~Overlap, TypeOK, ServerInv, LivesOnce, OneAtATime, [Next]_vars
  PROVE  OneAtATime'
<1>1. \A j \in Conn : Finished(j) => Finished(j)' \/ Connect(j)
  BY LivesStep
<1>2. ASSUME NEW j \in Conn, NEW k \in Conn, j # k, ClientOf[j] = ClientOf[k]
      PROVE  Finished(j)' \/ Finished(k)'
  <2>1. ASSUME NEW i \in {j, k}, Connect(i) PROVE Finished(j)' \/ Finished(k)'
    <3>1. PICK o \in {j, k} : o # i /\ Finished(o)
      BY <1>2, <2>1 DEF Connect
    <3>2. pc'[o] = pc[o] /\ up'[o] = up[o]
      BY <1>2, <2>1, <3>1 DEF Connect, taskVars, TypeOK
    <3> QED BY <3>1, <3>2 DEF Finished
  <2> QED BY <1>1, <1>2, <2>1 DEF OneAtATime
<1> QED BY <1>2 DEF OneAtATime

\* A connection keeps the subscriptions it came with, as no other one of the client is
\* there to replace or to remove them.
LEMMA SubscriptionsStep ==
  ASSUME TypeOK, OneAtATime, SubscriptionsHeld, [Next]_vars
  PROVE  SubscriptionsHeld'
<1>c. ClientOf \in [Conn -> Client] /\ Patterns \in [Conn -> SUBSET Topic]
  BY ConstantsOK DEF ConstantsOK
<1>1. ASSUME NEW k \in Conn, RegisterClient(k) PROVE SubscriptionsHeld'
  <2>1. \A j \in Conn \ {k} : ClientOf[j] = ClientOf[k] => pc[j] = "off"
    BY <1>1 DEF OneAtATime, Finished, RegisterClient
  <2> QED BY <1>1, <1>c, <2>1 DEF RegisterClient, SubscriptionsHeld, TypeOK
<1>2. ASSUME NEW k \in Conn, Unregister(k) PROVE SubscriptionsHeld'
  <2>1. \A j \in Conn \ {k} : ClientOf[j] = ClientOf[k] => pc[j] = "off"
    BY <1>2 DEF OneAtATime, Finished, Unregister, Ended
  <2> QED BY <1>2, <1>c, <2>1 DEF Unregister, SubscriptionsHeld, TypeOK
<1>3. ASSUME NEW k \in Conn, Task(k), ~RegisterClient(k), ~Unregister(k) PROVE SubscriptionsHeld'
  <2>1. subs' = subs
    BY <1>3 DEF Task, Subscribe, SendSync, ReceivePush, Apply, ApplyPersistFails, PickTargets,
                SendBroadcast, SendPushAck, ReceiveBroadcast, serverVars
  <2>2. \A j \in Conn : pc[j] = "off" => pc'[j] = "off"
    BY <1>3 DEF Task, Subscribe, SendSync, ReceivePush, Apply, ApplyPersistFails, PickTargets,
                SendBroadcast, SendPushAck, ReceiveBroadcast, Reply, GiveUp, TypeOK
  <2> QED BY <2>1, <2>2 DEF SubscriptionsHeld
<1>4. CASE Restart
  BY <1>4 DEF Restart, SubscriptionsHeld
<1>5. CASE UNCHANGED <<subs, pc>>
  BY <1>5 DEF SubscriptionsHeld
<1>6. ASSUME NEW k \in Conn, Connect(k) \/ Close(k) \/ NoticeDrop(k) \/ Receive(k)
      PROVE  UNCHANGED <<subs, pc>>
  BY <1>6 DEF Connect, Close, NoticeDrop, Receive, serverVars, taskVars
<1>7. ASSUME NEW c \in Client,
             \/ \E x \in Change : SetPath(c, x) \/ SetPathLocal(c, x)
             \/ SyncChanges(c) \/ \E changes \in outbox[c] : Push(c, changes)
      PROVE  UNCHANGED <<subs, pc>>
  BY <1>7 DEF SetPath, SetPathLocal, SyncChanges, Push, serverVars, taskVars
<1>8. CASE UNCHANGED vars
  BY <1>8, <1>5 DEF vars, serverVars, taskVars
<1> QED BY <1>1, <1>2, <1>3, <1>4, <1>5, <1>6, <1>7, <1>8 DEF Next

\* A client has what it sends, and its document does not shrink while it uses a connection.
LEMMA SentStep ==
  ASSUME TypeOK, ServerInv, LivesOnce, SentIsOwn, [Next]_vars
  PROVE  SentIsOwn'
<1>c. None \notin Conn /\ ClientOf \in [Conn -> Client]
  BY ConstantsOK DEF ConstantsOK
<1>n. NoMsg.changes = {} /\ NoMsg.heads = {} /\ Below({}) = {} /\ ToSet(<<>>) = {}
  BY EmptyRange DEF NoMsg, Msg, Below
<1>1. ASSUME UNCHANGED <<deps, replica, outbox>>,
             \A k \in Conn :
               /\ sock'[k] = "open" /\ InUse(k)' => sock[k] = "open" /\ InUse(k)
               /\ arg'[k] \in {arg[k], NoMsg} \cup ToSet(up[k])
               /\ ToSet(up'[k]) \subseteq ToSet(up[k])
      PROVE  SentIsOwn'
  <2>1. \A S : Below(S)' = Below(S)
    BY <1>1 DEF Below
  <2>2. ASSUME NEW k \in Conn, sock'[k] = "open", InUse(k)', NEW m \in {arg'[k]} \cup ToSet(up'[k])
        PROVE  m.changes \cup Below(m.heads) \subseteq replica[ClientOf[k]]
    <3>1. m \in {arg[k], NoMsg} \cup ToSet(up[k])
      BY <1>1, <2>2
    <3>2. CASE m = NoMsg
      BY <1>n, <3>2
    <3>3. CASE m \in {arg[k]} \cup ToSet(up[k])
      BY <1>1, <2>2, <3>3 DEF SentIsOwn
    <3> QED BY <3>1, <3>2, <3>3
  <2> QED BY <1>1, <2>1, <2>2 DEF SentIsOwn
<1>2. ASSUME NEW k \in Conn, Task(k) PROVE SentIsOwn'
  <2>h. up[k] # <<>> => /\ Head(up[k]) \in ToSet(up[k])
                        /\ ToSet(Tail(up[k])) \subseteq ToSet(up[k])
    BY TailRange DEF TypeOK
  <2>1. CASE RegisterClient(k) \/ ReceivePush(k)
    BY <1>1, <2>1, <2>h DEF RegisterClient, ReceivePush, InUse, TypeOK, changeVars, clientVars
  <2>2. CASE Subscribe(k) \/ Apply(k) \/ PickTargets(k) \/ SendBroadcast(k)
    BY <1>1, <2>2 DEF Subscribe, Apply, PickTargets, SendBroadcast, InUse, changeVars, netVars, clientVars
  <2>3. CASE SendSync(k) \/ SendPushAck(k) \/ ApplyPersistFails(k)
    BY <1>1, <2>3, RestEffect
       DEF SendSync, SendPushAck, ApplyPersistFails, GiveUp, InUse, TypeOK, changeVars, netVars, clientVars
  <2>4. CASE ReceiveBroadcast(k)
    BY <1>1, <2>4 DEF ReceiveBroadcast, InUse, TypeOK, changeVars, clientVars
  <2>5. CASE Unregister(k)
    BY <1>1, <2>5, <1>n, RestEffect DEF Unregister, InUse, TypeOK, changeVars, clientVars
  <2> QED BY <1>2, <2>1, <2>2, <2>3, <2>4, <2>5 DEF Task
<1>3. CASE Restart
  BY <1>3, <1>1, <1>n DEF Restart, InUse, changeVars, clientVars
<1>4. ASSUME NEW k \in Conn, Connect(k) PROVE SentIsOwn'
  <2> DEFINE c == ClientOf[k]
             H == IF c \in Delta THEN Heads(replica[c]) ELSE {}
             m == Msg("connect", H, {})
  <2>1. /\ sock' = [sock EXCEPT ![k] = "open"] /\ sock[k] = "new"
        /\ current' = [current EXCEPT ![c] = k]
        /\ outbox' = [outbox EXCEPT ![c] = {}]
        /\ replica' = IF c \in Delta THEN replica ELSE [replica EXCEPT ![c] = {}]
        /\ up' = [up EXCEPT ![k] = <<m>>]
        /\ UNCHANGED <<deps, arg>>
    BY <1>4 DEF Connect, changeVars, taskVars
  <2>2. m.changes = {} /\ Below(m.heads) \subseteq replica'[c]
    <3>1. m.changes = {} /\ m.heads = H
      BY DEF Msg
    <3>2. CASE c \in Delta
      BY <2>1, <3>1, <3>2 DEF Heads, Below, Applied
    <3>3. CASE c \notin Delta
      BY <1>n, <3>1, <3>3
    <3> QED BY <3>2, <3>3
  <2> HIDE DEF H, m
  <2>3. ToSet(up'[k]) = {m} /\ arg'[k] = NoMsg
    BY <2>1 DEF ToSet, TypeOK, LivesOnce
  <2>4. \A j \in Conn : j # k /\ sock'[j] = "open" /\ InUse(j)' =>
          /\ sock[j] = "open" /\ InUse(j) /\ ClientOf[j] # c
          /\ up'[j] = up[j] /\ arg'[j] = arg[j] /\ replica'[ClientOf[j]] = replica[ClientOf[j]]
    BY <1>c, <2>1 DEF InUse, TypeOK
  <2>5. \A j \in Conn : sock'[j] = "open" /\ InUse(j)' =>
          \A n \in {arg'[j]} \cup ToSet(up'[j]) : n.changes \cup Below(n.heads) \subseteq replica'[ClientOf[j]]
    <3>1. ASSUME NEW j \in Conn, j # k, sock'[j] = "open", InUse(j)',
                 NEW n \in {arg'[j]} \cup ToSet(up'[j])
          PROVE  n.changes \cup Below(n.heads) \subseteq replica'[ClientOf[j]]
      BY <2>4, <3>1 DEF SentIsOwn
    <3>2. \A n \in {arg'[k]} \cup ToSet(up'[k]) : n.changes \cup Below(n.heads) \subseteq replica'[c]
      BY <1>n, <2>2, <2>3
    <3> QED BY <3>1, <3>2
  <2>6. \A n : Below(n.heads)' = Below(n.heads)
    BY <2>1 DEF Below
  <2>7. \A d \in Client : \A S \in outbox'[d] : S \subseteq replica'[d]
    BY <1>c, <2>1 DEF SentIsOwn, TypeOK
  <2> QED BY <2>5, <2>6, <2>7 DEF SentIsOwn
<1>5. ASSUME NEW k \in Conn, Close(k) \/ NoticeDrop(k) PROVE SentIsOwn'
  <2>1. \A j \in Conn : ToSet(up'[j]) \subseteq ToSet(up[j])
    <3>1. CASE Close(k)
      <4>1. PICK n \in 0 .. Len(up[k]) : up' = [up EXCEPT ![k] = SubSeq(@, 1, n)]
        BY <3>1 DEF Close
      <4>2. ToSet(SubSeq(up[k], 1, n)) \subseteq ToSet(up[k])
        BY PrefixRange DEF TypeOK
      <4> QED BY <4>1, <4>2 DEF TypeOK
    <3>2. CASE NoticeDrop(k)
      BY <3>2 DEF NoticeDrop
    <3> QED BY <1>5, <3>1, <3>2
  <2>2. /\ UNCHANGED <<deps, replica, outbox, arg>>
        /\ \A j \in Conn : sock'[j] = "open" /\ InUse(j)' => sock[j] = "open" /\ InUse(j)
    BY <1>5, <1>c DEF Close, NoticeDrop, InUse, TypeOK, changeVars, taskVars
  <2> QED BY <1>1, <2>1, <2>2
<1>6. ASSUME UNCHANGED <<deps, arg, sock, current>>,
             \A d \in Client : /\ replica[d] \subseteq replica'[d]
                               /\ outbox'[d] \subseteq outbox[d],
             \A j \in Conn : \A m \in ToSet(up'[j]) \ ToSet(up[j]) :
               sock[j] = "open" /\ InUse(j) =>
                 m.changes \subseteq replica'[ClientOf[j]] /\ m.heads = {}
      PROVE  SentIsOwn'
  <2>1. ASSUME NEW j \in Conn, sock[j] = "open", InUse(j), NEW m \in {arg[j]} \cup ToSet(up'[j])
        PROVE  m.changes \cup Below(m.heads) \subseteq replica'[ClientOf[j]]
    <3>1. CASE m \in {arg[j]} \cup ToSet(up[j])
      BY <1>6, <1>c, <2>1, <3>1 DEF SentIsOwn
    <3>2. CASE m \notin {arg[j]} \cup ToSet(up[j])
      BY <1>6, <1>n, <2>1, <3>2
    <3> QED BY <3>1, <3>2
  <2>2. \A d \in Client : \A S \in outbox'[d] : S \subseteq replica'[d]
    BY <1>6 DEF SentIsOwn
  <2> QED BY <1>6, <2>1, <2>2 DEF SentIsOwn, InUse, Below
<1>7. ASSUME NEW k \in Conn, Receive(k) PROVE SentIsOwn'
  BY <1>7, <1>6 DEF Receive, TypeOK, changeVars, taskVars
<1>8. ASSUME NEW c \in Client, NEW x \in Change, SetPath(c, x) \/ SetPathLocal(c, x) PROVE SentIsOwn'
  <2>1. /\ x \notin written /\ deps' = [deps EXCEPT ![x] = Applied(replica[c])]
        /\ replica' = [replica EXCEPT ![c] = @ \cup {x}]
        /\ UNCHANGED <<arg, up, sock, current>>
        /\ \A d \in Client : outbox'[d] \subseteq outbox[d] \cup (IF d = c THEN {Everything(c, x)} ELSE {})
    BY <1>8 DEF SetPath, SetPathLocal, Write, taskVars, netVars, TypeOK
  <2>2. \A d \in Client : replica[d] \subseteq replica'[d] /\ x \notin replica[d]
    BY <2>1 DEF TypeOK, ServerInv, OnlyWritten
  <2>3. Everything(c, x) \subseteq replica'[c]
    BY <2>1, DocumentParts DEF Everything, TypeOK
  <2>4. \A d \in Client : \A S \in outbox'[d] : S \subseteq replica'[d]
    BY <2>1, <2>2, <2>3 DEF SentIsOwn
  <2>5. ASSUME NEW j \in Conn, sock[j] = "open", InUse(j), NEW m \in {arg[j]} \cup ToSet(up[j])
        PROVE  m.changes \cup Below(m.heads)' \subseteq replica'[ClientOf[j]]
    <3>1. m.changes \cup Below(m.heads) \subseteq replica[ClientOf[j]]
      BY <2>5 DEF SentIsOwn
    <3>2. \A h \in m.heads : h \in replica[ClientOf[j]]
      BY <3>1 DEF Below
    <3>3. replica[ClientOf[j]] \subseteq Change /\ x \notin replica[ClientOf[j]]
      BY <1>c, <2>2 DEF TypeOK
    <3>4. \A h \in m.heads : deps'[h] = deps[h]
      BY <2>1, <3>2, <3>3 DEF TypeOK
    <3>5. Below(m.heads)' = Below(m.heads)
      BY <3>4 DEF Below
    <3> QED BY <1>c, <2>2, <3>1, <3>5
  <2> QED BY <2>1, <2>4, <2>5 DEF SentIsOwn, InUse
<1>9. ASSUME NEW c \in Client, SyncChanges(c) \/ \E changes \in outbox[c] : Push(c, changes)
      PROVE  SentIsOwn'
  <2>1. PICK S \in SUBSET Change :
          /\ S \subseteq replica[c] /\ current[c] \in Conn /\ SendPush(current[c], S)
          /\ UNCHANGED <<deps, arg, sock, current, replica>>
          /\ \A d \in Client : outbox'[d] \subseteq outbox[d]
    <3>1. CASE SyncChanges(c)
      <4>1. Unsynced(c) \subseteq replica[c]
        BY DocumentParts DEF Unsynced
      <4> QED BY <3>1, <4>1 DEF SyncChanges, changeVars, taskVars, clientVars, TypeOK
    <3>2. ASSUME NEW S \in outbox[c], Push(c, S)
          PROVE  /\ S \subseteq replica[c] /\ current[c] \in Conn /\ SendPush(current[c], S)
                 /\ UNCHANGED <<deps, arg, sock, current, replica>>
                 /\ \A d \in Client : outbox'[d] \subseteq outbox[d]
                 /\ S \in SUBSET Change
      BY <3>2 DEF Push, changeVars, taskVars, TypeOK, SentIsOwn
    <3> QED BY <1>9, <3>1, <3>2
  <2>2. /\ \A j \in Conn \ {current[c]} : up'[j] = up[j]
        /\ ToSet(up'[current[c]]) \subseteq ToSet(up[current[c]]) \cup {Msg("push", {}, S)}
    BY <2>1, PushType
  <2>3. Msg("push", {}, S).changes = S /\ Msg("push", {}, S).heads = {}
    BY DEF Msg
  <2>4. ClientOf[current[c]] = c
    BY <2>1, <1>c DEF ServerInv, OwnConnection
  <2> QED BY <1>6, <2>1, <2>2, <2>3, <2>4
<1>10. CASE UNCHANGED vars
  BY <1>10, <1>1 DEF vars, changeVars, taskVars, netVars, clientVars, InUse
<1> QED BY <1>2, <1>3, <1>4, <1>5, <1>7, <1>8, <1>9, <1>10 DEF Next

\* What a push brings has its paths extracted, and what is left of that is still new when the
\* push is applied.
LEMMA PathsStep ==
  ASSUME TypeOK, ServerInv, PathsExtracted, [Next]_vars
  PROVE  PathsExtracted'
<1>1. ASSUME NEW k \in Conn, ReceivePush(k) PROVE PathsExtracted'
  <2> DEFINE S == Head(up[k]).changes
  <2>1. PICK lost \in SUBSET Contended(S) :
          /\ paths' = [paths EXCEPT ![k] = AffectedPaths(S, lost)]
          /\ shadowed' = shadowed \cup lost
    BY <1>1 DEF ReceivePush
  <2>2. Head(up[k]) \in ToSet(up[k])
    BY <1>1, TailRange DEF ReceivePush, TypeOK
  <2>3. \A x \in S : deps[x] \subseteq S \cup db
    BY <2>2 DEF ServerInv, PushesFit, BuiltOnServer
  <2>4. \A x \in S \ db : x \in Fresh(S)
    BY <2>3 DEF Fresh, Applied
  <2>5. /\ arg' = [arg EXCEPT ![k] = Head(up[k])] /\ pc' = [pc EXCEPT ![k] = "extracted"]
        /\ db' = db
    BY <1>1 DEF ReceivePush, serverVars
  <2>6. ASSUME NEW x \in S \ db
        PROVE  PathOf[x] \in paths'[k] \/ (x \in shadowed' /\ Root \in paths'[k])
    <3>1. paths'[k] = AffectedPaths(S, lost)
      BY <2>1 DEF TypeOK
    <3>2. CASE x \in lost
      BY <2>1, <3>1, <3>2 DEF AffectedPaths
    <3>3. CASE x \notin lost
      BY <2>4, <3>1, <3>3 DEF AffectedPaths
    <3> QED BY <3>2, <3>3
  <2>7. \A x \in arg'[k].changes \ db' :
          PathOf[x] \in paths'[k] \/ (x \in shadowed' /\ Root \in paths'[k])
    BY <2>5, <2>6 DEF TypeOK
  <2>8. \A j \in Conn \ {k} : arg'[j] = arg[j] /\ pc'[j] = pc[j] /\ paths'[j] = paths[j]
    BY <2>1, <2>5 DEF TypeOK
  <2>9. shadowed \subseteq shadowed'
    BY <2>1
  <2> QED BY <2>5, <2>7, <2>8, <2>9 DEF PathsExtracted
<1>2. ASSUME shadowed' = shadowed, db \subseteq db',
             \A j \in Conn : pc'[j] = "extracted" =>
               pc[j] = "extracted" /\ arg'[j] = arg[j] /\ paths'[j] = paths[j]
      PROVE  PathsExtracted'
  BY <1>2 DEF PathsExtracted
<1>3. ASSUME NEW k \in Conn, Task(k), ~ReceivePush(k) PROVE PathsExtracted'
  <2>1. CASE RegisterClient(k) \/ Subscribe(k)
    BY <1>2, <2>1 DEF RegisterClient, Subscribe, serverVars, ghostVars, TypeOK
  <2>2. CASE SendSync(k) \/ SendPushAck(k)
    BY <1>2, <2>2 DEF SendSync, SendPushAck, Reply, Rest, serverVars, ghostVars, TypeOK
  <2>3. CASE Apply(k) \/ ApplyPersistFails(k)
    BY <1>2, <2>3 DEF Apply, ApplyPersistFails, GiveUp, Rest, ghostVars, TypeOK
  <2>4. CASE PickTargets(k) \/ SendBroadcast(k)
    BY <1>2, <2>4 DEF PickTargets, SendBroadcast, serverVars, ghostVars, TypeOK
  <2>5. CASE ReceiveBroadcast(k)
    BY <1>2, <2>5 DEF ReceiveBroadcast, Reply, serverVars, ghostVars, TypeOK
  <2>6. CASE Unregister(k)
    BY <1>2, <2>6 DEF Unregister, Rest, ghostVars, TypeOK
  <2> QED BY <1>3, <2>1, <2>2, <2>3, <2>4, <2>5, <2>6 DEF Task
<1>4. CASE Restart
  BY <1>4 DEF Restart, PathsExtracted
<1>5. ASSUME NEW k \in Conn, Connect(k) \/ Close(k) \/ NoticeDrop(k) \/ Receive(k)
      PROVE  PathsExtracted'
  BY <1>5, <1>2 DEF Connect, Close, NoticeDrop, Receive, serverVars, taskVars, ghostVars
<1>6. ASSUME NEW c \in Client,
             \/ \E x \in Change : SetPath(c, x) \/ SetPathLocal(c, x)
             \/ SyncChanges(c) \/ \E changes \in outbox[c] : Push(c, changes)
      PROVE  PathsExtracted'
  BY <1>6, <1>2 DEF SetPath, SetPathLocal, SyncChanges, Push, serverVars, taskVars, ghostVars
<1>7. CASE UNCHANGED vars
  BY <1>7, <1>2 DEF vars, serverVars, taskVars, ghostVars
<1> QED BY <1>1, <1>3, <1>4, <1>5, <1>6, <1>7 DEF Next

\* The push that task j is in the middle of is on its way to k.
Pushing(j, k) ==
  \/ pc[j] = "applied" /\ paths[j] \cap Patterns[k] # {}
  \/ pc[j] = "picked" /\ ClientOf[k] \in targets[j]

\* What a client is owed stays on its way when its frames and broadcasts move on and the
\* pushes go on.
LEMMA UnderWayKept ==
  ASSUME NoSilentGap, NEW k \in Conn, NEW x \in db \ missed[k], Owed(k, x),
         replica[ClientOf[k]] \subseteq replica'[ClientOf[k]],
         \A m \in ToSet(down[k]) : m \in ToSet(down'[k]) \/ m.changes \subseteq replica'[ClientOf[k]],
         \A m \in ToSet(rx[k]) : Wants(k, m) =>
           \/ m \in ToSet(rx'[k]) \/ x \notin m.changes
           \/ \E n \in ToSet(down'[k]) : m.changes \subseteq n.changes,
         \A j \in Conn : x \in arg[j].changes /\ Pushing(j, k) =>
           UnderWay(k, x)' \/ (arg'[j] = arg[j] /\ Pushing(j, k)')
  PROVE  UnderWay(k, x)'
<1>1. UnderWay(k, x)
  BY DEF NoSilentGap
<1>2. CASE x \in replica[ClientOf[k]]
  BY <1>2 DEF UnderWay
<1>3. CASE \E m \in ToSet(down[k]) : x \in m.changes
  BY <1>3 DEF UnderWay
<1>4. CASE \E m \in ToSet(rx[k]) : Wants(k, m) /\ x \in m.changes
  <2>1. PICK m \in ToSet(rx[k]) : Wants(k, m) /\ x \in m.changes
    BY <1>4
  <2>2. CASE m \in ToSet(rx'[k])
    BY <2>1, <2>2 DEF UnderWay
  <2>3. CASE \E n \in ToSet(down'[k]) : m.changes \subseteq n.changes
    BY <2>1, <2>3 DEF UnderWay
  <2> QED BY <2>1, <2>2, <2>3
<1>5. CASE \E j \in Conn : x \in arg[j].changes /\ Pushing(j, k)
  BY <1>5 DEF UnderWay, Pushing
<1> QED BY <1>1, <1>2, <1>3, <1>4, <1>5 DEF UnderWay, Pushing

\* What a client is owed after a step it was owed before, if it was connected.
LEMMA OwedBefore ==
  ASSUME NEW k, NEW x, Owed(k, x)', shadowed \subseteq shadowed',
         sock[k] = "open", InUse(k), Synced(k)
  PROVE  Owed(k, x)
BY DEF Owed

\* The steps of the tasks keep what is owed on its way.
LEMMA GapTask ==
  ASSUME TypeOK, ServerInv, SubscriptionsHeld, SentIsOwn, PathsExtracted, NoSilentGap,
         NEW i \in Conn, Task(i)
  PROVE  NoSilentGap'
<1>c. ClientOf \in [Conn -> Client] /\ Patterns \in [Conn -> SUBSET Topic]
  BY ConstantsOK DEF ConstantsOK
<1> SUFFICES ASSUME NEW k \in Conn, NEW x \in db' \ missed'[k], Owed(k, x)'
             PROVE  UnderWay(k, x)'
  BY DEF NoSilentGap
<1>0. UNCHANGED <<sock, current, replica>> /\ shadowed \subseteq shadowed' /\ missed[k] \subseteq missed'[k]
  <2>1. CASE RegisterClient(i) \/ Subscribe(i) \/ SendSync(i) \/ Unregister(i)
    BY <2>1 DEF RegisterClient, Subscribe, SendSync, Unregister, netVars, clientVars, ghostVars
  <2>2. CASE ReceivePush(i)
    BY <2>2 DEF ReceivePush, clientVars
  <2>3. CASE Apply(i) \/ PickTargets(i) \/ SendPushAck(i) \/ ReceiveBroadcast(i)
    BY <2>3 DEF Apply, PickTargets, SendPushAck, ReceiveBroadcast, netVars, clientVars, ghostVars
  <2>4. CASE ApplyPersistFails(i)
    BY <2>4 DEF ApplyPersistFails, netVars, clientVars, TypeOK
  <2>5. CASE SendBroadcast(i)
    BY <2>5 DEF SendBroadcast, netVars, clientVars, TypeOK
  <2> QED BY <2>1, <2>2, <2>3, <2>4, <2>5 DEF Task
<1>1. sock[k] = "open" /\ InUse(k)
  BY <1>0 DEF Owed, InUse
<1>2. Synced(k) => Owed(k, x)
  BY <1>0, <1>1, OwedBefore
<1>3. \A m \in {arg[k]} \cup ToSet(up[k]) : m.changes \cup Below(m.heads) \subseteq replica[ClientOf[k]]
  BY <1>1 DEF SentIsOwn
<1>4. ASSUME Synced(k), x \in db, down' = down, rx'[k] = rx[k],
             \A j \in Conn : pc[j] \in {"applied", "picked"} =>
               arg'[j] = arg[j] /\ pc'[j] = pc[j] /\ paths'[j] = paths[j] /\ targets'[j] = targets[j]
      PROVE  UnderWay(k, x)'
  BY <1>0, <1>2, <1>4, UnderWayKept DEF Pushing
<1>5. CASE RegisterClient(i) \/ Subscribe(i)
  <2>1. Synced(k)
    BY <1>1, <1>5 DEF RegisterClient, Subscribe, Owed, Synced, TypeOK
  <2> QED BY <1>4, <1>5, <2>1 DEF RegisterClient, Subscribe, netVars, serverVars, ghostVars, TypeOK
<1>6. CASE SendSync(i)
  <2>1. Reply(i, SyncReply(i), "idle") /\ Rest(i) /\ UNCHANGED <<db, rx, missed>>
    BY <1>6 DEF SendSync, serverVars, ghostVars
  <2>2. SyncReply(i) \in MsgType /\ SyncReply(i).changes = Since(db, arg[i].heads)
    <3>0. db \subseteq Change
      BY DEF TypeOK
    <3>1. Heads(db) \in SUBSET Change /\ Since(db, arg[i].heads) \in SUBSET Change
      BY <3>0, DocumentParts
    <3> QED BY <3>1, MessageTypes DEF SyncReply
  <2>3. CASE k = i
    <3>1. x \in Since(db, arg[k].heads) \/ x \in Below(arg[k].heads)
      <4>1. Applied(db) = db
        BY DocumentParts DEF ServerInv, CausallyClosed
      <4> QED BY <2>1, <4>1 DEF Since, Below
    <3>2. CASE x \in Below(arg[k].heads)
      BY <1>0, <1>3, <3>2 DEF UnderWay
    <3>3. CASE x \in Since(db, arg[k].heads)
      <4>1. down'[k] = Append(down[k], SyncReply(k)) /\ down[k] \in Seq(MsgType)
        BY <1>1, <2>1, <2>3 DEF Reply, TypeOK
      <4>2. SyncReply(k) \in ToSet(down'[k])
        BY <2>2, <2>3, <4>1, AppendRange
      <4> QED BY <2>2, <2>3, <3>3, <4>2 DEF UnderWay
    <3> QED BY <3>1, <3>2, <3>3
  <2>4. CASE k # i
    <3>1. pc'[k] = pc[k] /\ down'[k] = down[k]
      BY <2>1, <2>2, <2>4, ReplyEffect DEF PcType
    <3>2. Synced(k)
      BY <3>1 DEF Owed, Synced
    <3>3. \A j \in Conn : pc[j] \in {"applied", "picked"} =>
            arg'[j] = arg[j] /\ pc'[j] = pc[j] /\ paths'[j] = paths[j] /\ targets'[j] = targets[j]
      BY <1>6 DEF SendSync, Reply, Rest, TypeOK
    <3> QED BY <1>0, <1>2, <2>1, <3>1, <3>2, <3>3, UnderWayKept DEF Pushing
  <2> QED BY <2>3, <2>4
<1>7. CASE ReceivePush(i)
  <2>1. Synced(k)
    BY <1>7 DEF ReceivePush, Owed, Synced, TypeOK
  <2> QED BY <1>4, <1>7, <2>1 DEF ReceivePush, serverVars, TypeOK
<1>8. CASE Apply(i)
  <2>0. /\ db' = db \cup arg[i].changes /\ pc' = [pc EXCEPT ![i] = "applied"] /\ pc[i] = "extracted"
        /\ UNCHANGED <<arg, paths, targets, rx, down, missed>>
    BY <1>8 DEF Apply, netVars, ghostVars
  <2>1. Synced(k)
    BY <2>0 DEF Owed, Synced, TypeOK
  <2>2. CASE x \in db
    BY <1>4, <2>0, <2>1, <2>2 DEF TypeOK
  <2>3. CASE x \notin db
    <3>1. x \in arg[i].changes
      BY <2>0, <2>3
    <3>2. PathOf[x] \in paths[i] \/ (x \in shadowed /\ Root \in paths[i])
      BY <2>0, <2>3, <3>1 DEF PathsExtracted
    <3>3. paths[i] \cap Patterns[k] # {}
      BY <1>0, <3>2 DEF Owed
    <3>4. pc'[i] = "applied" /\ arg'[i] = arg[i] /\ paths'[i] = paths[i]
      BY <2>0 DEF TypeOK
    <3> QED BY <3>1, <3>3, <3>4 DEF UnderWay
  <2> QED BY <2>2, <2>3
<1>9. CASE ApplyPersistFails(i)
  <2>0. /\ db' = db \cup arg[i].changes /\ pc' = [pc EXCEPT ![i] = "idle"] /\ pc[i] = "extracted"
        /\ Rest(i) /\ UNCHANGED <<rx, down>>
        /\ missed' = [j \in Conn |-> IF Synced(j) THEN missed[j] \cup (arg[i].changes \ db) ELSE missed[j]]
    BY <1>9 DEF ApplyPersistFails, GiveUp, netVars
  <2>1. Synced(k)
    BY <2>0 DEF Owed, Synced, TypeOK
  <2>2. x \in db
    BY <2>0, <2>1
  <2> QED BY <1>4, <2>0, <2>1, <2>2 DEF Rest, TypeOK
<1>10. CASE PickTargets(i)
  <2>0. /\ pc[i] = "applied" /\ targets' = [targets EXCEPT ![i] = Subscribers(paths[i])]
        /\ pc' = [pc EXCEPT ![i] = IF Subscribers(paths[i]) = {} THEN "acking" ELSE "picked"]
        /\ UNCHANGED <<db, arg, paths, rx, down, missed>>
    BY <1>10 DEF PickTargets, serverVars, netVars, ghostVars
  <2>1. Synced(k)
    BY <2>0 DEF Owed, Synced, TypeOK
  <2>2. ASSUME paths[i] \cap Patterns[k] # {} PROVE pc'[i] = "picked" /\ ClientOf[k] \in targets'[i]
    <3>1. subs[ClientOf[k]] = Patterns[k]
      BY <2>1 DEF SubscriptionsHeld, Synced
    <3>2. ClientOf[k] \in Subscribers(paths[i])
      BY <1>c, <2>2, <3>1 DEF Subscribers
    <3> QED BY <2>0, <3>2 DEF TypeOK
  <2>3. \A j \in Conn : Pushing(j, k) => Pushing(j, k)'
    BY <2>0, <2>2 DEF Pushing, TypeOK
  <2> QED BY <1>0, <1>2, <2>0, <2>1, <2>3, UnderWayKept
<1>11. CASE SendBroadcast(i)
  <2> DEFINE b == BroadcastOf(i)
  <2>0. /\ pc[i] = "picked" /\ pc' = [pc EXCEPT ![i] = "acking"]
        /\ rx' = [j \in Conn |-> IF Receiving(j) THEN Enqueue(rx[j], b) ELSE rx[j]]
        /\ missed' = [j \in Conn |-> missed[j] \cup
                        UNION {m.changes : m \in {n \in Overrun(rx[j]) : Receiving(j) /\ Wants(j, n)}}]
        /\ UNCHANGED <<db, arg, paths, targets, down>>
    BY <1>11 DEF SendBroadcast, serverVars, netVars
  <2>1. Synced(k) /\ Receiving(k)
    BY <2>0 DEF Owed, Synced, Receiving, TypeOK
  <2>2. b \in BroadcastType /\ b.from = i /\ b.changes = arg[i].changes /\ b.targets = targets[i]
    BY DEF BroadcastOf, BroadcastType, TypeOK, MsgType
  <2> HIDE DEF b
  <2>3. /\ b \in ToSet(rx'[k])
        /\ \A m \in ToSet(rx[k]) : m \in ToSet(rx'[k]) \/ m \in Overrun(rx[k])
    BY <2>0, <2>1, <2>2, EnqueueKeeps DEF TypeOK
  <2>4. \A m \in ToSet(rx[k]) : Wants(k, m) => m \in ToSet(rx'[k]) \/ x \notin m.changes
    BY <2>0, <2>1, <2>3
  <2>5. ASSUME x \in arg[i].changes, Pushing(i, k) PROVE UnderWay(k, x)'
    <3>1. CASE i = k
      BY <1>0, <1>3, <2>5, <3>1 DEF UnderWay
    <3>2. CASE i # k
      <4>1. Wants(k, b) /\ x \in b.changes
        BY <2>0, <2>2, <2>5, <3>2 DEF Wants, Pushing
      <4> QED BY <2>3, <4>1 DEF UnderWay
    <3> QED BY <3>1, <3>2
  <2>6. \A j \in Conn : x \in arg[j].changes /\ Pushing(j, k) =>
          UnderWay(k, x)' \/ (arg'[j] = arg[j] /\ Pushing(j, k)')
    <3>0. pc' = [pc EXCEPT ![i] = "acking"]
      BY <2>0
    <3>1. \A j \in Conn \ {i} : pc'[j] = pc[j]
      BY <3>0 DEF TypeOK
    <3>2. arg' = arg /\ paths' = paths /\ targets' = targets
      BY <2>0
    <3>3. ASSUME NEW j \in Conn \ {i}, Pushing(j, k) PROVE arg'[j] = arg[j] /\ Pushing(j, k)'
      BY <3>1, <3>2, <3>3 DEF Pushing
    <3> QED BY <2>5, <3>3
  <2> QED BY <1>0, <1>2, <2>0, <2>1, <2>4, <2>6, UnderWayKept
<1>12. CASE SendPushAck(i)
  <2>0. Reply(i, Msg("ack", Heads(db), {}), "idle") /\ Rest(i) /\ UNCHANGED <<db, rx, missed>> /\ pc[i] = "acking"
    BY <1>12 DEF SendPushAck, serverVars
  <2>1. Msg("ack", Heads(db), {}) \in MsgType
    BY DocumentParts, MessageTypes DEF TypeOK
  <2>2. Synced(k)
    BY <2>0 DEF Reply, Owed, Synced, TypeOK
  <2>3. ToSet(down[k]) \subseteq ToSet(down'[k])
    <3>1. ToSet(Append(down[i], Msg("ack", Heads(db), {}))) = ToSet(down[i]) \cup {Msg("ack", Heads(db), {})}
      BY <2>1, AppendRange DEF TypeOK
    <3> QED BY <2>0, <3>1 DEF Reply, TypeOK
  <2>4. \A j \in Conn : pc[j] \in {"applied", "picked"} =>
          arg'[j] = arg[j] /\ pc'[j] = pc[j] /\ paths'[j] = paths[j] /\ targets'[j] = targets[j]
    BY <2>0 DEF Reply, Rest, TypeOK
  <2> QED BY <1>0, <1>2, <2>0, <2>2, <2>3, <2>4, UnderWayKept DEF Pushing
<1>13. CASE ReceiveBroadcast(i)
  <2> DEFINE h == Head(rx[i])
             m == Msg("broadcast", {}, h.changes)
  <2>0. /\ pc[i] = "idle" /\ rx[i] # <<>> /\ rx' = [rx EXCEPT ![i] = Tail(@)]
        /\ IF Wants(i, h) THEN Reply(i, m, "idle") ELSE UNCHANGED <<pc, down>>
        /\ UNCHANGED <<db, arg, paths, targets, missed>>
    BY <1>13 DEF ReceiveBroadcast, serverVars, ghostVars
  <2>1. h \in BroadcastType /\ \A n \in ToSet(rx[i]) : n = h \/ n \in ToSet(Tail(rx[i]))
    BY <2>0, TailRange, TailCovers DEF TypeOK
  <2>2. m \in MsgType /\ m.changes = h.changes
    BY <2>1, MessageTypes DEF BroadcastType
  <2> HIDE DEF h, m
  <2>3. /\ ToSet(down[k]) \subseteq ToSet(down'[k])
        /\ k = i /\ Wants(k, h) => m \in ToSet(down'[k])
    <3>1. ToSet(Append(down[i], m)) = ToSet(down[i]) \cup {m}
      BY <2>2, AppendRange DEF TypeOK
    <3> QED BY <1>1, <2>0, <3>1 DEF Reply, TypeOK
  <2>4. Synced(k)
    BY <2>0 DEF Reply, Owed, Synced, TypeOK
  <2>5. \A n \in ToSet(rx[k]) : Wants(k, n) =>
          n \in ToSet(rx'[k]) \/ \E d \in ToSet(down'[k]) : n.changes \subseteq d.changes
    <3>1. CASE k = i
      BY <2>0, <2>1, <2>2, <2>3, <3>1 DEF TypeOK
    <3>2. CASE k # i
      BY <2>0, <3>2 DEF TypeOK
    <3> QED BY <3>1, <3>2
  <2>6. \A j \in Conn : Pushing(j, k) => Pushing(j, k)'
    BY <2>0 DEF Reply, Pushing, TypeOK
  <2> QED BY <1>0, <1>2, <2>0, <2>3, <2>4, <2>5, <2>6, UnderWayKept
<1>14. CASE Unregister(i)
  <2>0. /\ pc' = [pc EXCEPT ![i] = "off"] /\ rx' = [rx EXCEPT ![i] = <<>>] /\ Rest(i)
        /\ UNCHANGED <<db, down, missed>> /\ pc[i] \in {"idle", "closing"}
    BY <1>14 DEF Unregister, Ended, ghostVars
  <2>1. Synced(k) /\ k # i
    BY <2>0 DEF Owed, Synced, TypeOK
  <2> QED BY <1>4, <2>0, <2>1 DEF Rest, TypeOK
<1> QED BY <1>5, <1>6, <1>7, <1>8, <1>9, <1>10, <1>11, <1>12, <1>13, <1>14 DEF Task

\* So do the steps of the clients and the network, and nothing is owed after a restart.
LEMMA GapStep ==
  ASSUME TypeOK, ServerInv, LivesOnce, SubscriptionsHeld, SentIsOwn, PathsExtracted, NoSilentGap,
         [Next]_vars
  PROVE  NoSilentGap'
<1>c. ClientOf \in [Conn -> Client] /\ None \notin Conn
  BY ConstantsOK DEF ConstantsOK
<1>1. ASSUME NEW k \in Conn, Task(k) PROVE NoSilentGap'
  BY <1>1, GapTask
<1>2. CASE Restart
  BY <1>2 DEF Restart, NoSilentGap, Owed, Synced
<1>3. ASSUME UNCHANGED <<db, taskVars, missed, shadowed>>,
             NEW k \in Conn, NEW x \in db \ missed[k], Owed(k, x)', sock[k] = "open", InUse(k),
             replica[ClientOf[k]] \subseteq replica'[ClientOf[k]],
             \A m \in ToSet(down[k]) : m \in ToSet(down'[k]) \/ m.changes \subseteq replica'[ClientOf[k]]
      PROVE  UnderWay(k, x)'
  <2>1. Owed(k, x)
    BY <1>3, OwedBefore DEF Owed, Synced, taskVars
  <2>2. \A j \in Conn : Pushing(j, k) => arg'[j] = arg[j] /\ Pushing(j, k)'
    BY <1>3 DEF Pushing, taskVars
  <2>3. rx' = rx
    BY <1>3 DEF taskVars
  <2> QED BY <1>3, <2>1, <2>2, <2>3, UnderWayKept
<1>4. ASSUME NEW i \in Conn, Connect(i) \/ Close(i) \/ NoticeDrop(i) \/ Receive(i)
      PROVE  NoSilentGap'
  <2>1. UNCHANGED <<db, taskVars, missed, shadowed>>
    BY <1>4 DEF Connect, Close, NoticeDrop, Receive, serverVars, ghostVars
  <2> SUFFICES ASSUME NEW k \in Conn, NEW x \in db \ missed[k], Owed(k, x)' PROVE UnderWay(k, x)'
    BY <2>1 DEF NoSilentGap
  <2>2. sock'[k] = "open" /\ InUse(k)' /\ pc[k] # "off"
    BY <2>1 DEF Owed, Synced, taskVars
  <2>3. CASE Connect(i)
    <3>1. /\ sock[i] = "new" /\ sock' = [sock EXCEPT ![i] = "open"]
          /\ current' = [current EXCEPT ![ClientOf[i]] = i] /\ down' = down
          /\ replica' = IF ClientOf[i] \in Delta THEN replica ELSE [replica EXCEPT ![ClientOf[i]] = {}]
      BY <2>3 DEF Connect
    <3>2. k # i /\ ClientOf[k] # ClientOf[i]
      BY <1>c, <2>2, <3>1 DEF LivesOnce, Finished, InUse, TypeOK
    <3>3. sock[k] = "open" /\ InUse(k) /\ replica'[ClientOf[k]] = replica[ClientOf[k]]
      BY <1>c, <2>2, <3>1, <3>2 DEF InUse, TypeOK
    <3> QED BY <1>3, <2>1, <3>1, <3>3
  <2>4. CASE Close(i) \/ NoticeDrop(i)
    <3>1. k # i /\ sock[k] = "open" /\ InUse(k) /\ down'[k] = down[k] /\ replica' = replica
      BY <1>c, <2>2, <2>4 DEF Close, NoticeDrop, InUse, TypeOK
    <3> QED BY <1>3, <2>1, <3>1
  <2>5. CASE Receive(i)
    <3>1. /\ down[i] # <<>> /\ down' = [down EXCEPT ![i] = Tail(@)] /\ UNCHANGED <<sock, current>>
          /\ replica' = [replica EXCEPT ![ClientOf[i]] = @ \cup Head(down[i]).changes]
      BY <2>5 DEF Receive
    <3>2. \A m \in ToSet(down[i]) : m = Head(down[i]) \/ m \in ToSet(Tail(down[i]))
      BY <3>1, TailCovers DEF TypeOK
    <3>3. \A m \in ToSet(down[k]) : m \in ToSet(down'[k]) \/ m.changes \subseteq replica'[ClientOf[k]]
      BY <1>c, <3>1, <3>2 DEF TypeOK
    <3>4. replica[ClientOf[k]] \subseteq replica'[ClientOf[k]]
      BY <1>c, <3>1 DEF TypeOK
    <3>5. sock[k] = "open" /\ InUse(k)
      BY <2>2, <3>1 DEF InUse
    <3> QED BY <1>3, <2>1, <3>3, <3>4, <3>5
  <2> QED BY <1>4, <2>3, <2>4, <2>5
<1>5. ASSUME UNCHANGED <<db, taskVars, missed, shadowed, sock, current, down>>,
             \A c \in Client : replica[c] \subseteq replica'[c]
      PROVE  NoSilentGap'
  <2> SUFFICES ASSUME NEW k \in Conn, NEW x \in db \ missed[k], Owed(k, x)' PROVE UnderWay(k, x)'
    BY <1>5 DEF NoSilentGap
  <2>1. sock[k] = "open" /\ InUse(k)
    BY <1>5 DEF Owed, InUse
  <2> QED BY <1>3, <1>5, <1>c, <2>1
<1>6. ASSUME NEW c \in Client, NEW x \in Change, SetPath(c, x) \/ SetPathLocal(c, x)
      PROVE  NoSilentGap'
  <2>1. replica' = [replica EXCEPT ![c] = @ \cup {x}]
    BY <1>6 DEF SetPath, SetPathLocal, Write
  <2>2. \A d \in Client : replica[d] \subseteq replica'[d]
    BY <2>1 DEF TypeOK
  <2> QED BY <1>5, <1>6, <2>2 DEF SetPath, SetPathLocal, serverVars, netVars, ghostVars
<1>7. ASSUME NEW c \in Client, SyncChanges(c) \/ \E changes \in outbox[c] : Push(c, changes)
      PROVE  NoSilentGap'
  BY <1>5, <1>7 DEF SyncChanges, Push, serverVars, clientVars, ghostVars
<1>8. CASE UNCHANGED vars
  BY <1>5, <1>8 DEF vars, serverVars, netVars, clientVars, ghostVars
<1> QED BY <1>1, <1>2, <1>4, <1>6, <1>7, <1>8 DEF Next

\* Nothing is connected and nothing is owed at first.
LEMMA GapInit == Init => GapInv
<1> SUFFICES ASSUME Init PROVE GapInv
  OBVIOUS
<1>1. ClientOf \in [Conn -> Client] /\ None \notin Conn
  BY ConstantsOK DEF ConstantsOK
<1> QED BY <1>1 DEF Init, GapInv, LivesOnce, OneAtATime, SubscriptionsHeld, SentIsOwn, PathsExtracted,
                    NoSilentGap, Finished, InUse

\* The strengthening of NoSilentGap is inductive.
THEOREM GapInvCorrect == ASSUME ~Overlap PROVE Spec => []GapInv
<1>1. TypeOK /\ ServerInv /\ GapInv /\ [Next]_vars => GapInv'
  <2> SUFFICES ASSUME TypeOK, ServerInv, GapInv, [Next]_vars PROVE GapInv'
    OBVIOUS
  <2> QED BY LivesStep, OneStep, SubscriptionsStep, SentStep, PathsStep, GapStep DEF GapInv
<1> QED BY <1>1, GapInit, TypeCorrect, ServerInvCorrect, PTL DEF Spec

\* Where no client connects again before the server saw it leave, a connected client never
\* silently misses a change on a path it subscribed to.
THEOREM NoSilentGaps == ASSUME ~Overlap PROVE Spec => []NoSilentGap
BY GapInvCorrect, PTL DEF GapInv

-----------------------------------------------------------------------------
(* Nothing held back, when every client pushes its whole history. *)

WholeInv == WholeHistories /\ NothingHeldBack

\* A step that moves frames and broadcasts on, and adds only whole histories, keeps the invariant.
LEMMA WholeKept ==
  ASSUME WholeInv, deps' = deps,
         \A c \in Client : Closed(replica'[c]),
         \A j \in Conn :
           /\ arg'[j] \in {arg[j], NoMsg} \cup ToSet(up[j])
           /\ \A m \in ToSet(up'[j]) \ ToSet(up[j]) : Closed(m.changes) /\ m.heads = {}
           /\ \A m \in ToSet(down'[j]) \ ToSet(down[j]) : Closed(m.changes)
           /\ \A m \in ToSet(rx'[j]) \ ToSet(rx[j]) : Closed(m.changes)
  PROVE  WholeInv'
<1>1. \A S : Closed(S)' <=> Closed(S)
  BY DEF Closed
<1>2. Closed(NoMsg.changes) /\ NoMsg.heads = {}
  BY DEF NoMsg, Msg, Closed
<1>3. ASSUME NEW j \in Conn
      PROVE  /\ \A m \in {arg'[j]} \cup ToSet(up'[j]) : Closed(m.changes) /\ m.heads = {}
             /\ \A m \in ToSet(down'[j]) \cup ToSet(rx'[j]) : Closed(m.changes)
  BY <1>2 DEF WholeInv, WholeHistories
<1> QED BY <1>1, <1>3 DEF WholeInv, WholeHistories, NothingHeldBack

\* The steps of the tasks: the Sync is the whole document, a broadcast is the push.
LEMMA WholeTask ==
  ASSUME TypeOK, ServerInv, WholeInv, NEW k \in Conn, Task(k)
  PROVE  WholeInv'
<1>h. up[k] # <<>> => /\ Head(up[k]) \in ToSet(up[k])
                      /\ ToSet(Tail(up[k])) \subseteq ToSet(up[k])
  BY TailRange DEF TypeOK
<1>r. deps' = deps /\ replica' = replica
  BY DEF Task, RegisterClient, Subscribe, SendSync, ReceivePush, Apply, ApplyPersistFails, PickTargets,
         SendBroadcast, SendPushAck, ReceiveBroadcast, Unregister, changeVars, clientVars
<1>w. \A c \in Client : Closed(replica'[c])
  BY <1>r DEF WholeInv, NothingHeldBack
<1>e. ToSet(<<>>) = {}
  BY EmptyRange
<1>1. CASE RegisterClient(k) \/ ReceivePush(k)
  BY <1>1, <1>h, <1>r, <1>w, WholeKept DEF RegisterClient, ReceivePush, TypeOK
<1>2. CASE Subscribe(k) \/ Apply(k) \/ PickTargets(k)
  BY <1>2, <1>r, <1>w, WholeKept DEF Subscribe, Apply, PickTargets, netVars
<1>3. CASE SendSync(k)
  <2>1. Heads(db) \in SUBSET Change /\ Since(db, arg[k].heads) \in SUBSET Change
    <3>1. db \subseteq Change
      BY DEF TypeOK
    <3> QED BY <3>1, DocumentParts
  <2>2. SyncReply(k) \in MsgType /\ SyncReply(k).changes = Since(db, arg[k].heads)
    BY <2>1, MessageTypes DEF SyncReply
  <2>3. Since(db, arg[k].heads) = db
    <3>1. Applied(db) = db
      BY DocumentParts DEF ServerInv, CausallyClosed
    <3> QED BY <3>1 DEF Since, Below, WholeInv, WholeHistories
  <2>4. Closed(SyncReply(k).changes)
    BY <2>2, <2>3 DEF ServerInv, CausallyClosed
  <2>5. Reply(k, SyncReply(k), "idle") /\ Rest(k) /\ UNCHANGED <<rx, up>>
    BY <1>3 DEF SendSync
  <2>6. \A j \in Conn : ToSet(down'[j]) \subseteq ToSet(down[j]) \cup {SyncReply(k)}
    BY <2>2, <2>5, ReplyEffect DEF PcType
  <2>7. \A j \in Conn : arg'[j] \in {arg[j], NoMsg}
    BY <2>5, RestEffect
  <2> QED BY <1>r, <1>w, <2>4, <2>5, <2>6, <2>7, WholeKept
<1>4. CASE ApplyPersistFails(k)
  <2>1. Rest(k) /\ UNCHANGED <<rx, up, down>>
    BY <1>4 DEF ApplyPersistFails, GiveUp, netVars
  <2>2. \A j \in Conn : arg'[j] \in {arg[j], NoMsg}
    BY <2>1, RestEffect
  <2> QED BY <1>r, <1>w, <2>1, <2>2, WholeKept
<1>5. CASE SendBroadcast(k)
  <2> DEFINE b == BroadcastOf(k)
  <2>1. rx' = [j \in Conn |-> IF Receiving(j) THEN Enqueue(rx[j], b) ELSE rx[j]]
        /\ UNCHANGED <<arg, up, down>>
    BY <1>5 DEF SendBroadcast, netVars
  <2>2. b \in BroadcastType /\ b.changes = arg[k].changes
    BY DEF BroadcastOf, BroadcastType, TypeOK, MsgType
  <2> HIDE DEF b
  <2>3. \A j \in Conn : ToSet(rx'[j]) \subseteq ToSet(rx[j]) \cup {b}
    <3>1. \A s \in Seq(BroadcastType) : ToSet(Enqueue(s, b)) \subseteq ToSet(s) \cup {b}
      BY <2>2, EnqueueRange
    <3> QED BY <2>1, <3>1 DEF TypeOK
  <2>4. Closed(b.changes)
    BY <2>2 DEF WholeInv, WholeHistories
  <2> QED BY <1>r, <1>w, <2>1, <2>3, <2>4, WholeKept
<1>6. CASE SendPushAck(k)
  <2> DEFINE m == Msg("ack", Heads(db), {})
  <2>1. Reply(k, m, "idle") /\ Rest(k) /\ UNCHANGED <<rx, up>>
    BY <1>6 DEF SendPushAck
  <2>2. m \in MsgType /\ Closed(m.changes)
    <3>1. Heads(db) \in SUBSET Change /\ {} \in SUBSET Change
      BY DocumentParts DEF TypeOK
    <3>2. m \in MsgType /\ m.changes = {}
      BY <3>1, MessageTypes
    <3> QED BY <3>2 DEF Closed
  <2>3. \A j \in Conn : ToSet(down'[j]) \subseteq ToSet(down[j]) \cup {m}
    BY <2>1, <2>2, ReplyEffect DEF PcType
  <2>4. \A j \in Conn : arg'[j] \in {arg[j], NoMsg}
    BY <2>1, RestEffect
  <2> QED BY <1>r, <1>w, <2>1, <2>2, <2>3, <2>4, WholeKept
<1>7. CASE ReceiveBroadcast(k)
  <2> DEFINE h == Head(rx[k])
             m == Msg("broadcast", {}, h.changes)
  <2>1. /\ rx[k] # <<>> /\ rx' = [rx EXCEPT ![k] = Tail(@)] /\ UNCHANGED <<arg, up>>
        /\ IF Wants(k, h) THEN Reply(k, m, "idle") ELSE UNCHANGED <<pc, down>>
    BY <1>7 DEF ReceiveBroadcast
  <2>2. h \in BroadcastType /\ h \in ToSet(rx[k]) /\ ToSet(Tail(rx[k])) \subseteq ToSet(rx[k])
    BY <2>1, TailRange DEF TypeOK
  <2>3. m \in MsgType /\ Closed(m.changes)
    <3>1. h.changes \in SUBSET Change /\ {} \in SUBSET Change
      BY <2>2 DEF BroadcastType
    <3>2. m \in MsgType /\ m.changes = h.changes
      BY <3>1, MessageTypes
    <3> QED BY <2>2, <3>2 DEF WholeInv, WholeHistories
  <2> HIDE DEF h, m
  <2>4. \A j \in Conn : ToSet(down'[j]) \subseteq ToSet(down[j]) \cup {m}
    BY <2>1, <2>3, ReplyEffect DEF PcType
  <2>5. \A j \in Conn : ToSet(rx'[j]) \subseteq ToSet(rx[j])
    BY <2>1, <2>2 DEF TypeOK
  <2> QED BY <1>r, <1>w, <2>1, <2>3, <2>4, <2>5, WholeKept
<1>8. CASE Unregister(k)
  <2>1. /\ up' = [up EXCEPT ![k] = <<>>] /\ rx' = [rx EXCEPT ![k] = <<>>] /\ down' = down /\ Rest(k)
    BY <1>8 DEF Unregister
  <2>2. \A j \in Conn : arg'[j] \in {arg[j], NoMsg}
    BY <2>1, RestEffect
  <2>3. \A j \in Conn : ToSet(up'[j]) \subseteq ToSet(up[j]) /\ ToSet(rx'[j]) \subseteq ToSet(rx[j])
    BY <2>1, <1>e DEF TypeOK
  <2> QED BY <1>r, <1>w, <2>1, <2>2, <2>3, WholeKept
<1> QED BY <1>1, <1>2, <1>3, <1>4, <1>5, <1>6, <1>7, <1>8 DEF Task

\* The other steps: a client's document takes whole histories and its own changes only.
LEMMA WholeStep ==
  ASSUME Delta = {}, TypeOK, ServerInv, WholeInv, [Next]_vars
  PROVE  WholeInv'
<1>c. ClientOf \in [Conn -> Client] /\ None \notin Conn
  BY ConstantsOK DEF ConstantsOK
<1>e. ToSet(<<>>) = {} /\ Closed({})
  BY EmptyRange DEF Closed
<1>1. ASSUME NEW k \in Conn, Task(k) PROVE WholeInv'
  BY <1>1, WholeTask
<1>2. CASE Restart
  BY <1>2, <1>e, WholeKept DEF Restart, WholeInv, NothingHeldBack, changeVars, clientVars
<1>3. ASSUME NEW k \in Conn, Connect(k) PROVE WholeInv'
  <2> DEFINE m == Msg("connect", {}, {})
  <2>1. /\ replica' = [replica EXCEPT ![ClientOf[k]] = {}] /\ up' = [up EXCEPT ![k] = <<m>>]
        /\ UNCHANGED <<deps, arg, rx, down>>
    BY <1>3 DEF Connect, changeVars, taskVars
  <2>2. ToSet(<<m>>) = {m} /\ m.changes = {} /\ m.heads = {}
    BY DEF ToSet, Msg
  <2> HIDE DEF m
  <2>3. \A j \in Conn : ToSet(up'[j]) \subseteq ToSet(up[j]) \cup {m}
    BY <2>1, <2>2 DEF TypeOK
  <2>4. \A c \in Client : Closed(replica'[c])
    BY <1>c, <1>e, <2>1 DEF TypeOK, WholeInv, NothingHeldBack
  <2> QED BY <1>e, <2>1, <2>2, <2>3, <2>4, WholeKept
<1>4. ASSUME NEW k \in Conn, Close(k) \/ NoticeDrop(k) PROVE WholeInv'
  <2>1. \A j \in Conn : ToSet(up'[j]) \subseteq ToSet(up[j])
    <3>1. CASE Close(k)
      <4>1. PICK n \in 0 .. Len(up[k]) : up' = [up EXCEPT ![k] = SubSeq(@, 1, n)]
        BY <3>1 DEF Close
      <4>2. ToSet(SubSeq(up[k], 1, n)) \subseteq ToSet(up[k])
        BY PrefixRange DEF TypeOK
      <4> QED BY <4>1, <4>2 DEF TypeOK
    <3>2. CASE NoticeDrop(k)
      BY <3>2 DEF NoticeDrop
    <3> QED BY <1>4, <3>1, <3>2
  <2>2. UNCHANGED <<deps, arg, rx, replica>> /\ down' = [down EXCEPT ![k] = <<>>]
    BY <1>4 DEF Close, NoticeDrop, changeVars, taskVars
  <2>3. \A j \in Conn : ToSet(down'[j]) \subseteq ToSet(down[j])
    BY <2>2, <1>e DEF TypeOK
  <2>4. \A c \in Client : Closed(replica'[c])
    BY <2>2 DEF WholeInv, NothingHeldBack
  <2> QED BY <2>1, <2>2, <2>3, <2>4, WholeKept
<1>5. ASSUME NEW k \in Conn, Receive(k) PROVE WholeInv'
  <2>1. /\ down[k] # <<>> /\ down' = [down EXCEPT ![k] = Tail(@)] /\ UNCHANGED <<deps, arg, rx, up>>
        /\ replica' = [replica EXCEPT ![ClientOf[k]] = @ \cup Head(down[k]).changes]
    BY <1>5 DEF Receive, changeVars, taskVars
  <2>2. Head(down[k]) \in ToSet(down[k]) /\ ToSet(Tail(down[k])) \subseteq ToSet(down[k])
    BY <2>1, TailRange DEF TypeOK
  <2>3. Closed(Head(down[k]).changes) /\ Closed(replica[ClientOf[k]])
    BY <1>c, <2>2 DEF WholeInv, WholeHistories, NothingHeldBack
  <2>4. Closed(replica[ClientOf[k]] \cup Head(down[k]).changes)
    BY <2>3 DEF Closed
  <2>5. \A c \in Client : Closed(replica'[c])
    BY <1>c, <2>1, <2>4 DEF TypeOK, WholeInv, NothingHeldBack
  <2>6. \A j \in Conn : ToSet(down'[j]) \subseteq ToSet(down[j])
    BY <2>1, <2>2 DEF TypeOK
  <2> QED BY <2>1, <2>5, <2>6, WholeKept
<1>6. ASSUME NEW c \in Client, NEW x \in Change, SetPath(c, x) \/ SetPathLocal(c, x) PROVE WholeInv'
  <2>1. /\ x \notin written /\ deps' = [deps EXCEPT ![x] = Applied(replica[c])]
        /\ replica' = [replica EXCEPT ![c] = @ \cup {x}]
        /\ UNCHANGED <<arg, up, rx, down>>
    BY <1>6 DEF SetPath, SetPathLocal, Write, taskVars, netVars
  <2>2. ASSUME NEW S \in SUBSET written, Closed(S) PROVE Closed(S)'
    <3>1. \A y \in S : deps'[y] = deps[y]
      BY <2>1, <2>2 DEF TypeOK
    <3> QED BY <2>2, <3>1 DEF Closed
  <2>3. ASSUME NEW d \in Client PROVE \A y \in replica'[d] : deps'[y] \subseteq replica'[d]
    <3>1. replica[d] \subseteq written /\ Closed(replica[d])
      BY DEF ServerInv, OnlyWritten, WholeInv, NothingHeldBack
    <3>3. CASE d # c
      <4>1. replica'[d] = replica[d]
        BY <2>1, <3>3 DEF TypeOK
      <4>2. \A y \in replica[d] : deps'[y] \subseteq replica[d]
        BY <2>2, <3>1 DEF Closed
      <4> QED BY <4>1, <4>2
    <3>4. CASE d = c
      <4>1. replica'[c] = replica[c] \cup {x} /\ deps'[x] \subseteq replica[c]
        BY <2>1, DocumentParts DEF TypeOK
      <4>2. \A y \in replica[c] : deps'[y] \subseteq replica[c]
        BY <2>2, <3>1, <3>4 DEF Closed
      <4> QED BY <3>4, <4>1, <4>2
    <3> QED BY <3>3, <3>4
  <2>4. \A j \in Conn : /\ arg[j].changes \subseteq written
                        /\ \A m \in ToSet(up[j]) \cup ToSet(down[j]) \cup ToSet(rx[j]) : m.changes \subseteq written
    <3>1. OnlyWritten
      BY DEF ServerInv
    <3> QED BY <3>1 DEF OnlyWritten
  <2>5. ASSUME NEW j \in Conn
        PROVE  /\ \A m \in {arg[j]} \cup ToSet(up[j]) : Closed(m.changes)' /\ m.heads = {}
               /\ \A m \in ToSet(down[j]) \cup ToSet(rx[j]) : Closed(m.changes)'
    BY <2>2, <2>4 DEF WholeInv, WholeHistories
  <2>6. WholeHistories'
    BY <2>1, <2>5 DEF WholeHistories
  <2>7. NothingHeldBack'
    BY <2>3 DEF NothingHeldBack, Closed
  <2> QED BY <2>6, <2>7 DEF WholeInv
<1>7. ASSUME NEW c \in Client, SyncChanges(c) \/ \E changes \in outbox[c] : Push(c, changes)
      PROVE  WholeInv'
  <2>1. PICK S \in outbox[c] : Push(c, S)
    BY <1>7 DEF SyncChanges
  <2> DEFINE m == Msg("push", {}, S)
  <2>2. /\ current[c] \in Conn /\ SendPush(current[c], S) /\ UNCHANGED <<deps, arg, rx, down, replica>>
    BY <2>1 DEF Push, changeVars, taskVars, TypeOK
  <2>3. S \in SUBSET Change /\ Closed(S)
    BY DEF TypeOK, ServerInv, OutboxComplete
  <2>4. m.changes = S /\ m.heads = {}
    BY DEF Msg
  <2>5. \A j \in Conn : ToSet(up'[j]) \subseteq ToSet(up[j]) \cup {m}
    BY <2>2, <2>3, PushType
  <2>6. \A d \in Client : Closed(replica'[d])
    BY <2>2 DEF WholeInv, NothingHeldBack
  <2> QED BY <2>2, <2>3, <2>4, <2>5, <2>6, WholeKept
<1>8. CASE UNCHANGED vars
  BY <1>8, WholeKept DEF vars, changeVars, taskVars, netVars, clientVars, WholeInv, NothingHeldBack
<1> QED BY <1>1, <1>2, <1>3, <1>4, <1>5, <1>6, <1>7, <1>8 DEF Next

\* Where every client pushes everything it has, as the native one does, no client is left with
\* changes it lacks a dependency of.
THEOREM NeverHeldBack == ASSUME Delta = {} PROVE Spec => []NothingHeldBack
<1>1. Init => WholeInv
  BY EmptyRange DEF Init, WholeInv, WholeHistories, NothingHeldBack, Closed, NoMsg, Msg
<1>2. TypeOK /\ ServerInv /\ WholeInv /\ [Next]_vars => WholeInv'
  BY WholeStep
<1>3. WholeInv => NothingHeldBack
  BY DEF WholeInv
<1> QED BY <1>1, <1>2, <1>3, TypeCorrect, ServerInvCorrect, PTL DEF Spec
=============================================================================
