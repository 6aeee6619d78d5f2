----------------------------- MODULE SyncServer -----------------------------
(***************************************************************************)
(* The sync server (swirldb-server: handler.rs, state.rs) together with    *)
(* its clients: the native SyncClient (swirldb-client) and the browser     *)
(* binding (swirldb-browser).  One server process holds the shared         *)
(* document, one task per WebSocket runs handle_websocket, and all tasks   *)
(* meet in three shared things: the document behind an RwLock, the         *)
(* subscription table behind a Mutex, and the broadcast channel.           *)
(*                                                                         *)
(* A task is cut into one action per stretch of code between two awaits at *)
(* which it holds no lock, so that every interleaving of tasks the runtime *)
(* can produce is a behaviour.  A change is an Automerge change: an opaque *)
(* value with the set of changes it depends on.  A document is the set of  *)
(* the changes it was given; those whose dependencies it lacks are held    *)
(* back (Applied).                                                         *)
(***************************************************************************)
EXTENDS Naturals, Sequences, FiniteSets, SequencesExt

CONSTANTS
  Client,          \* client_ids
  Conn,            \* connection_ids, one per WebSocket ever opened
  Change,          \* Automerge changes
  Path,            \* paths a change can write
  Root,            \* the parent object's path, where a conflict is reported
  ClientOf,        \* ClientOf[k]: the client_id sent in k's Connect
  Patterns,        \* Patterns[k]: the topics matched by the patterns granted to k
  PathOf,          \* PathOf[x]: the path x writes
  Delta,           \* the browser clients: they push deltas; the others push everything
  Cap,             \* capacity of the broadcast channel (BROADCAST_CHANNEL_SIZE)
  Overlap,         \* may a client connect again before the server saw it leave?
  PersistFails,    \* may a write to storage fail?
  MaxFrames,       \* bound: syncChanges adds to fewer than this many frames under way
  MaxFaults,       \* bound: connections lost and crashes of the server, together
  None             \* no connection

Topic == Path \cup {Root}

ASSUME ConstantsOK ==
  /\ Root \notin Path
  /\ None \notin Conn
  /\ ClientOf \in [Conn -> Client]
  /\ Patterns \in [Conn -> SUBSET Topic]
  /\ PathOf \in [Change -> Path]
  /\ Delta \subseteq Client
  /\ Cap \in Nat \ {0}
  /\ Overlap \in BOOLEAN
  /\ PersistFails \in BOOLEAN
  /\ MaxFrames \in Nat
  /\ MaxFaults \in Nat

VARIABLES
  \* The change graph: what was written, and each change's dependencies.
  written, deps,
  \* ServerState: the document, its stored image, the subscription table
  \* (by client_id) and the connection table (by connection_id).
  db, store, subs, clients,
  \* One handle_websocket task per connection: where it is, the message it
  \* handles, the affected paths and the target clients it has computed, and
  \* its receiver of the broadcast channel.
  pc, arg, paths, targets, rx,
  \* The WebSockets: state, frames to the server, frames to the client.
  sock, up, down,
  \* The clients: document, last_synced_heads, the connection in use, whether
  \* the handshake is over (a SyncClient exists only then), and the pushes that
  \* calls of set_path have built but not sent yet.
  replica, synced, current, ready, outbox,
  \* History: per connection, the changes it was not told of because the
  \* channel overran or persist failed; the changes reported as conflicts; the
  \* changes acknowledged to their sender; the faults so far.
  missed, shadowed, acked, faults

changeVars == <<written, deps>>
serverVars == <<db, store, subs, clients>>
taskVars   == <<pc, arg, paths, targets, rx>>
netVars    == <<sock, up, down>>
clientVars == <<replica, synced, current, ready, outbox>>
ghostVars  == <<missed, shadowed, acked, faults>>
vars == <<changeVars, serverVars, taskVars, netVars, clientVars, ghostVars>>

-----------------------------------------------------------------------------
(* Documents. *)

\* The changes of S that take effect: every dependency is there too.  The
\* others wait in Automerge's queue.
Applied(S) == {x \in S : deps[x] \subseteq S}

Closed(S) == \A x \in S : deps[x] \subseteq S

\* get_heads: the applied changes that no applied change depends on.
Heads(S) == {x \in Applied(S) : \A y \in Applied(S) : x \notin deps[y]}

\* get_changes_since: the applied changes that are not ancestors of the given
\* heads.  A head the document does not know is ignored.
Below(H) == H \cup UNION {deps[h] : h \in H}
Since(S, H) == Applied(S) \ Below(H \cap Applied(S))

-----------------------------------------------------------------------------
(* Messages, the sockets and the broadcast channel. *)

Msg(type, heads, changes) == [type |-> type, heads |-> heads, changes |-> changes]
NoMsg == Msg("none", {}, {})

\* The task holds a receiver of the channel; it has sent its Sync.
Receiving(k) == pc[k] \notin {"off", "registered"}
Synced(k) == pc[k] \notin {"off", "registered", "greeted"}

\* sender.send(..).await followed by `if let Err(e) { break }`: while the peer is
\* there the frame goes out; once it is gone the frame is lost, and the task
\* notices (break) or not.
Reply(k, m, next) ==
  \/ /\ sock[k] = "open"
     /\ down' = [down EXCEPT ![k] = Append(@, m)]
     /\ pc' = [pc EXCEPT ![k] = next]
  \/ /\ sock[k] # "open"
     /\ down' = down
     /\ \E p \in {next, "closing"} : pc' = [pc EXCEPT ![k] = p]

\* tokio's broadcast ring: a receiver that is Cap messages behind loses the
\* oldest one.  (Its next recv returns Lagged, which the handler only logs.)
Enqueue(q, m) == IF Len(q) < Cap THEN Append(q, m) ELSE Append(Tail(q), m)

Overrun(q) == IF Len(q) < Cap THEN {} ELSE {Head(q)}

\* Mutant: the sender is told apart by client_id, against connection_ids.
WantsOthers(k, m) == ClientOf[m.from] # ClientOf[k] /\ k \in m.targets

\* The filter of the receiving side: not to the sender's own connection, and
\* only to the clients that were picked.
Wants(k, m) == m.from # k /\ ClientOf[k] \in m.targets

\* A task forgets its locals when it returns to the select!.
Rest(k) ==
  /\ arg' = [arg EXCEPT ![k] = NoMsg]
  /\ paths' = [paths EXCEPT ![k] = {}]
  /\ targets' = [targets EXCEPT ![k] = {}]

-----------------------------------------------------------------------------
(* Connect: register, subscribe to the channel, send the initial Sync. *)

\* register_client: the subscriptions of the client_id are replaced under the
\* lock, then the connection is entered in the table.
RegisterClient(k) ==
  /\ pc[k] = "off"
  /\ up[k] # <<>> /\ Head(up[k]).type = "connect"
  /\ subs' = [subs EXCEPT ![ClientOf[k]] = Patterns[k]]
  /\ clients' = clients \cup {k}
  /\ arg' = [arg EXCEPT ![k] = Head(up[k])]
  /\ up' = [up EXCEPT ![k] = Tail(@)]
  /\ pc' = [pc EXCEPT ![k] = "registered"]
  /\ UNCHANGED <<changeVars, db, store, paths, targets, rx, sock, down,
                 clientVars, ghostVars>>

\* subscribe_to_broadcasts, then SubscribeAck.  The receiver sees only what is
\* sent from here on.  (The ack carries nothing the model needs.)
Subscribe(k) ==
  /\ pc[k] = "registered"
  /\ \/ pc' = [pc EXCEPT ![k] = "greeted"]
     \/ sock[k] # "open" /\ pc' = [pc EXCEPT ![k] = "closing"]
  /\ UNCHANGED <<changeVars, serverVars, arg, paths, targets, rx, netVars,
                 clientVars, ghostVars>>

\* One read lock for heads and changes.
SyncReply(k) == Msg("sync", Heads(db), Since(db, arg[k].heads))

SendSync(k) ==
  /\ pc[k] = "greeted"
  /\ Reply(k, SyncReply(k), "idle")
  /\ Rest(k)
  /\ UNCHANGED <<changeVars, serverVars, rx, sock, up, clientVars, ghostVars>>

-----------------------------------------------------------------------------
(* Push: extract the affected paths, apply and persist, pick the subscribers, *)
(* broadcast, acknowledge.                                                    *)

\* extract_affected_paths applies the changes to a copy and reads the paths of
\* the patches: what the document already has, or cannot apply yet, has none.
Fresh(changes) == Applied(db \cup changes) \ Applied(db)

\* A write that loses against a concurrent write to the same path shows up as a
\* Conflict patch, which carries the parent's path only.
Contended(changes) ==
  {x \in Fresh(changes) : \E y \in Applied(db \cup changes) :
     /\ y # x
     /\ PathOf[y] = PathOf[x]
     /\ y \notin deps[x] /\ x \notin deps[y]}

\* Mutant: Conflict patches are not looked at.
AffectedPathsOfWinners(changes, lost) == {PathOf[x] : x \in Fresh(changes) \ lost}

AffectedPaths(changes, lost) ==
  {PathOf[x] : x \in Fresh(changes) \ lost} \cup (IF lost = {} THEN {} ELSE {Root})

ReceivePush(k) ==
  /\ pc[k] = "idle"
  /\ up[k] # <<>> /\ Head(up[k]).type = "push"
  /\ \E lost \in SUBSET Contended(Head(up[k]).changes) :
       /\ paths' = [paths EXCEPT ![k] = AffectedPaths(Head(up[k]).changes, lost)]
       /\ shadowed' = shadowed \cup lost
  /\ arg' = [arg EXCEPT ![k] = Head(up[k])]
  /\ up' = [up EXCEPT ![k] = Tail(@)]
  /\ pc' = [pc EXCEPT ![k] = "extracted"]
  /\ UNCHANGED <<changeVars, serverVars, targets, rx, sock, down, clientVars,
                 missed, acked, faults>>

\* Mutant: persist later.
PersistLater == store' = store

\* persist: the stored image is the whole document.
Persist == store' = db'

\* apply_changes_inner under the write lock: apply, then persist.
Apply(k) ==
  /\ pc[k] = "extracted"
  /\ db' = db \cup arg[k].changes
  /\ Persist
  /\ pc' = [pc EXCEPT ![k] = "applied"]
  /\ UNCHANGED <<changeVars, subs, clients, arg, paths, targets, rx, netVars,
                 clientVars, ghostVars>>

\* Mutant: the error is ignored.
CarryOn(k) ==
  /\ pc' = [pc EXCEPT ![k] = "applied"]
  /\ UNCHANGED <<arg, paths, targets>>

\* The error is logged and the task goes back to the select!.
GiveUp(k) ==
  /\ pc' = [pc EXCEPT ![k] = "idle"]
  /\ Rest(k)

\* persist fails: the document keeps the changes, and there is neither a
\* broadcast nor a PushAck.
ApplyPersistFails(k) ==
  /\ PersistFails
  /\ pc[k] = "extracted"
  /\ db' = db \cup arg[k].changes
  /\ missed' = [j \in Conn |-> IF Synced(j) THEN missed[j] \cup (arg[k].changes \ db) ELSE missed[j]]
  /\ GiveUp(k)
  /\ UNCHANGED <<changeVars, store, subs, clients, rx, netVars, clientVars,
                 shadowed, acked, faults>>

\* Mutant: connection_ids where client_ids are meant.
SubscribersByConn(ps) == {k \in clients : subs[ClientOf[k]] \cap ps # {}}

\* get_subscribers_for_paths, under the lock.
Subscribers(ps) == {c \in Client : subs[c] \cap ps # {}}

PickTargets(k) ==
  /\ pc[k] = "applied"
  /\ targets' = [targets EXCEPT ![k] = Subscribers(paths[k])]
  /\ pc' = [pc EXCEPT ![k] = IF Subscribers(paths[k]) = {} THEN "acking" ELSE "picked"]
  /\ UNCHANGED <<changeVars, serverVars, arg, paths, rx, netVars, clientVars,
                 ghostVars>>

BroadcastOf(k) == [from |-> k, changes |-> arg[k].changes, targets |-> targets[k]]

\* broadcast_tx.send: to every receiver there is.
SendBroadcast(k) ==
  /\ pc[k] = "picked"
  /\ rx' = [j \in Conn |-> IF Receiving(j) THEN Enqueue(rx[j], BroadcastOf(k)) ELSE rx[j]]
  /\ missed' = [j \in Conn |-> missed[j] \cup
                  UNION {m.changes : m \in {n \in Overrun(rx[j]) : Receiving(j) /\ Wants(j, n)}}]
  /\ pc' = [pc EXCEPT ![k] = "acking"]
  /\ UNCHANGED <<changeVars, serverVars, arg, paths, targets, netVars, clientVars,
                 shadowed, acked, faults>>

\* PushAck with the server's heads, read anew.
SendPushAck(k) ==
  /\ pc[k] = "acking"
  /\ Reply(k, Msg("ack", Heads(db), {}), "idle")
  /\ Rest(k)
  /\ acked' = acked \cup arg[k].changes
  /\ UNCHANGED <<changeVars, serverVars, rx, sock, up, clientVars,
                 missed, shadowed, faults>>

-----------------------------------------------------------------------------
(* The other arm of the select!, and the end of a task. *)

ReceiveBroadcast(k) ==
  /\ pc[k] = "idle"
  /\ rx[k] # <<>>
  /\ rx' = [rx EXCEPT ![k] = Tail(@)]
  /\ IF Wants(k, Head(rx[k]))
       THEN Reply(k, Msg("broadcast", {}, Head(rx[k]).changes), "idle")
       ELSE UNCHANGED <<pc, down>>
  /\ UNCHANGED <<changeVars, serverVars, arg, paths, targets, sock, up, clientVars,
                 ghostVars>>

\* Mutant: a failed send leaves the task behind.
EndedByClose(k) == pc[k] = "idle" /\ sock[k] = "gone" /\ up[k] = <<>>

\* The loop ends: the stream is closed and drained, or a send failed.
Ended(k) ==
  \/ pc[k] = "idle" /\ sock[k] = "gone" /\ up[k] = <<>>
  \/ pc[k] = "closing"

\* unregister_client removes the subscriptions by client_id.
Unregister(k) ==
  /\ Ended(k)
  /\ clients' = clients \ {k}
  /\ subs' = IF k \in clients THEN [subs EXCEPT ![ClientOf[k]] = {}] ELSE subs
  /\ pc' = [pc EXCEPT ![k] = "off"]
  /\ rx' = [rx EXCEPT ![k] = <<>>]
  /\ up' = [up EXCEPT ![k] = <<>>]
  /\ Rest(k)
  /\ UNCHANGED <<changeVars, db, store, sock, down, clientVars, ghostVars>>

\* Mutant: the server starts from an empty document.
StartEmpty == db' = {}

\* with_storage: the document is what the stored image holds.
Load == db' = store

\* The process dies and is started again: ServerState::new; tasks, tables and
\* channel are gone.
Restart ==
  /\ faults < MaxFaults
  /\ faults' = faults + 1
  /\ Load
  /\ subs' = [c \in Client |-> {}]
  /\ clients' = {}
  /\ pc' = [k \in Conn |-> "off"]
  /\ arg' = [k \in Conn |-> NoMsg]
  /\ paths' = [k \in Conn |-> {}]
  /\ targets' = [k \in Conn |-> {}]
  /\ rx' = [k \in Conn |-> <<>>]
  /\ sock' = [k \in Conn |-> IF sock[k] = "new" THEN "new" ELSE "dropped"]
  /\ up' = [k \in Conn |-> <<>>]
  /\ UNCHANGED <<changeVars, store, down, clientVars, missed, shadowed, acked>>

-----------------------------------------------------------------------------
(* The clients. *)

InUse(k) == current[ClientOf[k]] = k

\* The server has nothing left of k.
Finished(k) == pc[k] = "off" /\ up[k] = <<>>

\* Mutant: the heads of the previous connection are still trusted.
KeepSyncedHeads(c) == synced' = synced

\* ConnectionState::new: a new connection has synced nothing yet.
ForgetSyncedHeads(c) == synced' = [synced EXCEPT ![c] = {}]

\* A connection is opened and the Connect frame sent.  A browser database keeps
\* its document and sends its heads; SyncClient::connect starts from an empty
\* document.
Connect(k) ==
  LET c == ClientOf[k] IN
  /\ sock[k] = "new"
  /\ Overlap \/ \A j \in Conn : ClientOf[j] = c => Finished(j)
  /\ sock' = [sock EXCEPT ![k] = "open"]
  /\ current' = [current EXCEPT ![c] = k]
  /\ ready' = ready \ {c}
  /\ ForgetSyncedHeads(c)
  /\ outbox' = [outbox EXCEPT ![c] = {}]
  /\ replica' = IF c \in Delta THEN replica ELSE [replica EXCEPT ![c] = {}]
  /\ up' = [up EXCEPT ![k] = <<Msg("connect", IF c \in Delta THEN Heads(replica[c]) ELSE {}, {})>>]
  /\ UNCHANGED <<changeVars, serverVars, taskVars, down, ghostVars>>

\* The client leaves or the network fails: some of the frames under way in
\* either direction are lost.
Close(k) ==
  /\ sock[k] = "open"
  /\ faults < MaxFaults
  /\ faults' = faults + 1
  /\ sock' = [sock EXCEPT ![k] = "gone"]
  /\ \E n \in 0..Len(up[k]) : up' = [up EXCEPT ![k] = SubSeq(@, 1, n)]
  /\ down' = [down EXCEPT ![k] = <<>>]
  /\ current' = [current EXCEPT ![ClientOf[k]] = IF InUse(k) THEN None ELSE @]
  /\ UNCHANGED <<changeVars, serverVars, taskVars, replica, synced, ready, outbox,
                 missed, shadowed, acked>>

\* The client finds that the server dropped the connection.
NoticeDrop(k) ==
  /\ sock[k] = "dropped" /\ InUse(k)
  /\ down' = [down EXCEPT ![k] = <<>>]
  /\ current' = [current EXCEPT ![ClientOf[k]] = None]
  /\ UNCHANGED <<changeVars, serverVars, taskVars, sock, up, replica, synced, ready, outbox,
                 ghostVars>>

\* A frame reaches the client.  Sync and Broadcast are applied; the browser
\* takes the server's heads of Sync and PushAck as its last_synced_heads.
Receive(k) ==
  LET c == ClientOf[k]
      m == Head(down[k]) IN
  /\ InUse(k) /\ down[k] # <<>>
  /\ down' = [down EXCEPT ![k] = Tail(@)]
  /\ replica' = [replica EXCEPT ![c] = @ \cup m.changes]
  /\ synced' = IF c \in Delta /\ m.type \in {"sync", "ack"}
                 THEN [synced EXCEPT ![c] = m.heads] ELSE synced
  /\ ready' = IF m.type = "sync" THEN ready \cup {c} ELSE ready
  /\ UNCHANGED <<changeVars, serverVars, taskVars, sock, up, current, outbox, ghostVars>>

\* A new change depends on everything its author's document has applied.
Write(c, x) ==
  /\ x \notin written
  /\ written' = written \cup {x}
  /\ deps' = [deps EXCEPT ![x] = Applied(replica[c])]
  /\ replica' = [replica EXCEPT ![c] = @ \cup {x}]

\* Sending on a socket whose other end is gone loses the frame.
SendPush(k, changes) ==
  up' = IF sock[k] = "open" THEN [up EXCEPT ![k] = Append(@, Msg("push", {}, changes))] ELSE up

\* Mutant: only the new change is pushed.
NewestOnly(c, x) == {x}

\* get_changes, after the write: everything there is.
Everything(c, x) == Applied(replica[c]) \cup {x}

\* SyncClient::set_path writes and builds a push of everything while it holds
\* the document ...
SetPath(c, x) ==
  /\ c \notin Delta
  /\ current[c] # None /\ c \in ready
  /\ Write(c, x)
  /\ outbox' = [outbox EXCEPT ![c] = @ \cup {Everything(c, x)}]
  /\ UNCHANGED <<serverVars, taskVars, netVars, synced, current, ready, ghostVars>>

\* ... and sends it after it let go: two calls may send in either order.
Push(c, changes) ==
  /\ current[c] # None
  /\ changes \in outbox[c]
  /\ outbox' = [outbox EXCEPT ![c] = @ \ {changes}]
  /\ SendPush(current[c], changes)
  /\ UNCHANGED <<changeVars, serverVars, taskVars, sock, down, replica, synced, current, ready,
                 ghostVars>>

\* The browser writes whether or not it is connected ...
SetPathLocal(c, x) ==
  /\ c \in Delta
  /\ Write(c, x)
  /\ UNCHANGED <<serverVars, taskVars, netVars, synced, current, ready, outbox, ghostVars>>

\* Mutant: the newest changes alone are pushed.
UnsyncedHeads(c) == Heads(replica[c]) \ synced[c]

\* ... and syncChanges pushes what it has since the last_synced_heads.
Unsynced(c) == Since(replica[c], synced[c])

SyncChanges(c) ==
  /\ c \in Delta
  /\ current[c] # None
  /\ Unsynced(c) # {}
  /\ Len(up[current[c]]) + Len(down[current[c]]) < MaxFrames
  /\ SendPush(current[c], Unsynced(c))
  /\ UNCHANGED <<changeVars, serverVars, taskVars, sock, down, clientVars, ghostVars>>

-----------------------------------------------------------------------------
Init ==
  /\ written = {} /\ deps = [x \in Change |-> {}]
  /\ db = {} /\ store = {}
  /\ subs = [c \in Client |-> {}] /\ clients = {}
  /\ pc = [k \in Conn |-> "off"]
  /\ arg = [k \in Conn |-> NoMsg]
  /\ paths = [k \in Conn |-> {}]
  /\ targets = [k \in Conn |-> {}]
  /\ rx = [k \in Conn |-> <<>>]
  /\ sock = [k \in Conn |-> "new"]
  /\ up = [k \in Conn |-> <<>>]
  /\ down = [k \in Conn |-> <<>>]
  /\ replica = [c \in Client |-> {}]
  /\ synced = [c \in Client |-> {}]
  /\ current = [c \in Client |-> None]
  /\ ready = {}
  /\ outbox = [c \in Client |-> {}]
  /\ missed = [k \in Conn |-> {}]
  /\ shadowed = {} /\ acked = {}
  /\ faults = 0

Task(k) ==
  \/ RegisterClient(k) \/ Subscribe(k) \/ SendSync(k)
  \/ ReceivePush(k) \/ Apply(k) \/ ApplyPersistFails(k) \/ PickTargets(k)
  \/ SendBroadcast(k) \/ SendPushAck(k) \/ ReceiveBroadcast(k) \/ Unregister(k)

Next ==
  \/ \E k \in Conn : Task(k)
  \/ Restart
  \/ \E k \in Conn : Connect(k) \/ Close(k) \/ NoticeDrop(k) \/ Receive(k)
  \/ \E c \in Client, x \in Change : SetPath(c, x) \/ SetPathLocal(c, x)
  \/ \E c \in Client : SyncChanges(c) \/ \E changes \in outbox[c] : Push(c, changes)

Spec == Init /\ [][Next]_vars

\* The runtime runs every task that can take a step (tokio polls ready tasks in
\* turn and select! picks its arm at random), and a connected client handles the
\* frames it gets.  Nothing makes users write, connect or leave.
FairSpec ==
  /\ Spec
  /\ \A k \in Conn : WF_vars(Task(k)) /\ WF_vars(Receive(k))

-----------------------------------------------------------------------------
(* What the server and its clients should guarantee. *)

MsgType == [type : {"none", "connect", "push", "sync", "ack", "broadcast"},
            heads : SUBSET Change, changes : SUBSET Change]
BroadcastType == [from : Conn, changes : SUBSET Change, targets : SUBSET Client]
PcType == {"off", "registered", "greeted", "idle", "extracted", "applied",
           "picked", "acking", "closing"}

TypeOK ==
  /\ written \subseteq Change
  /\ deps \in [Change -> SUBSET Change]
  /\ db \subseteq Change /\ store \subseteq Change
  /\ subs \in [Client -> SUBSET Topic]
  /\ clients \subseteq Conn
  /\ pc \in [Conn -> PcType]
  /\ arg \in [Conn -> MsgType]
  /\ paths \in [Conn -> SUBSET Topic]
  /\ targets \in [Conn -> SUBSET Client]
  /\ rx \in [Conn -> Seq(BroadcastType)]
  /\ sock \in [Conn -> {"new", "open", "gone", "dropped"}]
  /\ up \in [Conn -> Seq(MsgType)]
  /\ down \in [Conn -> Seq(MsgType)]
  /\ replica \in [Client -> SUBSET Change]
  /\ synced \in [Client -> SUBSET Change]
  /\ current \in [Client -> Conn \cup {None}]
  /\ ready \subseteq Client
  /\ outbox \in [Client -> SUBSET SUBSET Change]
  /\ missed \in [Conn -> SUBSET Change]
  /\ shadowed \subseteq Change /\ acked \subseteq Change
  /\ faults \in 0..MaxFaults

\* The shared document and its stored image never hold a change without the
\* changes it depends on, although browsers push only deltas against heads the
\* server told them, pushes get lost, and the server may forget changes in a
\* crash: what a push builds on is always there when the push is applied.
CausallyClosed == Closed(db) /\ Closed(store)

\* What a connected browser leaves out of its pushes (everything up to its
\* last_synced_heads) is on the server.
SyncedIsOnServer ==
  \A k \in Conn : sock[k] = "open" /\ InUse(k) => Below(synced[ClientOf[k]]) \subseteq db

\* A PushAck is a promise: the changes it acknowledges survive a crash.
AckedDurable == acked \subseteq store

\* Nobody is sent a broadcast of a change that a crash could take back.
BroadcastDurable ==
  \A k \in Conn : \A m \in ToSet(rx[k]) : m.changes \subseteq store

\* x is on its way to the client of connection k, or has arrived.
UnderWay(k, x) ==
  \/ x \in replica[ClientOf[k]]
  \/ \E m \in ToSet(down[k]) : x \in m.changes
  \/ \E m \in ToSet(rx[k]) : Wants(k, m) /\ x \in m.changes
  \/ \E j \in Conn : /\ x \in arg[j].changes
                     /\ \/ pc[j] = "applied" /\ paths[j] \cap Patterns[k] # {}
                        \/ pc[j] = "picked" /\ ClientOf[k] \in targets[j]

\* The client of k relies on k for the changes to the paths it subscribed to.
\* (A conflict is announced under the parent's path only.)
Owed(k, x) ==
  /\ sock[k] = "open" /\ InUse(k) /\ Synced(k)
  /\ PathOf[x] \in Patterns[k]
  /\ x \in shadowed => Root \in Patterns[k]

\* A connected client never silently misses a change on a path it subscribed to:
\* whatever the order in which it registered, got its Sync, and others' pushes
\* were extracted, applied and broadcast.  Only an overrun of the channel or a
\* failed write to storage can keep a change from it.
NoSilentGap ==
  \A k \in Conn : \A x \in db \ missed[k] : Owed(k, x) => UnderWay(k, x)

\* No client is left with changes it cannot show because it lacks a change they
\* depend on.
NothingHeldBack == \A c \in Client : Closed(replica[c])

\* NoSilentGap says that what a client is owed is under way; it also arrives,
\* unless the connection is lost first or the channel overruns.
Delivered ==
  \A k \in Conn : \A x \in Change :
    (x \in db \ missed[k] /\ Owed(k, x))
      ~> (x \in replica[ClientOf[k]] \/ x \in missed[k] \/ ~(sock[k] = "open" /\ InUse(k)))

\* The server does not keep a connection that is gone in its table.
Forgotten == \A k \in Conn : sock[k] = "gone" ~> k \notin clients

\* The server is a causal store: every step merges a causally closed cut of the
\* history, acknowledges what is durable, falls back to the image, or changes
\* none of this.
Store == INSTANCE CausalStore WITH doc <- db, image <- store, promised <- acked
ImplementsCausalStore == Store!Spec

-----------------------------------------------------------------------------
(* The inductive invariant behind the safety properties. *)

\* Only what was written is anywhere.
OnlyWritten ==
  /\ db \subseteq written /\ acked \subseteq written
  /\ \A c \in Client : replica[c] \subseteq written /\ synced[c] \subseteq written
  /\ \A c \in Client : \A changes \in outbox[c] : changes \subseteq written
  /\ \A k \in Conn :
       /\ arg[k].changes \subseteq written
       /\ \A m \in ToSet(up[k]) : m.changes \subseteq written
       /\ \A m \in ToSet(down[k]) : m.changes \subseteq written /\ m.heads \subseteq written
       /\ \A m \in ToSet(rx[k]) : m.changes \subseteq written

\* The dependencies are a transitive relation on what was written.
CausalGraph ==
  /\ \A x \in Change : deps[x] \subseteq written
  /\ \A x \in Change \ written : deps[x] = {}
  /\ \A x \in Change : \A y \in deps[x] : deps[y] \subseteq deps[x]

\* A client uses its own connections.
OwnConnection == \A c \in Client : current[c] # None => ClientOf[current[c]] = c

\* Nothing has travelled on a connection that is not open yet.
UnusedIsEmpty == \A k \in Conn : sock[k] = "new" => down[k] = <<>>

\* What a push builds on is in the push or on the server; a push by set_path is
\* complete in itself.
BuiltOnServer(m) == \A x \in m.changes : deps[x] \subseteq m.changes \cup db
OutboxComplete == \A c \in Client : \A changes \in outbox[c] : Closed(changes)
PushesFit ==
  \A k \in Conn : BuiltOnServer(arg[k]) /\ \A m \in ToSet(up[k]) : BuiltOnServer(m)

\* The heads the server announced are still its own.
HeadsKnown ==
  \A k \in Conn : sock[k] = "open" => \A m \in ToSet(down[k]) : Below(m.heads) \subseteq db

\* The image is a part of the document, and past Apply the changes are in it.
StoredWhenApplied ==
  /\ store \subseteq db
  /\ \A k \in Conn : pc[k] \in {"applied", "picked", "acking"} => arg[k].changes \subseteq store

ServerInv ==
  /\ OnlyWritten /\ CausalGraph /\ OwnConnection /\ UnusedIsEmpty /\ PushesFit
  /\ OutboxComplete /\ HeadsKnown /\ StoredWhenApplied
  /\ CausallyClosed /\ SyncedIsOnServer /\ AckedDurable /\ BroadcastDurable

-----------------------------------------------------------------------------
(* The inductive invariant behind NoSilentGap, when no client connects again *)
(* before the server saw it leave.                                           *)

\* A connection is opened once and lives until its task has ended: an open one has
\* a task or a frame for it, a new one has neither.
LivesOnce ==
  \A k \in Conn :
    /\ sock[k] = "new" => Finished(k) /\ arg[k] = NoMsg /\ ~InUse(k)
    /\ sock[k] = "open" => ~Finished(k) /\ pc[k] # "closing"

\* The server has something left of at most one connection of a client.
OneAtATime ==
  \A j, k \in Conn : j # k /\ ClientOf[j] = ClientOf[k] => Finished(j) \/ Finished(k)

\* The subscriptions of a client are those of the connection it has.
SubscriptionsHeld == \A k \in Conn : pc[k] # "off" => subs[ClientOf[k]] = Patterns[k]

\* What a client pushed, and the heads it connected with, it has.
SentIsOwn ==
  /\ \A k \in Conn : sock[k] = "open" /\ InUse(k) =>
       \A m \in {arg[k]} \cup ToSet(up[k]) : m.changes \cup Below(m.heads) \subseteq replica[ClientOf[k]]
  /\ \A c \in Client : \A changes \in outbox[c] : changes \subseteq replica[c]

\* The paths extracted from a push are those of all its changes that the document
\* still lacks, but for conflicts, which are announced under Root.
PathsExtracted ==
  \A k \in Conn : pc[k] = "extracted" =>
    \A x \in arg[k].changes \ db :
      PathOf[x] \in paths[k] \/ (x \in shadowed /\ Root \in paths[k])

GapInv ==
  /\ LivesOnce /\ OneAtATime /\ SubscriptionsHeld /\ SentIsOwn /\ PathsExtracted
  /\ NoSilentGap

-----------------------------------------------------------------------------
(* The inductive invariant behind NothingHeldBack, when no client pushes deltas. *)

\* Every message carries whole histories, and no Connect carries heads.
WholeHistories ==
  /\ \A k \in Conn :
       /\ \A m \in {arg[k]} \cup ToSet(up[k]) : Closed(m.changes) /\ m.heads = {}
       /\ \A m \in ToSet(down[k]) \cup ToSet(rx[k]) : Closed(m.changes)
=============================================================================
