----------------------------- MODULE ServerLinks -----------------------------
(***************************************************************************)
(* Sync servers connected with each other (swirldb-server: main.rs,        *)
(* state.rs, handler.rs).  A link is one connect_to_peer task: the server  *)
(* that dials is a client of the other ("peer-<server_id>"), which serves  *)
(* it with handle_websocket as it serves browsers.  Changes and ephemeral  *)
(* frames of the local clients travel over the links; what came from a     *)
(* peer is marked by the prefix "peer-" and is to go no further.           *)
(*                                                                         *)
(* The steps of one push inside a server are the subject of SyncServer;    *)
(* here they are three: extract the paths, apply and persist, broadcast.   *)
(* Storage works.  Each server has one local browser, which is subscribed  *)
(* to everything, as the links are.                                        *)
(***************************************************************************)
EXTENDS Naturals, Sequences, FiniteSets, SequencesExt

CONSTANTS
  Server,      \* the servers
  Link,        \* the connect_to_peer tasks
  Topologies,  \* the ways to join them: ends[l] = <<n, m>>, n dials m
  Load,        \* bound: the changes and frames that clients may send in each
  MaxChanges,  \* bound: Automerge changes
  Frame,       \* ephemeral updates
  Cap,         \* capacity of the broadcast channel (BROADCAST_CHANNEL_SIZE)
  MaxEvents,   \* bound: changes, frames and faults together
  MaxFaults    \* bound: lost connections and restarts

ASSUME ConstantsOK ==
  /\ Topologies \subseteq [Link -> Server \X Server]
  /\ Load \in [Topologies -> SUBSET (1..MaxChanges \cup Frame)]
  /\ Cap \in Nat \ {0}
  /\ {MaxChanges, MaxEvents, MaxFaults} \subseteq Nat
  /\ Server \cap (Link \X {"dial", "serve"}) = {}

\* The changes, in the order they are made.
Change == 1..MaxChanges

VARIABLES
  ends,            \* the topology
  written, deps,   \* the changes made so far, and what each depends on
  \* Per server: the document, its stored image, the document of its local
  \* browser, the client_ids of links that have subscriptions here, and its server_id,
  \* a new one at each start (a number will do, next to the server).
  db, store, client, subs, id,
  job,             \* the push each task is in the middle of
  \* Per link: the WebSocket, the two tasks at its ends, the client_id in the Connect
  \* last sent, the frames to the
  \* server that was dialled (up) and to the one that dialled (down).
  sock, dial, serve, as, up, down,
  \* The receivers of the tasks: the broadcast channel of the dialling side and
  \* of the serving side, and the ephemeral channels.  stalled: the dialling side
  \* does not wait for its broadcast channel, as its last recv said Lagged.
  rxDial, rxServe, lagged, stalled, exDial, exServe,
  sent, got,       \* the frames sent, and how often each server's browser got each
  \* History: how each change first came to a server; the changes a server took in
  \* without a broadcast (a crash may come between the two); the changes broadcast or loaded so far; those of them
  \* before the link subscribed; those each side of a link was not given by its channel.
  how, silent, aired, before, lostUp, lostDown, faults

changeVars == <<ends, written, deps>>
docVars    == <<db, store, client>>
idVars     == <<id, as>>
netVars    == <<sock, dial, serve, up, down>>
rxVars     == <<rxDial, rxServe, lagged, stalled>>
frameVars  == <<exDial, exServe, sent, got>>
ghostVars  == <<how, silent, aired, before, lostUp, lostDown, faults>>
vars == <<changeVars, docVars, subs, idVars, job, netVars, rxVars, frameVars, ghostVars>>

From(l) == ends[l][1]
To(l) == ends[l][2]

\* The client_id of a link, "peer-<server_id>".
ClientId(l) == <<From(l), id[From(l)]>>

Joined(s) == \E l \in Link : s \in {From(l), To(l)}

\* The tasks: a server's local client is served by one, a link has one at each end.
Task == Server \cup Link \X {"dial", "serve"}
Home(t) == IF t \in Server THEN t ELSE IF t[2] = "dial" THEN From(t[1]) ELSE To(t[1])

\* What users and failures did so far.
Events == Cardinality(written) + Cardinality(sent) + faults

Idle == [step |-> "idle", changes |-> {}, loud |-> FALSE]
Push(changes, loud) == [step |-> "extracted", changes |-> changes, loud |-> loud]

-----------------------------------------------------------------------------
(* Documents, as in SyncServer. *)

Applied(S) == {x \in S : deps[x] \subseteq S}
Fresh(S, new) == Applied(S \cup new) \ Applied(S)

-----------------------------------------------------------------------------
(* Messages and channels. *)

Msg(type, changes, peer) == [type |-> type, changes |-> changes, peer |-> peer]

\* BroadcastMessage: the connection it is not sent back to (a server stands for its
\* local client's), whether from_client_id begins with "peer-", and target_clients.
Note(via, changes, peer, to) == [via |-> via, changes |-> changes, peer |-> peer, to |-> to]

\* Mutant: subscribed to the channels before Connect is sent.
ListensEarly(l) == dial[l] # "down"

Listening(l) == dial[l] = "up"
Receiving(l) == serve[l] # "off"

\* tokio's broadcast ring, as in SyncServer.
Enqueue(q, m) == IF Len(q) < Cap THEN Append(q, m) ELSE Append(Tail(q), m)

\* What falls out of it.
Overrun(q) == IF Len(q) < Cap THEN {} ELSE Head(q).changes

\* Broadcast and forwarding stop at the first peer.
TakesOn(m) == ~m.peer

-----------------------------------------------------------------------------
(* A push inside a server: apply_changes_inner, whoever it came from. *)

\* Mutant: persist later.
ApplyOnly(s, changes) ==
  /\ db' = [db EXCEPT ![s] = @ \cup changes]
  /\ UNCHANGED store

\* apply_changes and persist under the write lock.
ApplyAndPersist(s, changes) ==
  /\ db' = [db EXCEPT ![s] = @ \cup changes]
  /\ store' = [store EXCEPT ![s] = db'[s]]

Arrived(s, changes, way) ==
  how' = [how EXCEPT ![s] = [x \in Change |->
            IF x \in changes /\ @[x] = "none" THEN way ELSE @[x]]]

Apply(t) == LET s == Home(t) IN
  /\ job[t].step = "extracted"
  /\ ApplyAndPersist(s, job[t].changes)
  /\ Arrived(s, job[t].changes, IF t \in Server THEN "client" ELSE t[2])
  /\ job' = [job EXCEPT ![t] = IF @.loud THEN [@ EXCEPT !.step = "applied"] ELSE Idle]
  /\ silent' = [silent EXCEPT ![s] = IF job[t].loud THEN @ ELSE @ \cup job[t].changes]
  /\ UNCHANGED <<changeVars, idVars, client, subs, netVars, rxVars, frameVars,
                 aired, before, lostUp, lostDown, faults>>

\* Mutant: every broadcast is marked as a peer's.
Marked(t) == TRUE

\* from_client_id begins with "peer-": a push that came in over a link, at either end.
FromPeer(t) == t \notin Server

\* Mutant: the local browser is served as the links are.
HearsLocal(s, m) == ~m.peer

\* The local browser gets every broadcast but of its own push.
Hears(s, m) == m.via # s

\* The subscribers are picked and the broadcast sent.
Broadcast(t) == LET s == Home(t)
                    m == Note(t, job[t].changes, FromPeer(t), subs[s]) IN
  /\ job[t].step = "applied"
  /\ rxDial' = [l \in Link |-> IF From(l) = s /\ Listening(l) THEN Enqueue(rxDial[l], m) ELSE rxDial[l]]
  /\ lagged' = [l \in Link |-> lagged[l] \/ (From(l) = s /\ Listening(l) /\ Len(rxDial[l]) = Cap)]
  /\ rxServe' = [l \in Link |-> IF To(l) = s /\ Receiving(l) THEN Enqueue(rxServe[l], m) ELSE rxServe[l]]
  /\ lostUp' = [l \in Link |-> lostUp[l] \cup
                 IF From(l) = s /\ Listening(l) THEN Overrun(rxDial[l]) ELSE {}]
  /\ lostDown' = [l \in Link |-> lostDown[l] \cup
                   IF To(l) = s /\ Receiving(l)
                   THEN Overrun(rxServe[l]) \cup (IF as[l] \in subs[s] THEN {} ELSE m.changes)
                   ELSE {}]
  /\ client' = [client EXCEPT ![s] = IF Hears(s, m) THEN @ \cup m.changes ELSE @]
  /\ aired' = [aired EXCEPT ![s] = @ \cup m.changes]
  /\ job' = [job EXCEPT ![t] = Idle]
  /\ UNCHANGED <<changeVars, idVars, db, store, subs, netVars, stalled, frameVars, how, silent, before, faults>>

-----------------------------------------------------------------------------
(* The local browser. *)

Write(s, x) ==
  /\ Joined(s) /\ x \in Load[ends]
  /\ x = Cardinality(written) + 1 /\ Events < MaxEvents
  /\ written' = written \cup {x}
  /\ deps' = [deps EXCEPT ![x] = Applied(client[s])]
  /\ client' = [client EXCEPT ![s] = @ \cup {x}]
  /\ UNCHANGED <<ends, db, store, subs, idVars, job, netVars, rxVars, frameVars, ghostVars>>

\* It pushes what the server does not have.
PushLocal(s) ==
  /\ job[s] = Idle
  /\ client[s] \ db[s] # {}
  /\ job' = [job EXCEPT ![s] = Push(client[s] \ db[s], TRUE)]
  /\ UNCHANGED <<changeVars, idVars, docVars, subs, netVars, rxVars, frameVars, ghostVars>>

\* It connects anew and gets a Sync.
Refresh(s) ==
  /\ Applied(db[s]) \ client[s] # {}
  /\ client' = [client EXCEPT ![s] = @ \cup Applied(db[s])]
  /\ UNCHANGED <<changeVars, idVars, db, store, subs, job, netVars, rxVars, frameVars, ghostVars>>

-----------------------------------------------------------------------------
(* The serving side of a link: handle_websocket. *)

\* Connect: register the client_id and subscribe to the channels ...
Greet(l) ==
  /\ serve[l] = "off"
  /\ up[l] # <<>> /\ Head(up[l]).type = "connect"
  /\ up' = [up EXCEPT ![l] = Tail(@)]
  /\ subs' = [subs EXCEPT ![To(l)] = @ \cup {as[l]}]
  /\ serve' = [serve EXCEPT ![l] = "greeted"]
  /\ UNCHANGED <<changeVars, idVars, docVars, job, sock, dial, down, rxVars, frameVars, ghostVars>>

\* A frame to the dialling side; it is lost when the connection is.
SendDown(l, m) ==
  down' = IF sock[l] = "open" THEN [down EXCEPT ![l] = Append(@, m)] ELSE down

\* ... then send everything: a link has no heads in its Connect.
SendSync(l) ==
  /\ serve[l] = "greeted"
  /\ SendDown(l, Msg("sync", Applied(db[To(l)]), FALSE))
  /\ serve' = [serve EXCEPT ![l] = "idle"]
  /\ UNCHANGED <<changeVars, idVars, docVars, subs, job, sock, dial, up, rxVars, frameVars, ghostVars>>

Serving(l) == serve[l] = "idle" /\ job[<<l, "serve">>] = Idle

\* Push: extract the affected paths; a push that brings nothing new has none.
ServePush(l) == LET S == Head(up[l]).changes IN
  /\ Serving(l)
  /\ up[l] # <<>> /\ Head(up[l]).type = "push"
  /\ up' = [up EXCEPT ![l] = Tail(@)]
  /\ job' = [job EXCEPT ![<<l, "serve">>] = Push(S, Fresh(db[To(l)], S) # {})]
  /\ UNCHANGED <<changeVars, idVars, docVars, subs, sock, dial, serve, down, rxVars, frameVars, ghostVars>>

\* route_ephemeral: to the subscribers' tasks and to the links; the local browser
\* gets the frame (its own counts, too: it has it).  The connection excluded is the
\* sender's, or nobody's for a peer.
Route(s, f, peer) ==
  /\ got' = [got EXCEPT ![s][f] = @ + 1]
  /\ exServe' = [l \in Link |-> IF To(l) = s /\ Receiving(l) /\ as[l] \in subs[s]
                                THEN Append(exServe[l], f) ELSE exServe[l]]
  /\ exDial' = [l \in Link |-> IF From(l) = s /\ Listening(l)
                               THEN Append(exDial[l], [frame |-> f, peer |-> peer]) ELSE exDial[l]]

\* Mutant: the frame of an EphemeralRelay is routed, whatever claim_relay says.
RouteRelay(l) ==
  /\ Serving(l)
  /\ up[l] # <<>> /\ Head(up[l]).type = "relay"
  /\ up' = [up EXCEPT ![l] = Tail(@)]
  /\ Route(To(l), Head(up[l]).changes, TRUE)
  /\ UNCHANGED <<changeVars, idVars, docVars, subs, job, sock, dial, serve, down, rxVars, sent, ghostVars>>

\* EphemeralRelay has no arm in handle_websocket: "Unexpected message type".
DropRelay(l) ==
  /\ Serving(l)
  /\ up[l] # <<>> /\ Head(up[l]).type = "relay"
  /\ up' = [up EXCEPT ![l] = Tail(@)]
  /\ UNCHANGED <<changeVars, idVars, docVars, subs, job, sock, dial, serve, down, rxVars, frameVars, ghostVars>>

\* The filter of handle_websocket: not to the connection it came from, and only to
\* the clients that were picked.
Wants(l, m) == m.via # <<l, "serve">> /\ as[l] \in m.to

ServeBroadcast(l) == LET m == Head(rxServe[l]) IN
  /\ Serving(l)
  /\ rxServe[l] # <<>>
  /\ rxServe' = [rxServe EXCEPT ![l] = Tail(@)]
  /\ IF Wants(l, m) THEN SendDown(l, Msg("broadcast", m.changes, m.peer)) ELSE UNCHANGED down
  /\ UNCHANGED <<changeVars, idVars, docVars, subs, job, sock, dial, serve, up, rxDial, lagged, stalled,
                 frameVars, ghostVars>>

\* EphemeralBatch does not say who it is from.
ServeFrame(l) ==
  /\ Serving(l)
  /\ exServe[l] # <<>>
  /\ exServe' = [exServe EXCEPT ![l] = Tail(@)]
  /\ SendDown(l, Msg("batch", Head(exServe[l]), FALSE))
  /\ UNCHANGED <<changeVars, idVars, docVars, subs, job, sock, dial, serve, up, rxVars, exDial, sent, got,
                 ghostVars>>

\* The loop ends; unregister_client removes the subscriptions of the client_id.
StopServing(l) ==
  /\ sock[l] = "gone" /\ Serving(l) /\ up[l] = <<>>
  /\ serve' = [serve EXCEPT ![l] = "off"]
  /\ subs' = [subs EXCEPT ![To(l)] = @ \ {as[l]}]
  /\ rxServe' = [rxServe EXCEPT ![l] = <<>>]
  /\ exServe' = [exServe EXCEPT ![l] = <<>>]
  /\ UNCHANGED <<changeVars, idVars, docVars, job, sock, dial, up, down, rxDial, lagged, stalled,
                 exDial, sent, got, ghostVars>>

-----------------------------------------------------------------------------
(* The dialling side: connect_to_peer. *)

\* connect_async succeeds and Connect is sent.  The server dialled has noticed that
\* the last connection is gone (the delay before a retry is at least a second).
Dial(l) ==
  /\ dial[l] = "down" /\ serve[l] = "off"
  /\ dial' = [dial EXCEPT ![l] = "greeting"]
  /\ sock' = [sock EXCEPT ![l] = "open"]
  /\ up' = [up EXCEPT ![l] = <<Msg("connect", {}, FALSE)>>]
  /\ as' = [as EXCEPT ![l] = ClientId(l)]
  /\ UNCHANGED <<changeVars, id, docVars, subs, job, serve, down, rxVars, frameVars, ghostVars>>

\* register_peer, then subscribe to the local channels.
Listen(l) ==
  /\ dial[l] = "greeting"
  /\ dial' = [dial EXCEPT ![l] = "up"]
  /\ before' = [before EXCEPT ![l] = aired[From(l)]]
  /\ UNCHANGED <<changeVars, idVars, docVars, subs, job, sock, serve, up, down, rxVars, frameVars,
                 how, silent, aired, lostUp, lostDown, faults>>

Dialling(l) == dial[l] = "up" /\ job[<<l, "dial">>] = Idle

\* An arm of the select! other than the one of the broadcast channel ran: the next
\* turn waits for that channel again.
Awake(l) == stalled' = [stalled EXCEPT ![l] = FALSE]

Pop(l, type) ==
  /\ Dialling(l)
  /\ down[l] # <<>> /\ Head(down[l]).type = type
  /\ down' = [down EXCEPT ![l] = Tail(@)]
  /\ Awake(l)

\* Broadcast: skip a peer's; apply a local client's of the other server as a peer's.
TakeBroadcast(l) == LET m == Head(down[l]) IN
  /\ Pop(l, "broadcast")
  /\ job' = IF TakesOn(m) THEN [job EXCEPT ![<<l, "dial">>] = Push(m.changes, TRUE)] ELSE job
  /\ UNCHANGED <<changeVars, idVars, docVars, subs, sock, dial, serve, up, rxDial, rxServe, lagged,
                 frameVars, ghostVars>>

\* Mutant: the Sync is dropped.
IgnoreSync(l, S) == UNCHANGED db

\* Sync: into the document, and nothing else: no persist, no broadcast.
ApplySync(l, S) == db' = [db EXCEPT ![From(l)] = @ \cup S]

TakeSync(l) == LET S == Head(down[l]).changes IN
  /\ Pop(l, "sync")
  /\ ApplySync(l, S)
  /\ Arrived(From(l), S, "sync")
  /\ silent' = [silent EXCEPT ![From(l)] = @ \cup S]
  /\ UNCHANGED <<changeVars, idVars, store, client, subs, job, sock, dial, serve, up,
                 rxDial, rxServe, lagged, frameVars, aired, before, lostUp, lostDown, faults>>

\* Forward a local client's changes as a Push; skip a peer's.
Forward(l) == LET m == Head(rxDial[l]) IN
  /\ Dialling(l) /\ ~lagged[l] /\ ~stalled[l]
  /\ rxDial[l] # <<>>
  /\ rxDial' = [rxDial EXCEPT ![l] = Tail(@)]
  /\ up' = IF TakesOn(m) /\ sock[l] = "open"
           THEN [up EXCEPT ![l] = Append(@, Msg("push", m.changes, FALSE))] ELSE up
  /\ UNCHANGED <<changeVars, idVars, docVars, subs, job, sock, dial, serve, down, rxServe, lagged, stalled,
                 frameVars, ghostVars>>

\* recv says Lagged: `Ok(msg) = ..' does not match, and the select! goes on without
\* this arm until another one runs.
Lag(l) ==
  /\ Dialling(l) /\ lagged[l] /\ ~stalled[l]
  /\ lagged' = [lagged EXCEPT ![l] = FALSE]
  /\ stalled' = [stalled EXCEPT ![l] = TRUE]
  /\ UNCHANGED <<changeVars, idVars, docVars, subs, job, netVars, rxDial, rxServe, frameVars, ghostVars>>

\* Mutant: the end of the stream falls to the last arm, `_ => {}'.
SpinOn(l) == sock[l] = "gone" /\ UNCHANGED vars

\* The stream ends, or a send fails: unregister_peer, and the loop starts over.
HangUp(l) ==
  /\ sock[l] = "gone" /\ Dialling(l) /\ down[l] = <<>>
  /\ dial' = [dial EXCEPT ![l] = "down"]
  /\ rxDial' = [rxDial EXCEPT ![l] = <<>>]
  /\ lagged' = [lagged EXCEPT ![l] = FALSE]
  /\ Awake(l)
  /\ exDial' = [exDial EXCEPT ![l] = <<>>]
  /\ UNCHANGED <<changeVars, idVars, docVars, subs, job, sock, serve, up, down, rxServe,
                 exServe, sent, got, ghostVars>>

-----------------------------------------------------------------------------
(* Ephemeral frames. *)

SendFrame(s, f) ==
  /\ Joined(s) /\ f \in Load[ends] /\ f \notin sent /\ Events < MaxEvents
  /\ sent' = sent \cup {f}
  /\ Route(s, f, FALSE)
  /\ UNCHANGED <<changeVars, idVars, docVars, subs, job, netVars, rxVars, ghostVars>>

TakeFrame(l) ==
  /\ Pop(l, "batch")
  /\ Route(From(l), Head(down[l]).changes, TRUE)
  /\ UNCHANGED <<changeVars, idVars, docVars, subs, job, sock, dial, serve, up, rxDial, rxServe, lagged,
                 sent, ghostVars>>

\* A local client's frame goes out as EphemeralRelay; a peer's is skipped.
ForwardFrame(l) ==
  /\ Dialling(l)
  /\ exDial[l] # <<>>
  /\ exDial' = [exDial EXCEPT ![l] = Tail(@)]
  /\ up' = IF TakesOn(Head(exDial[l])) /\ sock[l] = "open"
           THEN [up EXCEPT ![l] = Append(@, Msg("relay", Head(exDial[l]).frame, FALSE))] ELSE up
  /\ Awake(l)
  /\ UNCHANGED <<changeVars, idVars, docVars, subs, job, sock, dial, serve, down, rxDial, rxServe, lagged,
                 exServe, sent, got, ghostVars>>

-----------------------------------------------------------------------------
(* Faults. *)

MayFail == faults < MaxFaults /\ Events < MaxEvents

\* The connection is lost, and some of the frames under way.
Break(l) ==
  /\ sock[l] = "open" /\ MayFail
  /\ faults' = faults + 1
  /\ sock' = [sock EXCEPT ![l] = "gone"]
  /\ \E i \in 0..Len(up[l]), j \in 0..Len(down[l]) :
       /\ up' = [up EXCEPT ![l] = SubSeq(@, 1, i)]
       /\ down' = [down EXCEPT ![l] = SubSeq(@, 1, j)]
  /\ UNCHANGED <<changeVars, idVars, docVars, subs, job, dial, serve, rxVars, frameVars,
                 how, silent, aired, before, lostUp, lostDown>>

\* The push of task t is applied and not broadcast yet, in server s.
Cut(s, t) == Home(t) = s /\ job[t].step = "applied"

\* A server dies and starts again from its stored image; its browser connects again.
Restart(s) ==
  LET mine == {l \in Link : From(l) = s}
      served == {l \in Link : To(l) = s} IN
  /\ Joined(s) /\ MayFail
  /\ faults' = faults + 1
  /\ db' = [db EXCEPT ![s] = store[s]]
  /\ client' = [client EXCEPT ![s] = @ \cup Applied(store[s])]
  /\ subs' = [subs EXCEPT ![s] = {}]
  /\ id' = [id EXCEPT ![s] = faults']
  /\ job' = [t \in Task |-> IF Home(t) = s THEN Idle ELSE job[t]]
  /\ sock' = [l \in Link |-> IF l \in mine \cup served THEN "gone" ELSE sock[l]]
  /\ dial' = [l \in Link |-> IF l \in mine THEN "down" ELSE dial[l]]
  /\ serve' = [l \in Link |-> IF l \in served THEN "off" ELSE serve[l]]
  /\ up' = [l \in Link |-> IF l \in served THEN <<>> ELSE up[l]]
  /\ down' = [l \in Link |-> IF l \in mine THEN <<>> ELSE down[l]]
  /\ rxDial' = [l \in Link |-> IF l \in mine THEN <<>> ELSE rxDial[l]]
  /\ rxServe' = [l \in Link |-> IF l \in served THEN <<>> ELSE rxServe[l]]
  /\ exDial' = [l \in Link |-> IF l \in mine THEN <<>> ELSE exDial[l]]
  /\ exServe' = [l \in Link |-> IF l \in served THEN <<>> ELSE exServe[l]]
  /\ lagged' = [l \in Link |-> lagged[l] /\ l \notin mine]
  /\ stalled' = [l \in Link |-> stalled[l] /\ l \notin mine]
  /\ how' = [how EXCEPT ![s] = [x \in Change |-> IF x \in store[s] THEN @[x] ELSE "none"]]
  /\ silent' = [silent EXCEPT ![s] = @ \cup UNION {job[t].changes : t \in {u \in Task : Cut(s, u)}}]
  /\ aired' = [aired EXCEPT ![s] = @ \cup store[s]]
  /\ UNCHANGED <<changeVars, as, store, sent, got, before, lostUp, lostDown>>

-----------------------------------------------------------------------------
(* The specification. *)

None(S, v) == [i \in S |-> v]

Init ==
  /\ ends \in Topologies
  /\ written = {} /\ deps = None(Change, {})
  /\ db = None(Server, {}) /\ store = None(Server, {})
  /\ client = None(Server, {}) /\ subs = None(Server, {})
  /\ id = None(Server, 0) /\ as = [l \in Link |-> ClientId(l)]
  /\ job = None(Task, Idle)
  /\ sock = None(Link, "gone") /\ dial = None(Link, "down") /\ serve = None(Link, "off")
  /\ up = None(Link, <<>>) /\ down = None(Link, <<>>)
  /\ rxDial = None(Link, <<>>) /\ rxServe = None(Link, <<>>)
  /\ lagged = None(Link, FALSE) /\ stalled = None(Link, FALSE)
  /\ exDial = None(Link, <<>>) /\ exServe = None(Link, <<>>)
  /\ sent = {} /\ got = None(Server, None(Frame, 0))
  /\ how = None(Server, None(Change, "none"))
  /\ silent = None(Server, {}) /\ aired = None(Server, {})
  /\ before = None(Link, {}) /\ lostUp = None(Link, {}) /\ lostDown = None(Link, {})
  /\ faults = 0

Inside(t) == Apply(t) \/ Broadcast(t)

Serve(l) ==
  \/ Greet(l) \/ SendSync(l) \/ ServePush(l) \/ DropRelay(l) \/ ServeBroadcast(l)
  \/ ServeFrame(l) \/ StopServing(l)

ConnectToPeer(l) ==
  \/ Dial(l) \/ Listen(l) \/ TakeBroadcast(l) \/ TakeSync(l) \/ TakeFrame(l)
  \/ Forward(l) \/ Lag(l) \/ ForwardFrame(l) \/ HangUp(l)

Run ==
  \/ \E t \in Task : Inside(t)
  \/ \E s \in Server : PushLocal(s)
  \/ \E l \in Link : Serve(l) \/ ConnectToPeer(l)

Next ==
  \/ Run
  \/ \E s \in Server, x \in Change : Write(s, x)
  \/ \E s \in Server, f \in Frame : SendFrame(s, f)
  \/ \E s \in Server : Refresh(s) \/ Restart(s)
  \/ \E l \in Link : Break(l)

Spec == Init /\ [][Next]_vars

\* Some task goes on while one can; not even every task's own fairness is needed.
\* Nothing makes users write or servers fail.
FairSpec == Spec /\ WF_vars(Run)

-----------------------------------------------------------------------------
(* Properties. *)

\* Nothing is under way, and every link is up.
Quiet ==
  /\ \A t \in Task : job[t] = Idle
  /\ \A s \in Server : client[s] \subseteq db[s]
  /\ \A l \in Link :
       /\ sock[l] = "open" /\ dial[l] = "up" /\ serve[l] = "idle"
       /\ up[l] = <<>> /\ down[l] = <<>> /\ exDial[l] = <<>> /\ exServe[l] = <<>>
       /\ rxServe[l] = <<>> /\ (stalled[l] \/ (rxDial[l] = <<>> /\ ~lagged[l]))

\* Every variable has its type; no ring holds more than its capacity, and nothing is
\* held for a task that has no receiver.
TypeOK ==
  /\ ends \in Topologies
  /\ written \subseteq Change /\ deps \in [Change -> SUBSET Change]
  /\ db \in [Server -> SUBSET Change] /\ store \in [Server -> SUBSET Change]
  /\ client \in [Server -> SUBSET Change]
  /\ subs \in [Server -> SUBSET (Server \X (0..MaxFaults))]
  /\ id \in [Server -> 0..MaxFaults] /\ as \in [Link -> Server \X (0..MaxFaults)]
  /\ job \in [Task -> [step : {"idle", "extracted", "applied"},
                       changes : SUBSET Change, loud : BOOLEAN]]
  /\ sock \in [Link -> {"open", "gone"}]
  /\ dial \in [Link -> {"down", "greeting", "up"}]
  /\ serve \in [Link -> {"off", "greeted", "idle"}]
  /\ \A l \in Link : Len(rxDial[l]) <= Cap /\ Len(rxServe[l]) <= Cap
  /\ lagged \in [Link -> BOOLEAN] /\ stalled \in [Link -> BOOLEAN]
  /\ \A l \in Link : dial[l] # "up" => rxDial[l] = <<>> /\ exDial[l] = <<>> /\ ~lagged[l]
  /\ \A l \in Link : serve[l] = "off" => rxServe[l] = <<>> /\ exServe[l] = <<>>
  /\ sent \subseteq Frame /\ got \in [Server -> [Frame -> Nat]]
  /\ how \in [Server -> [Change -> {"none", "client", "serve", "dial", "sync"}]]
  /\ faults \in 0..MaxFaults

\* A server's document is saved but for what came in the Sync of a link it dialled:
\* a crash loses nothing else, whoever pushed it.
OnlySyncIsUnsaved ==
  \A s \in Server : \A x \in db[s] \ store[s] : how[s][x] = "sync"

\* At rest a server that dialled another lacks of it only what the other did not get
\* from its own clients (a peer's changes go no further) or what the channel lost.
OnlyRelayedIsMissingBelow == Quiet =>
  \A l \in Link : \A x \in db[To(l)] \ db[From(l)] :
    how[To(l)][x] # "client" \/ x \in lostDown[l]

\* At rest a server that was dialled lacks of the other only what the other did not
\* get from its own clients, what it broadcast or loaded before this connection listened
\* (a reconnected link does not offer it again), or what the channel lost or holds.
OnlyEarlierIsMissingAbove == Quiet =>
  \A l \in Link : \A x \in db[From(l)] \ db[To(l)] :
    \/ how[From(l)][x] # "client"
    \/ x \in before[l] \cup lostUp[l]
    \/ stalled[l] /\ \E m \in ToSet(rxDial[l]) : x \in m.changes

\* At rest a browser lacks of its server only what came without a broadcast: in the
\* Sync of a link, in a push whose changes were held back when it came, or in one that a
\* crash kept from being broadcast.
OnlySilentIsUntold == Quiet => \A s \in Server : db[s] \ client[s] \subseteq silent[s]

\* No browser gets an ephemeral frame twice.
FrameOnce == \A s \in Server, f \in Frame : got[s][f] <= 1

\* Changes come to an end on the links, however the servers are joined, and the links are
\* up again after every fault; frames come to an end only where no server is reached from
\* itself, as in a chain or over a doubled link: between two servers that dial each other
\* they go round for ever (FrameOnce), so that Load is to have none there.
Settles == <>[]Quiet

-----------------------------------------------------------------------------
(* The inductive invariants behind the three properties of rest. *)

\* A browser has what it pushes, and its pushes are broadcast.
OwnPushes ==
  \A s \in Server : job[s].changes \subseteq client[s] /\ (job[s].step # "idle" => job[s].loud)

\* What a browser lacks came silently, or is about to be broadcast.
Told ==
  \A s \in Server : \A x \in db[s] \ client[s] :
    x \in silent[s] \/ \E t \in Task : Cut(s, t) /\ x \in job[t].changes

\* Only what was made is anywhere.
OnlyWritten ==
  /\ \A x \in Change : deps[x] \subseteq written
  /\ \A s \in Server : db[s] \cup client[s] \subseteq written
  /\ \A t \in Task : job[t].changes \subseteq written
  /\ \A l \in Link :
       /\ \A m \in ToSet(rxDial[l]) \cup ToSet(rxServe[l]) : m.changes \subseteq written
       /\ \A m \in ToSet(up[l]) : m.type = "push" => m.changes \subseteq written
       /\ \A m \in ToSet(down[l]) : m.type \in {"sync", "broadcast"} => m.changes \subseteq written

\* The changes are numbered as they are made; dependence is transitive.
CausalGraph ==
  /\ written = 1..Cardinality(written)
  /\ \A x \in Change : \A y \in deps[x] : deps[y] \subseteq deps[x]

\* What the browser of s made or pushed is saved together with all it builds on; what
\* only the browser has, it has with all it builds on.
LocalIsSaved ==
  \A s \in Server :
    /\ store[s] \subseteq db[s]
    /\ \A x \in Change : how[s][x] # "none" <=> x \in db[s]
    /\ \A x \in Change : how[s][x] = "client" => deps[x] \cup {x} \subseteq store[s]
    /\ \A x \in client[s] \ store[s] : deps[x] \subseteq client[s]
    /\ \A x \in job[s].changes \ store[s] : deps[x] \subseteq job[s].changes \cup db[s]
    /\ \A t \in Task : Cut(s, t) => job[t].changes \subseteq store[s]

\* The browser's push of x is applied and not broadcast yet.
Airing(s, x) == job[s].step = "applied" /\ x \in job[s].changes

\* x is on its way from the server that l dialled, or the next Sync will bring it.
OnTheWayDown(l, x) ==
  \/ x \in db[From(l)]
  \/ sock[l] = "gone" \/ serve[l] \in {"off", "greeted"}
  \/ Airing(To(l), x)
  \/ \E m \in ToSet(rxServe[l]) : Wants(l, m) /\ TakesOn(m) /\ x \in m.changes
  \/ \E m \in ToSet(down[l]) : /\ m.type = "sync" \/ (m.type = "broadcast" /\ TakesOn(m))
                               /\ x \in m.changes
  \/ job[<<l, "dial">>].step = "extracted" /\ x \in job[<<l, "dial">>].changes

NothingLostBelow ==
  \A l \in Link : \A x \in Change :
    how[To(l)][x] = "client" => x \in lostDown[l] \/ OnTheWayDown(l, x)

\* x is on its way to the server that l dialled, or was broadcast and l is not connected.
OnTheWayUp(l, x) ==
  \/ x \in db[To(l)]
  \/ Airing(From(l), x)
  \/ x \in aired[From(l)] /\ (sock[l] = "gone" \/ dial[l] # "up")
  \/ \E m \in ToSet(rxDial[l]) : TakesOn(m) /\ x \in m.changes
  \/ \E m \in ToSet(up[l]) : m.type = "push" /\ x \in m.changes
  \/ job[<<l, "serve">>].step = "extracted" /\ x \in job[<<l, "serve">>].changes

NothingLostAbove ==
  /\ \A s \in Server : \A x \in Change : how[s][x] = "client" => x \in aired[s] \/ Airing(s, x)
  /\ \A l \in Link : \A x \in Change :
       how[From(l)][x] = "client" => x \in before[l] \cup lostUp[l] \/ OnTheWayUp(l, x)
=============================================================================
