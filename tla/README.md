# SwirlDB in TLA+

SwirlDB is a CRDT database: Automerge documents that servers and clients keep in
agreement over WebSockets, and servers keep in agreement with each other over a LAN.
This directory holds its specifications, the TLC configurations that check them and
the proofs about them. Paths below are relative to `src/native/`.

## Inventory

| component | source | state | operations | what makes it correct |
|---|---|---|---|---|
| WebSocket tasks of the sync server | `swirldb-server/src/handler.rs` | one task per connection: its place in the code, its receiver of the broadcast channel | Connect, Push, deliver a broadcast, ephemeral arms, cleanup | a connected client misses nothing it subscribed to; acks are durable |
| Shared state of the server | `swirldb-server/src/state.rs` | document (RwLock), stored image, subscriptions by client_id (Mutex), connections by connection_id, broadcast channel, relay claims | register, unregister, apply, broadcast, route_ephemeral, claim, cleanup | the document is causally closed, survives crashes, tables mention only what is there |
| Document core | `swirldb-core/src/core.rs`, `paths/extractor.rs` | Automerge document, path index, observers | set_path, get_changes(_since), get_heads, apply_changes, persist, extract_affected_paths, observe | deltas suffice; observers hear of each change once |
| Subscription manager | `swirldb-core/src/sync.rs` | subscriptions per client | add, remove, get_subscribers_for_paths | the right clients are picked |
| Path patterns and policy | `swirldb-core/src/policy.rs` | rules with priorities | match_segments, evaluate | `*` is one segment, `**` zero or more; the first matching rule decides |
| Native client | `swirldb-client/src/lib.rs` | own document, callbacks | connect_with_id, set_path, receive loop | every write reaches the server |
| Browser binding | `swirldb-browser/src/lib.rs` | document, connection with last_synced_heads, observers | connect, syncChanges, setPath, onmessage, onclose | what it leaves out of a push is on the server |
| Server-to-server links | `swirldb-server/src/main.rs` | link per configured peer | connect_to_peer, forwarding, back-off, heartbeat | servers converge; nothing circulates for ever |
| Peer manager | `swirldb-server/src/peer_manager.rs` | peers with states, dirty flag, timers | connect, handshake, push, relay, reconnect, persist, shutdown | peers that both say Synced agree; no change is lost in a handshake |
| LAN transport | `swirldb-server/src/transport/lan.rs` | connection table, read loops | connect, accept, disconnect, shutdown | the table holds the live connection of each peer; both ends keep the same one |
| Arrays of records | `swirldb-core/src/core.rs` | a map from keys to items in the document | assign by difference, merge, read back in order | what is assigned is read back; nobody's item is lost to somebody else's assignment |
| Path registry | `swirldb-core/src/paths/registry.rs` | paths and the objects at them | register, rebuild | every object is in it |
| Wire codec | `swirldb-core/src/protocol/mod.rs` | none | encode, decode | what is sent arrives, or nothing does |
| mDNS discovery | `swirldb-server/src/discovery/mdns.rs` | known peers, our own id, the channel of a browse | advertise, browse, next_event | known are exactly those who are there |
| Storage, encryption, auth, transport traits | see `PROJECT.json` | | | pure functions or input and output |

How they meet: a client sends `Connect` (its heads and subscriptions) and the task answers
`SubscribeAck`, then `Sync` (the changes since those heads). `Push` carries changes; the task
extracts their affected paths, applies them, persists the document, picks the clients
subscribed to the paths, sends a message on the tokio broadcast channel, and acknowledges
with the new heads. Every other task receives the broadcast in its `select!` and forwards
it if its client was picked. Links to other servers apply what they get to the same document and forward what local
clients wrote; each end of a link marks what came from a peer, so that it goes no further.

What is hard here: tasks interleave between any two awaits; the affected paths are computed
under one lock, the changes applied under another, the subscribers picked under a third; the
channel drops its oldest message when a receiver is slow; persisting can fail; the server can
crash between any two steps; a client can leave and come back before its old task noticed;
browsers push deltas against heads that somebody told them earlier. `PROJECT.json` lists each
hazard with its line and the properties that cover it.

## Plan

What there is, from the core outwards:

1. `SyncServer`, with `CausalStore` as the abstract specification of a document server, and
   their proofs.
2. `ServerLinks`: several servers joined by `connect_to_peer`, with changes, ephemeral frames,
   lost links and restarts, with proofs. What `SyncServer` does in single steps is coarser here.
3. `LanTransport` (connections), `LanEphemeral` (datagrams), `PeerMesh` (handshakes and pushes
   over an abstract transport), `PeerStorage` (saving): the LAN side of a server, with proofs.
4. The parts that share no state with others, which the run `parts` explores side by side:
   `PathPolicy` and `Subscriptions`, `Document`, `RecordArrays`, `WireCodec`,
   `BrowserObservers`, `Discovery`, and `LanEphemeral`; with proofs of all of them.
5. `DataLemmas`: what these proofs use of queues, recursive functions and folds.

What is left: in `PeerMesh`, `connect`, `remove_peer`, PeerLost, the two steps of a reconnect
attempt and bounded event queues.

## SyncServer: the server and its clients

`SyncServer.tla` models `handle_websocket` and the parts of `ServerState` it calls, one
`SyncClient` (native) or browser binding per client, the WebSockets and the broadcast channel.

| model | code |
|---|---|
| `db`, `store` | `ServerState.db` and the image `SwirlDB::persist` writes |
| `subs`, `clients` | the subscription manager (by client_id), the connection table (by connection_id) |
| `pc[k]`, `arg[k]`, `paths[k]`, `targets[k]`, `rx[k]` | the task of connection k: where it is and its locals |
| `sock`, `up`, `down` | the WebSocket and the frames under way |
| `replica`, `synced`, `current`, `ready`, `outbox` | the client's document, `last_synced_heads`, connection, and pushes that calls of `set_path` have built and not sent |
| `written`, `deps` | the Automerge change graph |
| `missed`, `shadowed`, `acked`, `faults` | history the properties speak of; no action's guard reads it, save the bound on faults |

A task's action is a stretch of code between two awaits at which it holds no lock:
`RegisterClient`, `Subscribe` and `SendSync` for Connect; `ReceivePush` (extract paths),
`Apply` or `ApplyPersistFails`, `PickTargets`, `SendBroadcast`, `SendPushAck` for Push;
`ReceiveBroadcast`; `Unregister`. `Connect`, `Close`, `NoticeDrop`, `Receive`, `SetPath`, `Push`,
`SetPathLocal` and `SyncChanges` are the clients; `Restart` is the death of the server and
its next start. The browser clients are the set `Delta`: they push the changes since
`last_synced_heads`, native ones push everything.

Abstractions, each on data only:

- A change is an opaque value; its dependencies are fixed when it is written. A document is
  the set of the changes it was given; one whose dependencies are missing waits, as it does
  in Automerge's queue, and is not visible (`Applied`). Heads, deltas and ancestors are
  defined on this graph.
- A change writes one path, and `Patterns[k]` are the topics the patterns of connection k
  match. Automerge reports a value that loses against, or ties with, a concurrent write as a
  `Conflict` patch, which the extractor turns into the parent's path: `Root`. Which of the
  concurrent writes is reported that way is left open. Creating intermediate objects announces
  their paths too; this only adds targets and is left out.
- The image is written at once or not at all (one redb transaction or one file).
- A failed write leaves the document changed: `ApplyPersistFails`.
- Frames are lost only with their connection; `Close` loses a suffix of what the client
  sent and everything sent to it. A browser's send before the socket is open fails and changes
  nothing, so it is a stutter.
- One `Connect` per connection, and well-formed messages. Ephemeral messages (see `ServerLinks`),
  Ping and the heartbeat touch none of these variables.

`CausalStore.tla` says in four actions what a document server promises: `Merge` keeps the
document causally closed, `Promise` acknowledges only what is in the image, `Crash` falls
back to the image. `ImplementsCausalStore` maps `doc`, `image` and `promised` to `db`,
`store` and `acked`.

### Runs

| run | instance | question | answer |
|---|---|---|---|
| `server_faults` | a browser with two connections, a native client; 2 changes to one path; channel of 1; one lost connection or one crash; writes to storage may fail | `TypeOK`, `NoSilentGap`, `CausallyClosed`, `SyncedIsOnServer`, `AckedDurable`, `BroadcastDurable`, `ImplementsCausalStore` | hold (993k states) |
| `server_native` | two native clients, two paths, one lost connection, fairness | `NothingHeldBack`, `Delivered`, `Forgotten` | hold (70k states) |
| `stale_unregister` | a client reconnects before its old task cleaned up | `NoSilentGap` | violated |

Bounds. Two clients are enough for every pair of roles (who pushes, who is told); three
connections let one client come back while the other stays; two changes give both a concurrent
and a dependent pair, on one path (conflicts) or two (partial subscriptions). A channel of
capacity 1 overruns with two broadcasts; the code's 1000 would never fill. Two changes to the
same path may be swapped in every behaviour, hence the symmetry of the first run. `MaxFrames`
bounds the resending of deltas, `MaxFaults` lost connections and crashes together; the
proofs do without them. Deadlock is not checked: all tasks wait when the users do nothing more.

`Overlap` names an assumption: with `FALSE`, a client opens a connection only after the server
has forgotten its earlier ones. The code does not enforce it, and `stale_unregister` shows
what happens without: `unregister_client` removes the subscriptions of the client_id
(`state.rs:436`) although the client's new connection has just registered them, and a connected
client is not told of changes any more. The server's README (line 114) says that changes are
broadcast to other clients with matching subscriptions.

The price of deltas, which no run states as a property: the server broadcasts a push to the
clients whose patterns match that push, so a browser can get a change without the one it depends on
(`browser/src/lib.rs:847`). Automerge holds it back for good, and the browser never shows a value the
server has, on a path it subscribed to, while the documentation (`docs/src/pages/sync.astro:179`) says
that all clients converge. Native clients push everything each time, and `NothingHeldBack` holds
for them (`server_native`).

Two more places where the code loses an announcement are recorded in `missed` and so excepted
from `NoSilentGap`: a receiver that the channel overran (`handler.rs` logs `Lagged` and goes
on), and a push whose write to storage failed (the document keeps the changes, nobody is told).

Fairness (`FairSpec`, used by `Delivered` and `Forgotten` only): weak fairness of each task and of
each client's handling of frames. tokio polls every ready task in turn, the locks are held
for bounded stretches, `select!` picks a ready arm at random, and the transport delivers while a
connection is up. Nothing makes a user write, connect or leave, the network fail or the
server crash.

### Proofs

`SyncServerProofs.tla` proves for every set of clients, connections, changes, paths, every
capacity and every bound:

- `TypeCorrect`: `Spec => []TypeOK`.
- `ServerInvCorrect`: `Spec => []ServerInv`, the inductive invariant, and from it `DocumentsClosed`,
  `DeltasAreEnough`, `AcksAreDurable`, `BroadcastsAreDurable`.
- `StoreImplemented`: `Spec => ImplementsCausalStore`, step by step from the same invariant.

Why the invariant has its parts. That the document is closed after `Apply` needs `PushesFit`: what a
push builds on is in the push or on the server. That holds for a browser's push because of
`SyncedIsOnServer`: everything below `last_synced_heads` is on the server. These heads came in a
frame, so the frames' heads must be known to the server while the connection lives
(`HeadsKnown`), and `CausalGraph` (transitive dependencies) makes the changes below a head a
closed set. A crash takes changes back, but also every connection, frame and task; hence the
invariant speaks of open connections only, and a new connection starts with no heads
(`ForgetSyncedHeads`). For native clients `OutboxComplete` says that a push built by
`set_path` is closed by itself, in whatever order two calls send. `StoredWhenApplied` links
each task's position with the image and gives both durability properties. `OnlyWritten`,
`OwnConnection` and `UnusedIsEmpty` are bookkeeping.

- `NoSilentGaps`: `Spec => []NoSilentGap` for `Overlap = FALSE`, from the inductive invariant
  `GapInv` (`GapInvCorrect`). With `TRUE` it is false: `stale_unregister`.
- `NeverHeldBack`: `Spec => []NothingHeldBack` for `Delta = {}`, that is, without clients that push
  deltas. With them it is false, as said above.

`NoSilentGap` is nearly inductive: a change enters the document by an `Apply`, and from then on its
push carries it, then the queue of each receiver that wants it, then a frame, then the replica. The
step that hands it over must hand it to *every* connection that is owed it, and this is where the
other parts come in. At `Apply` the paths picked for the push have to cover what it adds
(`PathsExtracted`: another push may have been applied since they were extracted, but that only
takes changes off the list). At `Broadcast` the subscriptions must be those of the connection
(`SubscriptionsHeld`), which is what a late `unregister` breaks, and why one connection
of a client has ended before the next begins (`OneAtATime`). The pusher itself is not told, and has
what it pushed (`SentIsOwn`). A connection becomes owed something when it takes its Sync, and what
the Sync leaves out is below heads that the client has. `LivesOnce` says that a dead
task holds no push. For `NothingHeldBack` the invariant is that every message, push and frame
holds whole histories (`WholeHistories`).

The assumptions are those of `ConstantsOK` and the two named here. `ServerInv` and `GapInv` are proved
and in no run's list: the properties that follow from them are. Only model-checked: the two liveness
properties, which are out of the prover's reach, as is `ENABLED`.

## LanTransport: the connections between peers

`LanTransport.tla` models `transport/lan.rs`: every peer's table of connections, the task each
peer runs for each TCP connection, and the connection events it sends to the peer manager.

| model | code |
|---|---|
| `table[m][n]` | m's `Inner.peers` entry for n: the connection whose write half the entry owns |
| `writer[c]` | the ends of c whose write half has not been dropped; when one is, the other end reads the end of the stream |
| `task[c][m]` | m's task for c: `dialing`, `registered`, `reading`, `removed`, `done` for `connect_outbound`; `greeted`, `yielding`, `admitted`, then the same for `handle_inbound`; both end in `tcp_read_loop` |
| `failed[c]` | the ends whose read fails or times out |
| `shut`, `listening`, `listed` | `shut_down`, the accept loop, and whether `shutdown` has listed the entries to remove |
| `leaving[m]` | how far calls of `disconnect` and `shutdown` are, for each peer they remove |
| `told[m][n]` | the last of PeerConnected and PeerDisconnected that m sent about n |

The tasks run on several threads and share only a concurrent map, so an action is one access to
the table: the look-up and the removal of `disconnect`, the tie-break's look-up and its removal, the
list that `shutdown` takes and each removal after it, and an insert, are separate steps with any
other task's between them. Both inserts and all removals are by peer id, as in the code.

Left out, because they leave table and streams alone: messages, byte counters, UDP (see `LanEphemeral`), the candidate addresses of a peer. A connection refused, a time-out, a wrong id and
an error in the handshake are all `DialFails`. The event channel is drained by the peer manager.

| run | instance | question | answer |
|---|---|---|---|
| `lan_transport` | two peers; three connections, dialled from both sides; one error, disconnect or shutdown | `TypeOK`, `NoDeadEntry`, `NoLeakedWriter`, `AgreeAtRest`, `TrackedAtRest` | hold (1.1M states) |
| `lan_tie_break` | two connections, one from each side, no trouble | `TieBreakKeepsOne` | violated |

Two peers are enough for the table, whose entries for different peers never meet; three connections
let two from one side and one from the other overlap. The two connections from one side are
interchangeable (`SameConns`). Deadlock is not checked: when all is said there is nothing to do.

`lan_tie_break` shows what the removal by id costs. When two peers dial each other, each registers
its own connection, the lower id rejects the other's and the higher id replaces its own. The
connection that lost closes, its read loop ends and removes *the peer* (`lan.rs:774`): the entry
of the connection that won. Its stream is closed and the other end follows. Both peers are then told that they
are disconnected, and reconnecting is left to the peer manager.

`LanTransportProofs.tla` proves for every set of peers, connections, order of ids and number of
troubles: `TypeCorrect`; `TableSound` and `WritersKept` (`NoDeadEntry`, `NoLeakedWriter`) from the inductive
invariant `TableInv`; and from it what holds at rest, `RestAgreed` (`AgreeAtRest`) and `RestTracked` (`TrackedAtRest`).
`TableInv` adds `Handshaken`, so that a peer that registers a connection has an acceptor to close
it. The argument for `AgreeAtRest`: m's entry c has a read loop, which at rest waits, so that n's write
half of c is open, and by `NoLeakedWriter` n's entry for m is c. For `TrackedAtRest`, `ToldByReader`
says that the last event is PeerConnected only while a read loop runs or has just ended.

## PeerMesh: handshakes and pushes between peers

`PeerMesh.tla` models the peer managers (`peer_manager.rs`) of all peers of a mesh over an
abstract transport.

| model | code |
|---|---|
| `state[n][m]` | the state of n's entry for m in `Inner.peers`; `none` without an entry |
| `outbound[n]`, `filtered[n]` | the entries made by discovery; those with a known, non-empty list of subscriptions |
| `db[n]`, `written`, `deps` | documents and the change graph, as in `SyncServer` |
| `link`, `chan[m][n]` | the live connections; what m's connection to n brought and n has not handled |
| `job[n]` | what the transport loop of n is in the middle of |
| `finding[n]` | how far the discovery loop is: looked up, inserted, dialling |
| `pending[n]` | the `push_local_changes` under way |
| `unsent`, `replaced`, `downs` | history: what n passed m over with; entries that discovery replaced; the bound on failures |

A handler is split where it awaits: `HandleConnect`, `SendSync`, `ConnectBack`; `HandleSync`,
`MarkSynced`; `HandlePush`, then a `Relay` per peer, in any order (a `DashMap` has none).
`PushLocal` is one turn of the loop of `push_local_changes`. `Discover`, `Track` and
`Dial` or `DialFails` are the discovery loop; `Reconnect` is a `reconnect_loop` that gets
through. The look-up and insert of `handle_peer_connected` are one action: an insert by
discovery in between would just be overwritten.

Assumed of the transport: at most one link per pair of peers, whose ends are told in order. A
lost link loses a suffix of what was sent on it. The LAN transport does not always keep
the order: a late PeerDisconnected of a replaced connection may follow the PeerConnected of
its successor (`lan.rs:702`, in the list of hazards).

Data. Pushes carry what was just written, as in `tests/peer_sync_integration.rs:204`.
A push affects some path exactly when it brings a change into effect (`Fresh`); subscriptions are `["**"]`, the
default, or empty (`NoFilter`). A Sync is not relayed, in the code as in the model.

| run | instance | question | answer |
|---|---|---|---|
| `peer_mesh` | two peers that discover each other, two changes, one lost link or failed dial | `SyncFits`, `SyncedAtRest`, `OnlyUnsentIsMissing` | hold (1.5M states) |
| `peer_mesh_relay` | three peers in a cycle, one change, fairness | `OnlyUnsentIsMissing`, `Settles` | hold (175k states) |

Two peers show every race of a handshake, since handshakes of different pairs share only the
document; two changes give dependent and concurrent pairs; three peers are the smallest cycle. Peers and
changes of `peer_mesh` may be swapped (`Same`). Deadlock is not checked: a mesh at
rest waits for its users.

What the exceptions in the properties record:

- `OnlyUnsentIsMissing`: a change written while a handshake is under way is pushed to synced peers
  only, and the Sync that was just sent does not have it. Nothing sends it later, until the link
  is lost and the next handshake compares heads. The same goes for what a peer got by Sync from
  a third one: it is applied, saved, and not passed on.
- `SyncedAtRest`: the discovery loop looks a peer up and inserts it in two steps
  (`peer_manager.rs:1130`, `1143`). When the peer's own connection was accepted in between, the
  insert replaces its entry. A comment (line 1167) relies on a PeerConnected that is still to
  come; once that is past, the entry stays Connected although the handshake is over, and
  pushes skip the peer while the link lasts.
- `Settles` needs a list of subscriptions that is not empty. A peer without one is sent every relay,
  also of pushes that change nothing, and in a cycle of such peers a push circulates for ever.

Fairness of `FairSpec`: while any transport loop, dial, reconnection or push can go on, one does. It
is weaker than what tokio gives each task. mDNS, the application's writes and the network's
failures are not forced.

`PeerMeshProofs.tla` proves for every mesh, set of changes, subscriptions and number of
failures, from `ConstantsOK` alone:

- `TypeCorrect`, `MeshInvCorrect` and `SyncsTakeEffect` (`SyncFits`). The invariant follows a
  handshake: heads in a Connect are in effect at its sender (`HeadsKnown`) and stay so, for
  documents only grow; hence the changes since these heads build only on each other and on what
  is in effect there (`SyncsFit`), while the Sync is made and on its way, whatever else arrives in
  between. `CausalGraph` makes the changes below a head a closed set. That pushes are *not* part of
  `SyncsFit` is the point: they may arrive before what they depend on, and are then held back.
- What holds at rest: `RestSynced` (`SyncedAtRest`) and `OnlyUnsentMissing` (`OnlyUnsentIsMissing`), from
  `LinkInvCorrect`. Both properties speak of quiet states only, so the inductive invariant
  `LinkInv` has to say how far each handshake is. It does so for a pair of nodes n, m and the queue
  between them:
  - `InOrder`: a Down is followed by the Up of the next link if there is one, and without a link
    the last event is the Down of the last one. `Told`: hence who takes a lost peer for connected
    will hear of it, and who has handled all Ups of a link takes the peer for connected.
  - `Half`: while they are connected, the half of the handshake in which n sends the Sync is at
    one of three points. m has asked, or will when it handles the Up because it discovered n
    (`Asked`); or n has taken the question, and then every change of n's is at m, on its way,
    in a task, or recorded as `unsent` (`Covered`), and the Sync is made, in the queue, applied or the
    entry marked (`Done`); or m was dialled, has seen nothing of this link's Sync (`Unsynced`), and n's
    Connect will make it ask (`WillConnect`). `HasNew` tells what was sent on this link from
    what an earlier one left in the queue.
  - `Strangers` and `OneSided`: a node that did not discover its peer cannot dial it, so the third
    point is never passed without the question. `Done` has to allow for `replaced`: a discovery that
    replaces the entry makes a node forget that the half is over, and nobody asks again.
  - `Entries` and `OwnChanges`: tables and tasks name other nodes and existing entries, and messages
    hold changes of their sender's, so that what a lost link loses can be asked for anew.

  A step concerns one pair (`Between`); the proof has one lemma for each action about that pair
  (`ConnectedPair` to `OfferPair`), one that the others stay (`Elsewhere`), and one that no change is
  forgotten in any step (`StaysStep`). At rest queues and tasks are empty, and `Half` leaves
  `Covered` and `Done` with nothing on its way.

Termination (`Settles`) is model-checked only.

## PeerStorage: saving what peers send

`PeerStorage.tla` models how one peer manager saves: the transport loop applies a Push and raises
`persist_needed`, or applies a Sync and saves at once; the timer saves when the flag was up, and
raises it again when that fails; `shutdown` saves, sets `shut_down`, and both loops
end. `persist()` is two steps, `Snapshot` of the document and `WriteImage` or
`WriteFails`, since the write runs on a blocking thread under a read lock that others share.

| model | code |
|---|---|
| `db`, `store` | the document, the image in redb |
| `dirty`, `shut` | `persist_needed`, `shut_down` |
| `pc[t]`, `snap[t]`, `arg`, `last` | the three tasks and their locals |
| `dropped`, `fails` | history: what a save overwrote or failed to write with the flag down; the bound on failures |

| run | instance | question | answer |
|---|---|---|---|
| `peer_storage` | three changes, two failed writes, fairness | `NothingForgotten`, `SavedInTime` | hold (126k states) |
| `persist_overlap` | two changes, no failures | `FlagTellsUnsaved` | violated |

Three changes are one for each task's snapshot; two failures hit a save and its retry. Deadlock is not
checked: after a shutdown nothing runs. Left out: the application's own writes, which the
manager neither flags nor saves, and malformed messages.

`persist_overlap`: the timer takes its snapshot; a Sync arrives and is saved; the timer's
write comes last and puts the older image back, with the flag down. The comment on the flag
(`peer_manager.rs:335`) says that it tells of changes applied and not yet persisted. These, and the Sync whose write
failed (line 874), are the only ways to lose sight of a change: that is `NothingForgotten`, which `PeerStorageProofs.tla` proves
for every set of changes and number of failures, with `TypeCorrect`. Its argument follows one change: a
step that lowers the flag leaves a task before its snapshot, the snapshot has the change, and a write stores it.

`SavedInTime` assumes weak fairness of each task: tokio runs what is ready, and a write to storage
ends one way or the other. After a call of `shutdown` it says nothing: the loop reads
`shut_down` only before it waits, so a last Push may be flagged after the timer has ended.

## PathPolicy: patterns and rules

`PathPolicy.tla` models `policy.rs`: `Matches` is `match_segments` as a recursive function: of a
pattern, to a function of paths; `Substituted` puts the actor's id for `{actor.id}`, and `Allowed` is
`PolicyEngine::evaluate`: among the applicable rules the first of the stable sort by priority
decides, and no applicable rule means deny. The variable is the list of rules, and the one
action is an `update_config` that adds one. An `ActorPattern` is an actor or `Anyone`; a
rule's action is left out, since `evaluate` skips rules for other actions first. The peer manager has a copy of
`match_segments` for its subscriptions (`peer_manager.rs:286`).

The run `parts` checks `MatchesWhatItCovers` against a definition without recursion (`Covers`: a
way to share out the path's segments among the pattern's), and `LaterRulesYield`, for all
policies of up to two rules and three pattern segments, two actors, and paths of up to three segments
(its bounds are described below): enough for `**` before, between and after names, for two `**` in a
row and for every order of two rules. The matcher says no when the path is used up and more than one `**` is
left, so that `a.**.**` does not match `a`, although `**` stands for zero or more segments
(`policy.rs:393`): `EndsDeepTwice` is the exact exception.

`PathPolicyProofs.tla` proves both for every policy, set of names and bound. `LaterRulesDecideNothing`
rests on the fact that the set of deciding rules is the same before and after.
`MatchingFindsWhatItCovers` compares the matcher and `Covers` by one induction on the length of the
pattern in each direction (`MatchedIsCovered`, `CoveredIsMatched`). The matcher removes the first segment of a
pattern, and `CoversStep` says that `Covers` obeys the same equation: to share out a path is to
give the first segment some of it and to share out the rest. The second direction needs the exception in
its induction hypothesis: if a pattern does not end in two `**`, its rest does not either (`EndsStay`). That `Matches` obeys its equation at all is a lemma (`MatchesExists`), see `DataLemmas` below.

## ServerLinks: servers connected with each other

`ServerLinks.tla` models `connect_to_peer` (`main.rs`) and what the server it dials does with it.
A link is one such task. To the server it dials it is a client like any other, with the client_id
`peer-<server_id>`; at home it is one more source of changes and of frames.

| model | code |
|---|---|
| `ends[l]` | who dials whom, from the configuration or from mDNS |
| `db[s]`, `store[s]`, `client[s]`, `subs[s]`, `id[s]` | a server's document and image, its local browser, the links that have subscriptions here, its `server_id` (a new UUID at each start) |
| `dial[l]`, `serve[l]`, `job[t]` | the tasks at the two ends of a link, and the push each task is in the middle of |
| `sock`, `up`, `down`, `as` | the WebSocket, the frames under way, the client_id in the last Connect |
| `rxDial`, `rxServe`, `lagged`, `stalled` | the receivers of the broadcast channel at both ends; what `recv` says next; the arm that did not match |
| `exDial`, `exServe`, `sent`, `got` | ephemeral frames |
| `how`, `silent`, `aired`, `before`, `lostUp`, `lostDown` | history for the properties; no guard reads it |

A push inside a server is three steps (`ServePush`, `Apply`, `Broadcast`), since `SyncServer` has
them all; storage does not fail here. Everybody is subscribed to `**`, as links are by default.
`select!` with a pattern is modelled as tokio defines it: when `broadcast_rx.recv()` says
`Lagged`, `Ok(msg)` does not match and that arm is off until another arm has run (`Lag`, `Awake`);
a PushAck would run one, too, and is left out. Ping, `PushAck` and the lengths of the back-off are
left out: a `Dial` may come at any time, but not before the server dialled has noticed that the
last connection is gone, as the first delay is a second. The ephemeral channels do not overrun
(there is one frame).

| run | instance | question | answer |
|---|---|---|---|
| `server_links` | three servers and two links, as a chain (two changes, or a change and a frame), mutual (one change) or doubled (a change and a frame); channel of 1; one lost link or restart; fairness | `TypeOK`, `OnlySyncIsUnsaved`, `OnlyRelayedIsMissingBelow`, `OnlyEarlierIsMissingAbove`, `OnlySilentIsUntold`, `Settles` | hold (593k states) |
| `ephemeral_loop` | two servers that dial each other, one frame | `FrameOnce` | violated |

Two links are what it takes for each shape that differs: a chain shows what stops at the first
peer, a mutual pair what comes back, a doubled link what two connections with one client_id do to
each other. A chain needs two changes, so that one may depend on the other and that a channel of 1
overruns; a pair sees with one change both directions and the echo. `MaxEvents` bounds changes,
frames and faults together.

What the exceptions in the properties record, each of them reached:

- `OnlySyncIsUnsaved`: a Sync from the server dialled goes into the document and is neither
  persisted nor broadcast (`main.rs:412-419`); `OnlySilentIsUntold` is its other half: local
  browsers hear of it when they connect anew.
- `OnlyRelayedIsMissingBelow`: broadcasts of what came from a peer carry the `peer-` mark and are
  skipped by links. When a dials b and b dials c, a change of c's client reaches b and not a while
  the links last; a gets it in the Sync of a new link. A doubled link loses its subscriptions when its
  twin is lost (`lostDown`).
- `OnlyEarlierIsMissingAbove`: a link that is up again offers nothing that was broadcast before it
  listened (`before`): Connect has no heads, the server dialled does not ask, and the Sync goes
  the other way. `stalled`: what a slow link's channel holds when `Lagged` has switched its arm
  off.

`ephemeral_loop`: frames leave a server in two ways, as `EphemeralRelay` by the links it dialled,
and as `EphemeralBatch` to its subscribers, links included that others dialled. The first is
guarded by the `peer-` mark, and is then dropped by `handle_websocket`, which has no arm for it.
The second has no guard: `route_ephemeral` excludes the nil connection for a peer's frame
(`main.rs:420-429`, `state.rs:262`), and an `EphemeralBatch` does not say where it is from. With
two servers that dial each other, as mDNS makes them, a frame goes round for ever. `Settles` claims
nothing for frames there: that everything comes to rest is checked for changes in all three
topologies, and for frames in the chain and over the doubled link.

Fairness of `FairSpec`: some task goes on while any can (`WF_vars(Run)`), less than what tokio
gives every task. Users and failures are not forced.

`ServerLinksProofs.tla` proves for every set of servers and links, every topology and every bound:

- `TypeCorrect` (`TypeOK`). `TypeInv` adds the types of the frames, notes and queues, which
  `TypeOK` leaves out and the steps that take from them need; one lemma per action, one step per
  group of variables. That a task which is not running holds nothing (`Held`) rests on the guards of
  `Broadcast` and `Route` (only a listening or serving task has a receiver) and on what
  `HangUp`, `StopServing` and `Restart` empty.
- `OnlySyncsAreUnsaved` (`OnlySyncIsUnsaved`). The property alone is not inductive: a Sync may bring
  a change whose history says otherwise, unless a change the server lacks has none (`Known`). A push
  saves everything its server has, a Sync marks what it brings anew, a restart goes back to what was
  saved. Storage works here: failures to persist are `SyncServer`'s and `PeerStorage`'s.

- What holds at rest: `OnlySilentUntold`, `OnlyRelayedMissingBelow`, `OnlyEarlierMissingAbove`,
  from `RestInvCorrect`. The properties at rest say nothing of a state in which something
  is under way, so the inductive invariant has to say, for each change that somebody lacks, what
  will still bring it: `Told` for a server's browser, `NothingLostBelow` and `NothingLostAbove` for
  the two directions of a link. A change on its way down is being broadcast (`Airing`), in the
  queue of the serving task, in a frame, or in the push that the dialling task is about to apply;
  or the link has yet to get a Sync, which will have it. On its way up it takes the other tasks;
  there is no Sync in that direction, so that a broadcast before the link listened counts as
  `before`. At rest all of these are empty, and the exceptions are left.

  What makes these survive each step: a push that a crash interrupts is lost to the browser only,
  because its changes were saved (`LocalIsSaved`) and its broadcast is the only thing cut short; the
  saved image is closed under what its changes build on (`CausalGraph`, `LocalIsSaved`), so that a
  change in it takes effect wherever it arrives with a Sync; and a browser has what it pushes
  (`OwnPushes`). The attempt to prove `OnlySilentIsUntold` showed that `Restart` has to count the
  push it interrupts as `silent`: the changes are in the image, the browser of another connection
  would not hear of them.

The assumptions are those of `ConstantsOK`; the last one keeps the tasks of a server and of its
links apart, as they are in the program. `Settles` is model-checked only.

## The parts on their own: the run `parts`

`MCParts.tla` puts seven modules that share no state side by side: each behaviour moves one of them
(`part`), and the others stay as they began, so that the states add up instead of multiplying
(468k). Its properties are those of all the modules. Deadlock is not checked: each part ends at
its bounds.

| part | bounds | why they are enough |
|---|---|---|
| policy | two rules, patterns and paths of up to three segments | see `PathPolicy` |
| subscriptions | policies of one rule with at most one segment, and none; two clients, requests of up to two patterns, one of them `**` | repeated, known and refused patterns in every order of add and remove |
| document | paths of two segments, two objects, one observer | a path below, at, above and beside what is written; replacing what has members |
| codec | every message type; strings and lists of up to two elements, limits of 1 and 2, lengths modulo 3 (`Wrap`) and fields of three elements, whose length is written as 0; one byte after | at, below and beyond each limit, cut after each number; a wrapped length at each place |
| browser | a map, a scalar in it, one whose name begins with the map's, one observer; up to two changes waiting for another | every relation of observed and affected paths |
| discovery | four peers, one id the beginning of another's; six moves | an id found in another's name; stop and start with events queued; a service that was not registered or not unregistered |
| arrays | two replicas, three assignments of up to two items, three items written (`MaxWrites`); two versions of an item, the newer with a timestamp, and one without id that gets one of two keys from the clock, below and above the other's | both sides make the array, one changes what the other removes, one empties; the same item or key twice, items out of order |
| datagrams | two nodes that dial each other, one restart of the one that gives way in a tie-break; two dials or datagrams under way, two inbound connections in `handle_inbound` (`MaxUnder`) | stale addresses on either side, ping before, after and without an entry, an entry replaced by either side's connection |

One observer is enough in both observer modules since observers do not meet.

**`Subscriptions`** is `swirldb-core/src/sync.rs` with `update_subscriptions` of the server, over
the policy of `PathPolicy`. `AnswersTell`: what a client concludes from the answers it got
(patterns added, less those it asked to remove) is what broadcasts go by. It needs the order of
`update_subscriptions`, first remove, then add. `AnswersAreTold` (`PathPolicyProofs.tla`) proves it for any policy
and requests of any length. The two folds that grow and shrink a client's list are followed pattern
by pattern: `GrownIs` says that adding extends the list by what the answer names and repeats nothing, and `ShrunkIs` that removing leaves just those not asked for. Then the table of a
client holds the patterns of its view (`Tells`).

**`Document`** is a document as its application sees it: paths to scalars and objects, `set_path`,
`set_value`, `load_state`, `apply_changes`, observers with their `last_value`, and the path
registry. `apply_changes` may stop at a change that cannot be parsed (`core.rs:902`), with what
came before it applied. `ObserversKnow`: outside of that, every observer has the present value of
its path after each call, whatever paths the call was said to have changed. `check_observers`
without paths fires them all, although its doc (`core.rs:967-968`) says those whose value has
changed; nobody misses anything by it. `RegistryKnows`: every object is registered, but for those
inside a value given to `set_value` or that came with a failed `apply_changes`, until the next
rebuild.

`PartsProofs.tla` proves both for every set of paths and every bound: `AlwaysKnow`,
`AlwaysRegistered`. Both are inductive as they stand. For `ObserversKnow`, a check leaves an
observer that does not fire with a value that equals the present one (`NotifyKnows`). For
`RegistryKnows`, what a write leaves at a path is the value, what was there before, or a map that
it made on the way and registered (`PutAt`, `CreatedPaths`).

**`RecordArrays`** is an array whose items have ids or timestamps: `update_array_as_map` writes the
difference between what is assigned and what is stored, into a map that replicas merge, and
`automerge_to_json` sorts what is in the map. Automerge is a set of operations that replace those
their replica saw. An item's key is its id; without one it is made of the timestamp and of the
nanoseconds of a clock, so that it differs from assignment to assignment, and two items may get
the same one. `Keyed` keeps the last of several with one key, as the `HashMap` does
(`core.rs:583-604`); `Sorted` orders by timestamp, then key (`core.rs:731-735`, a stable sort of
what comes from the map by key).

`ReadsBack`: whatever was stored before, the sequence read is that of the items assigned, each once,
ordered by timestamp and key, but for those whose key comes again later in the array. A comment
(`core.rs:730`) says that items without timestamps are in the order of insertion; they are in the
order of their keys, since the map gives them so: `[{id: b}, {id: a}]` is read back as
`[{id: a}, {id: b}]`. `NoItemLost`: an item that nobody who
saw it removed or changed stays, although others assign whole arrays at the same time; the
exceptions are an array that both sides make, or that one empties (it becomes a plain list), and
an item that another replica changed, too, or whose key it gave to another.

Left out: items that bring a `_key`, ids that are no strings and timestamps that are no integers
(such items get a key from the clock), what merges inside items, and that a map all of whose items
were removed by concurrent assignments is read as `{}` instead of `[]`.

`PartsProofs.tla` proves both (`AssignedIsReadBack`, `ItemsStay`) for any numbers of replicas, keys
and items, any timestamps, and any order of assignments and merges, from `ArraysInv`: an operation
has the number of the replica and of the transaction that made it, and two of a transaction are not
at the same place; what an operation replaces was made; a replica that has an item's operation has
the making of its array, and items are written only when they change (`Placed`); an item's operation
that another one replaces was dropped (`DroppedFor`); and what is stored is what was assigned, by
key (`AsAssigned`).
An assignment that writes a difference leaves at each key of the array the item that it means, because its
operations are later than all it saw (`NewStamp`), and at each other key nothing. That the items are
then read in order is a matter of ranks: `ComesBefore` is an order (`BeforeIsAnOrder`), so no two
items stored have as many before them (`RanksDiffer`), and the item with n before it is read at
n + 1 (`SortedAt`). It is assumed that no item is `Nothing`, which stands for its absence
(`Option` in the code).

**`WireCodec`** encodes and decodes each message type as a tag and its fields. The encoder does
not check the limits that the decoder has, and writes each length `as u32`: modulo 2^32, which is
the constant `Wrap`. `ArrivesAsSent`: within the limits a message arrives as it was sent; one that
is beyond any of them, but has no string or list of `Wrap` elements or more (`AllRepresentable`), is
refused as a whole. `CutIsRefused`: such a message is refused wherever it is cut, but for a Connect
that loses exactly its heads, which are optional. Without that premise both fail, whole and cut: a
string of 2^32 bytes is written with the length 0, and the frame is decoded as another message.
Strings are sequences of one letter, since the codec does not look into them.

`PartsProofs.tla` proves both (`MessagesArrive`, `CutMessagesAreRefused`) for any limits below any `Wrap`,
and any number of bytes behind a message. A message that is representable, as one within the limits
is (`FitsIsRepresentable`), is encoded with plain lengths (`EncodedPlain`); the argument is about these. A reader is a function from a frame to a value and
the rest. It `Handles` the form of a value if it takes that form off the front of whatever
follows, or refuses it when the value does not fit, and refuses every part of the form that is cut.
Readers one after another handle forms one after another (`AllHandled`), by induction along the folds of
`ReadAll` and of the encoding, and so do a counted list and each kind of field. The tags differ, so the decoder picks the
type that was encoded. A cut frame of a Connect may end where its heads begin (`ConnectStart`): the one exception.
The invariant of the frame, `WireInv`, says that it is an encoded message with something behind it or a part of one.

**`BrowserObservers`** is the list of observers that the browser binding keeps for itself, fired
in three ways: `CheckAll` after local calls (by comparing scalars), `FireAll` after a Sync,
`FireFor` after a Broadcast (by paths whose text begins with another's, without taking
`last_value`). `WatchersKnow` says when the application knows the value of a path it observes, and
its exceptions are where the doc of `observe` (`lib.rs:454`: whenever it changes) does not hold: a
map after a local write inside it; what a failed `apply_changes`, by hand or of a Sync or Broadcast,
or a held-back change brought;
and a scalar that a Broadcast changed and that was written back. `WatchersAlwaysKnow` (`PartsProofs.tla`)
proves it for all paths, values and numbers of observers. What must be added to make it inductive
is `ToldAndSeen`: what the application heard of a scalar is `last_value`, until a Broadcast fires it;
then a check that does not fire finds the value it told.

**`Discovery`** is `MdnsDiscovery` over the mdns-sd daemon, a channel of events. The daemon may
refuse to register our service, after the id and the name were stored, or to unregister it.
`KnowsWhoIsThere`: once all events are taken, the known peers are those who are there, without
ourselves. The exceptions: a removal is matched by whether the full name *contains* a known id
(`mdns.rs:303`), so that `peer-10` may take `peer-1` away; what happens while nobody browses
stays unheard; and we take ourselves for another peer when `unregister` failed, which loses the
name, and a second `stop_advertising` forgets the id while the service is still there
(`mdns.rs:216-226`, `abandoned`). `AlwaysKnowsWhoIsThere` proves it for any peers and any names, from `NewsInv`: the last
event about each peer tells how things are now (`EndsTrue`), a peer without events is known exactly
when it is there, and our own id, which can get in when an event of ours is taken after
`stop_advertising`, is known only while its removal is queued, or is `abandoned` (`Settled`).

**`LanEphemeral`** is the UDP side of `lan.rs`: the dialler has an address from discovery and
pings it, the acceptor learns the dialler's address from a datagram. Discovery makes both peers dial
(`peer_manager.rs:1107-1177`), so both do here, as often as they like while they have no entry
(`connect` looks for one first): `DialLan` and `Enter` are `connect_outbound` up to the handshakes and from
them on, `AdmitLan` and `AcceptLan` are `handle_inbound` up to the tie-break and from it on, and
between two of these anything may happen. Either end may thus replace an entry that has an address
by one with another address or none. Which of the connections survive is the subject of
`LanTransport`; here an entry may be dropped at any time (`DropLan`).

`UdpBothWays`: when no datagram is under way and both peers have an entry, and that of the first is
of its dial of the second's present address (`exact`), each sends to where the other listens. The
exceptions: the last datagram of the dialler was lost or came before the other's present entry
(`unlearned`), or one from before a restart came last (`late`). A comment (`lan.rs:827`) says that
the address of a datagram that came too early is stored to be looked up when the peer connects; the
map it is stored in is never read.
`AlwaysBothWays` proves `UdpBothWays` for any nodes, dials, restarts and connections being
accepted, from `WayInv`: as long as the dialler's address is present, the other's entry has the
dialler's, or a datagram that will tell it is in the air, or one was late or missed. It assumes
that no address is taken for "no entry" or "no address" (`Option` in the code).

So every invariant of `parts` is proved, and its action property too. TLC stays useful here: it shows
on small instances that the exceptions are met, and the proofs say that nothing else is needed for
larger ones.

**`DataLemmas`** has what these proofs use of data. The library's theorems on induction and on recursive functions take a
predicate or a definition as a parameter, which the provers used here cannot instantiate. Here they
are stated with a set for the predicate (`SetInduction`: a set of numbers that holds 0 and with each number the
next one holds all of them) and a function for the definition (`NatRecursion`), and proved from the
well-foundedness of the numbers. `MaxRecursion` and `MaxOrder` do the same for the folds of the community
modules, which are recursive functions on finite sets that take out one element after another:
`FoldLeft` takes the elements of a sequence in their order. What a fold does is then a run, the list of the
values it goes through, and an induction along the run says what it gives.

## Not modelled

- Relay claims (`try_claim_relay`, `cleanup_stale_ephemeral_seen`). `EphemeralRelay` is sent only
  by `connect_to_peer`, to a server whose `handle_websocket` has no arm for it; the arm that
  claims (`main.rs:430-443`) is in `connect_to_peer` and waits for a message that no server sends.
  `route_ephemeral` never fails, so the release is dead code as well.
- Storage adapters, encryption, authentication and the transport traits: pure functions, or input
  and output; their notes in `PROJECT.json` say so.
- Callbacks that call back. Observer callbacks run while the observers are locked (`core.rs:1008`)
  or borrowed (`browser/src/lib.rs:71`): one that makes a call of the same object waits for itself
  or panics. The models take callbacks that make no calls.
- Of the peer manager: `connect` and `remove_peer`, PeerLost, keepalive, the delays between
  attempts and the bounds of its queues.
- Plain lists, nested values, merging inside items and items with a `_key` of their own, `get_merkle_root`, the browser's storage
  and ephemeral handlers.
- Malformed messages, but for the cut frames of `WireCodec` and the changes of `Document` and
  `BrowserObservers` that cannot be parsed.
