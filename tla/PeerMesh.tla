------------------------------ MODULE PeerMesh ------------------------------
(***************************************************************************)
(* A mesh of peers, each with a PeerManager (peer_manager.rs), over a      *)
(* reliable transport: handshakes, pushes of local changes, relayed        *)
(* pushes, lost links and reconnection.  Each node has one transport loop, *)
(* which handles one event at a time but awaits in the middle, a discovery *)
(* loop, reconnect tasks, and the application that writes and pushes.      *)
(* The transport keeps at most one link per pair of peers and delivers its *)
(* events in order.  Changes and documents are those of SyncServer;        *)
(* persistence is the subject of PeerStorage.                              *)
(***************************************************************************)
EXTENDS Naturals, Sequences, FiniteSets, SequencesExt

CONSTANTS
  Node,       \* the peers
  Change,     \* Automerge changes
  Discovers,  \* pairs <<n, m>>: mDNS tells n of m
  NoFilter,   \* the nodes configured with subscriptions: [] (others: ["**"])
  Writers,    \* the nodes whose application writes
  MaxDowns,   \* bound: how often links are lost and dials fail
  None        \* no node

ASSUME ConstantsOK ==
  /\ None \notin Node
  /\ Discovers \subseteq Node \X Node
  /\ \A n \in Node : <<n, n>> \notin Discovers
  /\ NoFilter \subseteq Node /\ Writers \subseteq Node
  /\ MaxDowns \in Nat

VARIABLES
  written, deps,   \* the changes made so far, and what each depends on
  db,              \* each node's document
  \* Inner.peers: the state of n's entry for m, the entries that n made because it
  \* discovered the peer (outbound), and those with a known, non-empty list of
  \* subscriptions.
  state, outbound, filtered,
  chan,            \* chan[m][n]: the events of m's link that n has not handled
  link,            \* the pairs of peers that are connected
  job,             \* what the transport loop of each node is in the middle of
  finding,         \* the peer each discovery loop works on, and how far it is
  pending,         \* the push_local_changes under way at each node
  unsent,          \* history: unsent[n][m], changes n has and did not offer to m
  replaced,        \* history: replaced[n], entries a discovery replaced since the link is up
  downs            \* history: the links lost and the dials that failed

docVars == <<written, deps, db>>
tableVars == <<state, outbound, filtered>>
netVars == <<chan, link>>
ghostVars == <<unsent, replaced, downs>>
vars == <<docVars, tableVars, netVars, job, finding, pending, ghostVars>>

Others(n) == Node \ {n}

-----------------------------------------------------------------------------
(* Documents, as in SyncServer. *)

\* The changes that take effect; the others are held back.
Applied(S) == {x \in S : deps[x] \subseteq S}

\* Mutant: the changes that are held back count, too.
HeadsOfAll(S) == {x \in S : \A y \in S : x \notin deps[y]}

\* get_heads: the applied changes that no applied change depends on.
Heads(S) == {x \in Applied(S) : \A y \in Applied(S) : x \notin deps[y]}

Below(H) == H \cup UNION {deps[h] : h \in H}

\* Mutant: only the newest changes are sent.
SinceNewest(S, H) == Heads(S) \ Below(H \cap Applied(S))

\* get_changes_since: heads the document does not know are ignored.
Since(S, H) == Applied(S) \ Below(H \cap Applied(S))

\* extract_affected_paths finds a path for these changes only.
Fresh(S, new) == Applied(S \cup new) \ Applied(S)

-----------------------------------------------------------------------------
(* The transport. *)

Event(type, heads, changes) == [type |-> type, heads |-> heads, changes |-> changes]
Up == Event("up", {}, {})
Down == Event("down", {}, {})

Linked(n, m) == {n, m} \in link

\* send_reliable: the message goes out, or an error is logged.
Send(n, m, e) ==
  chan' = IF Linked(n, m) THEN [chan EXCEPT ![n][m] = Append(@, e)] ELSE chan

ConnectMsg(n) == Event("connect", Heads(db[n]), {})

\* Both ends of a new link are told.
LinkUp(n, m) ==
  /\ n # m
  /\ link' = link \cup {{n, m}}
  /\ chan' = [chan EXCEPT ![n][m] = Append(@, Up), ![m][n] = Append(@, Up)]

\* What was sent on the link is lost from some message on; what was sent on an
\* earlier link is in the event queue.
Cuts(q) == {SubSeq(q, 1, i) : i \in {j \in 0..Len(q) :
              \A k \in j + 1..Len(q) : q[k].type \notin {"up", "down"}}}

LinkDown(n, m) ==
  /\ Linked(n, m) /\ downs < MaxDowns
  /\ downs' = downs + 1
  /\ link' = link \ {{n, m}}
  /\ \E q \in Cuts(chan[n][m]), r \in Cuts(chan[m][n]) :
       chan' = [chan EXCEPT ![n][m] = Append(q, Down), ![m][n] = Append(r, Down)]
  /\ UNCHANGED <<docVars, tableVars, job, finding, pending, unsent, replaced>>

-----------------------------------------------------------------------------
(* Discovery and reconnection. *)

Nobody == [peer |-> None, tracked |-> FALSE]

\* PeerDiscovered, unless the peer is tracked already.
Discover(n, m) ==
  /\ <<n, m>> \in Discovers
  /\ finding[n] = Nobody
  /\ state[n][m] = "none"
  /\ finding' = [finding EXCEPT ![n] = [peer |-> m, tracked |-> FALSE]]
  /\ UNCHANGED <<docVars, tableVars, netVars, job, pending, ghostVars>>

\* The insert that follows; it replaces an entry made in between.
Track(n) == LET m == finding[n].peer IN
  /\ m # None /\ ~finding[n].tracked
  /\ finding' = [finding EXCEPT ![n] = [peer |-> m, tracked |-> TRUE]]
  /\ state' = [state EXCEPT ![n][m] = "connected"]
  /\ outbound' = [outbound EXCEPT ![n] = @ \cup {m}]
  /\ filtered' = [filtered EXCEPT ![n] = @ \ {m}]
  /\ replaced' = [replaced EXCEPT ![n] = IF state[n][m] = "none" THEN @ ELSE @ \cup {m}]
  /\ UNCHANGED <<docVars, netVars, job, pending, unsent, downs>>

\* transport.connect: a new link, or the error that there is one already.
Dial(n) == LET m == finding[n].peer IN
  /\ m # None /\ finding[n].tracked
  /\ IF Linked(n, m) THEN UNCHANGED netVars ELSE LinkUp(n, m)
  /\ finding' = [finding EXCEPT ![n] = Nobody]
  /\ UNCHANGED <<docVars, tableVars, job, pending, ghostVars>>

DialFails(n) == LET m == finding[n].peer IN
  /\ m # None /\ finding[n].tracked
  /\ ~Linked(n, m) /\ downs < MaxDowns
  /\ downs' = downs + 1
  /\ state' = [state EXCEPT ![n][m] = IF @ = "none" THEN @ ELSE "disconnected"]
  /\ finding' = [finding EXCEPT ![n] = Nobody]
  /\ UNCHANGED <<docVars, outbound, filtered, netVars, job, pending, unsent, replaced>>

\* A reconnect task for a disconnected peer, after its delay.  A failed attempt only
\* makes the next delay longer.
Reconnect(n, m) ==
  /\ state[n][m] = "disconnected" /\ ~Linked(n, m)
  /\ LinkUp(n, m)
  /\ UNCHANGED <<docVars, tableVars, job, finding, pending, ghostVars>>

-----------------------------------------------------------------------------
(* The transport loop: one event at a time. *)

Idle == [step |-> "idle", peer |-> None, changes |-> {}, fresh |-> FALSE, to |-> {}]

\* n takes the next event of m's, of the given type.
Receives(n, m, type) ==
  /\ m # n /\ job[n] = Idle
  /\ chan[m][n] # <<>>
  /\ Head(chan[m][n]).type = type

Popped(n, m) == [chan EXCEPT ![m][n] = Tail(@)]

\* handle_peer_connected.  An inbound peer gets an entry; to an outbound peer n sends
\* its Connect.
HandleConnected(n, m) ==
  /\ Receives(n, m, "up")
  /\ state' = [state EXCEPT ![n][m] = "connected"]
  /\ filtered' = IF state[n][m] = "none" THEN [filtered EXCEPT ![n] = @ \ {m}]
                 ELSE filtered
  /\ outbound' = IF state[n][m] = "none" THEN [outbound EXCEPT ![n] = @ \ {m}]
                 ELSE outbound
  /\ chan' = IF m \in outbound'[n] /\ Linked(n, m)
             THEN [Popped(n, m) EXCEPT ![n][m] = Append(@, ConnectMsg(n))]
             ELSE Popped(n, m)
  /\ replaced' = [replaced EXCEPT ![n] = @ \ {m}]
  /\ UNCHANGED <<docVars, link, job, finding, pending, unsent, downs>>

\* handle_peer_disconnected: only discovered peers are kept, to be dialled again.
HandleDisconnected(n, m) ==
  /\ Receives(n, m, "down")
  /\ chan' = Popped(n, m)
  /\ state' = [state EXCEPT ![n][m] =
                 IF @ # "none" /\ m \in outbound[n] THEN "disconnected" ELSE "none"]
  /\ UNCHANGED <<docVars, outbound, filtered, link, job, finding, pending, ghostVars>>

\* Connect: remember the subscriptions and collect the changes the peer lacks.
HandleConnect(n, m) ==
  /\ Receives(n, m, "connect")
  /\ chan' = Popped(n, m)
  /\ filtered' = IF state[n][m] = "none" THEN filtered
                 ELSE [filtered EXCEPT ![n] = IF m \in NoFilter THEN @ \ {m} ELSE @ \cup {m}]
  /\ job' = [job EXCEPT ![n] = [Idle EXCEPT !.step = "sync", !.peer = m,
               !.changes = Since(db[n], Head(chan[m][n]).heads)]]
  /\ unsent' = [unsent EXCEPT ![n][m] = db[n] \ Applied(db[n])]
  /\ UNCHANGED <<docVars, state, outbound, link, finding, pending, replaced, downs>>

SendSync(n) == LET m == job[n].peer IN
  /\ job[n].step = "sync"
  /\ Send(n, m, Event("sync", {}, job[n].changes))
  /\ job' = [job EXCEPT ![n] = IF Linked(n, m) THEN [@ EXCEPT !.step = "back"] ELSE Idle]
  /\ UNCHANGED <<docVars, tableVars, link, finding, pending, ghostVars>>

\* Mutant: the node that was dialled does not ask for its half.
NoConnectBack(n) ==
  /\ job[n].step = "back"
  /\ job' = [job EXCEPT ![n] = Idle]
  /\ UNCHANGED <<docVars, tableVars, netVars, finding, pending, ghostVars>>

\* The other half of the handshake, unless it is over.
ConnectBack(n) == LET m == job[n].peer IN
  /\ job[n].step = "back"
  /\ IF state[n][m] = "synced" THEN UNCHANGED chan ELSE Send(n, m, ConnectMsg(n))
  /\ job' = [job EXCEPT ![n] = Idle]
  /\ UNCHANGED <<docVars, tableVars, link, finding, pending, ghostVars>>

\* Sync: apply (and save: PeerStorage), then mark the peer.
HandleSync(n, m) ==
  /\ Receives(n, m, "sync")
  /\ LET S == Head(chan[m][n]).changes IN
       /\ db' = [db EXCEPT ![n] = @ \cup S]
       /\ job' = [job EXCEPT ![n] = [Idle EXCEPT !.step = "mark", !.peer = m, !.changes = S]]
       /\ unsent' = [unsent EXCEPT ![n] = [p \in Node |->
                       IF p = m THEN @[p] ELSE @[p] \cup (S \ db[n])]]
  /\ chan' = Popped(n, m)
  /\ UNCHANGED <<written, deps, tableVars, link, finding, pending, replaced, downs>>

MarkSynced(n) == LET m == job[n].peer IN
  /\ job[n].step = "mark"
  /\ state' = [state EXCEPT ![n][m] = IF @ = "none" THEN @ ELSE "synced"]
  /\ job' = [job EXCEPT ![n] = Idle]
  /\ UNCHANGED <<docVars, outbound, filtered, netVars, finding, pending, ghostVars>>

\* Mutant: pushes are not relayed.
NoRelaying(from, S, fresh, to) == Idle

\* What is left of a relay when the peers in `to` still have to be considered.
Relaying(from, S, fresh, to) ==
  IF to = {} THEN Idle
  ELSE [step |-> "relay", peer |-> from, changes |-> S, fresh |-> fresh, to |-> to]

\* Push: apply, then relay to the others, one after the other.
HandlePush(n, m) ==
  /\ Receives(n, m, "push")
  /\ LET S == Head(chan[m][n]).changes IN
       /\ db' = [db EXCEPT ![n] = @ \cup S]
       /\ job' = [job EXCEPT ![n] =
                    Relaying(m, S, Fresh(db[n], S) # {}, Node \ {n, m})]
  /\ chan' = Popped(n, m)
  /\ UNCHANGED <<written, deps, tableVars, link, finding, pending, ghostVars>>

-----------------------------------------------------------------------------
(* Pushes. *)

\* Mutant: a push is relayed although it changed nothing here.
TakesAny(n, m, fresh) == state[n][m] = "synced"

\* Is m sent a push that affects some path (fresh) or none?  A node whose list of
\* subscriptions is not known or empty is sent everything.
Takes(n, m, fresh) == state[n][m] = "synced" /\ (m \in filtered[n] => fresh)

\* n sends a push to m, or passes m over.
Offer(n, m, S, fresh) ==
  IF Takes(n, m, fresh) /\ Linked(n, m)
  THEN /\ Send(n, m, Event("push", {}, S))
       /\ UNCHANGED unsent
  ELSE /\ unsent' = [unsent EXCEPT ![n][m] = @ \cup S]
       /\ UNCHANGED chan

Relay(n, m) == LET j == job[n] IN
  /\ j.step = "relay" /\ m \in j.to
  /\ Offer(n, m, j.changes, j.fresh)
  /\ job' = [job EXCEPT ![n] = Relaying(j.peer, j.changes, j.fresh, j.to \ {m})]
  /\ UNCHANGED <<docVars, tableVars, link, finding, pending, replaced, downs>>

\* A push_local_changes under way; one that is done leaves nothing.
Push(S, to) == [changes |-> IF to = {} THEN {} ELSE S, to |-> to]

\* The application writes, and hands what it wrote to push_local_changes.
Write(n, x) ==
  /\ n \in Writers /\ x \notin written /\ pending[n].to = {}
  /\ written' = written \cup {x}
  /\ deps' = [deps EXCEPT ![x] = Applied(db[n])]
  /\ db' = [db EXCEPT ![n] = @ \cup {x}]
  /\ pending' = [pending EXCEPT ![n] = Push({x}, Others(n))]
  /\ UNCHANGED <<tableVars, netVars, job, finding, ghostVars>>

PushLocal(n, m) ==
  /\ m \in pending[n].to
  /\ Offer(n, m, pending[n].changes, TRUE)
  /\ pending' = [pending EXCEPT ![n] = Push(@.changes, @.to \ {m})]
  /\ UNCHANGED <<docVars, tableVars, link, job, finding, replaced, downs>>

-----------------------------------------------------------------------------
(* The specification. *)

Init ==
  /\ written = {} /\ deps = [x \in Change |-> {}]
  /\ db = [n \in Node |-> {}]
  /\ state = [n \in Node |-> [m \in Node |-> "none"]]
  /\ outbound = [n \in Node |-> {}] /\ filtered = [n \in Node |-> {}]
  /\ chan = [n \in Node |-> [m \in Node |-> <<>>]] /\ link = {}
  /\ job = [n \in Node |-> Idle]
  /\ finding = [n \in Node |-> Nobody]
  /\ pending = [n \in Node |-> Push({}, {})]
  /\ unsent = [n \in Node |-> [m \in Node |-> {}]]
  /\ replaced = [n \in Node |-> {}] /\ downs = 0

Handle(n, m) ==
  \/ HandleConnected(n, m) \/ HandleDisconnected(n, m) \/ HandleConnect(n, m)
  \/ HandleSync(n, m) \/ HandlePush(n, m)

Continue(n) ==
  \/ SendSync(n) \/ ConnectBack(n) \/ MarkSynced(n)
  \/ \E m \in Node : Relay(n, m)

Loop(n) == Continue(n) \/ \E m \in Node : Handle(n, m)

Connecting(n) == Track(n) \/ Dial(n) \/ \E m \in Node : Reconnect(n, m)

Pushing(n) == \E m \in Node : PushLocal(n, m)

Next ==
  \E n \in Node :
    \/ Loop(n) \/ Connecting(n) \/ Pushing(n) \/ DialFails(n)
    \/ \E m \in Node : Discover(n, m) \/ LinkDown(n, m)
    \/ \E x \in Change : Write(n, x)

Spec == Init /\ [][Next]_vars

\* Some task goes on while one can; not even every task's own fairness is needed.
\* Nothing makes mDNS find a peer, the application write or a link fail.
FairSpec == Spec /\ WF_vars(\E n \in Node : Loop(n) \/ Connecting(n) \/ Pushing(n))

-----------------------------------------------------------------------------
(* Properties. *)

\* Nothing is under way.
Quiet == \A n \in Node :
  /\ job[n] = Idle /\ finding[n] = Nobody /\ pending[n].to = {}
  /\ \A m \in Node : chan[n][m] = <<>> /\ (state[n][m] = "disconnected" => Linked(n, m))

Message == [type: {"up", "down", "connect", "sync", "push"},
            heads: SUBSET Change, changes: SUBSET Change]

\* Every variable has its type.
TypeOK ==
  /\ written \subseteq Change /\ deps \in [Change -> SUBSET Change]
  /\ db \in [Node -> SUBSET Change]
  /\ state \in [Node -> [Node -> {"none", "connected", "synced", "disconnected"}]]
  /\ outbound \in [Node -> SUBSET Node] /\ filtered \in [Node -> SUBSET Node]
  /\ chan \in [Node -> [Node -> Seq(Message)]] /\ link \subseteq SUBSET Node
  /\ job \in [Node -> [step: {"idle", "sync", "back", "mark", "relay"},
                       peer: Node \cup {None}, changes: SUBSET Change,
                       fresh: BOOLEAN, to: SUBSET Node]]
  /\ \A n \in Node : job[n].step # "idle" => job[n].peer \in Node
  /\ finding \in [Node -> [peer: Node \cup {None}, tracked: BOOLEAN]]
  /\ pending \in [Node -> [changes: SUBSET Change, to: SUBSET Node]]
  /\ unsent \in [Node -> [Node -> SUBSET Change]]
  /\ replaced \in [Node -> SUBSET Node] /\ downs \in Nat

\* A Sync leaves nothing held back: when the transport loop has applied it, all its
\* changes are in effect.  The heads in the Connect it answers were the node's own, and
\* the document has only grown since.
SyncFits == \A n \in Node :
  job[n].step = "mark" => job[n].changes \subseteq Applied(db[n])

\* The dependencies of a change are written and include theirs.
CausalGraph == \A x \in Change :
  /\ deps[x] \subseteq written
  /\ \A y \in deps[x] : deps[y] \subseteq deps[x]

\* Documents, messages and tasks hold written changes only.
OnlyWritten ==
  /\ \A n \in Node : /\ db[n] \subseteq written
                     /\ job[n].changes \subseteq written
                     /\ pending[n].changes \subseteq written
  /\ \A n, m \in Node : \A e \in ToSet(chan[n][m]) : e.changes \subseteq written

\* The heads of a Connect on its way to m are in effect at its sender n.
HeadsKnown == \A n, m \in Node : \A e \in ToSet(chan[n][m]) :
  e.type = "connect" => e.heads \subseteq Applied(db[n])

\* What node n lacks of what the changes S build on is in S.
Fit(S, n) == \A x \in S : deps[x] \subseteq S \cup Applied(db[n])

\* A Sync that is made or on its way fits the document of the node it is for.
SyncsFit ==
  /\ \A n \in Node : job[n].step = "sync" => Fit(job[n].changes, job[n].peer)
  /\ \A n, m \in Node : \A e \in ToSet(chan[n][m]) :
       e.type = "sync" => Fit(e.changes, m)

\* Why SyncFits holds: the inductive invariant.
MeshInv == CausalGraph /\ OnlyWritten /\ HeadsKnown /\ SyncsFit /\ SyncFits

\* At rest both ends of a link are synced with each other, unless a discovery that
\* found no entry replaced the one made since by the other's dial (replaced); and no
\* node takes a peer for connected that is not.
SyncedAtRest == Quiet => \A n \in Node, m \in Node :
  IF Linked(n, m) THEN state[n][m] = "synced" \/ m \in replaced[n]
  ELSE state[n][m] = "none"

\* At rest a node lacks of a linked peer's document only what the peer passed it over
\* with: pushed while the handshake was going on, got by Sync from elsewhere (a Sync is
\* not relayed), or held back on arrival.
OnlyUnsentIsMissing == Quiet => \A n \in Node, m \in Node :
  Linked(n, m) => Applied(db[n]) \subseteq db[m] \cup unsent[n][m]

\* Handshakes and relays come to an end, also where the links form a cycle.
Settles == <>[]Quiet
=============================================================================
