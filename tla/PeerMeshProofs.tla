--------------------------- MODULE PeerMeshProofs ---------------------------
(***************************************************************************)
(* The handshake leaves nothing held back: whatever the peers, the         *)
(* subscriptions, the pushes in between and the links lost, all changes of *)
(* a Sync take effect where it is applied.  And it comes to its end: when  *)
(* nothing is under way, connected nodes are synced with each other, and   *)
(* what a node lacks of the other's document it was passed over with.      *)
(***************************************************************************)
EXTENDS PeerMesh, DataLemmas, TLAPS

-----------------------------------------------------------------------------
(* Types. *)

Channels == [Node -> [Node -> Seq(Message)]]
States == {"none", "connected", "synced", "disconnected"}
Jobs == [step: {"idle", "sync", "back", "mark", "relay"}, peer: Node \cup {None},
         changes: SUBSET Change, fresh: BOOLEAN, to: SUBSET Node]

\* An event built from changes has the type of events, and the parts it was given.
LEMMA MessageTypes ==
  ASSUME NEW t \in {"up", "down", "connect", "sync", "push"},
         NEW H \in SUBSET Change, NEW S \in SUBSET Change
  PROVE  /\ Event(t, H, S) \in Message
         /\ Event(t, H, S).type = t /\ Event(t, H, S).heads = H
         /\ Event(t, H, S).changes = S
BY DEF Event, Message

\* The two connection events carry no changes.
LEMMA UpDown ==
  /\ Up \in Message /\ Up.type = "up" /\ Up.changes = {}
  /\ Down \in Message /\ Down.type = "down" /\ Down.changes = {}
BY MessageTypes DEF Up, Down

\* What takes effect, heads and deltas are parts of the document.
LEMMA DocumentParts ==
  ASSUME NEW S
  PROVE  /\ Applied(S) \subseteq S /\ Heads(S) \subseteq Applied(S)
         /\ \A H : Since(S, H) \subseteq S
BY DEF Applied, Heads, Since

\* An event at the end of one channel, in any channels c.
LEMMA Appending ==
  ASSUME NEW c \in Channels, NEW n \in Node, NEW m \in Node, NEW e \in Message
  PROVE  LET d == [c EXCEPT ![n][m] = Append(@, e)] IN
         /\ d \in Channels
         /\ \A p, q \in Node : ToSet(d[p][q]) \subseteq ToSet(c[p][q]) \cup {e}
<1>1. Append(c[n][m], e) \in Seq(Message)
      /\ ToSet(Append(c[n][m], e)) = ToSet(c[n][m]) \cup {e}
  BY AppendRange DEF Channels
<1> QED BY <1>1 DEF Channels

\* send_reliable adds at most its own message to any queue.
LEMMA Sending ==
  ASSUME TypeOK, NEW n \in Node, NEW m \in Node, NEW e \in Message, Send(n, m, e)
  PROVE  /\ chan' \in Channels
         /\ \A p, q \in Node : ToSet(chan'[p][q]) \subseteq ToSet(chan[p][q]) \cup {e}
<1>1. chan \in Channels
  BY DEF TypeOK, Channels
<1>2. CASE Linked(n, m)
  BY <1>1, <1>2, Appending DEF Send
<1>3. CASE ~Linked(n, m)
  BY <1>1, <1>3 DEF Send
<1> QED BY <1>2, <1>3

\* Taking the next event keeps the types and adds nothing to a queue.
LEMMA Popping ==
  ASSUME TypeOK, NEW n \in Node, NEW m \in Node, chan[m][n] # <<>>
  PROVE  /\ Head(chan[m][n]) \in Message /\ Head(chan[m][n]) \in ToSet(chan[m][n])
         /\ Popped(n, m) \in Channels
         /\ \A p, q \in Node : ToSet(Popped(n, m)[p][q]) \subseteq ToSet(chan[p][q])
<1>1. chan[m][n] \in Seq(Message)
  BY DEF TypeOK
<1>2. /\ Head(chan[m][n]) \in Message /\ Head(chan[m][n]) \in ToSet(chan[m][n])
      /\ Tail(chan[m][n]) \in Seq(Message)
      /\ ToSet(Tail(chan[m][n])) \subseteq ToSet(chan[m][n])
  BY <1>1, TailRange
<1> QED BY <1>2 DEF TypeOK, Channels, Popped

\* A new link and a lost one add only Up and Down.
LEMMA Linking ==
  ASSUME TypeOK, NEW n \in Node, NEW m \in Node, LinkUp(n, m)
  PROVE  /\ chan' \in Channels /\ link' \subseteq SUBSET Node
         /\ \A p, q \in Node : ToSet(chan'[p][q]) \subseteq ToSet(chan[p][q]) \cup {Up}
<1>1. /\ chan \in Channels /\ chan[n][m] \in Seq(Message) /\ chan[m][n] \in Seq(Message)
      /\ n # m
  BY DEF TypeOK, Channels, LinkUp
<1>2. /\ Append(chan[n][m], Up) \in Seq(Message) /\ Append(chan[m][n], Up) \in Seq(Message)
      /\ ToSet(Append(chan[n][m], Up)) = ToSet(chan[n][m]) \cup {Up}
      /\ ToSet(Append(chan[m][n], Up)) = ToSet(chan[m][n]) \cup {Up}
  BY <1>1, UpDown, AppendRange
<1>3. chan' = [chan EXCEPT ![n][m] = Append(chan[n][m], Up),
                           ![m][n] = Append(chan[m][n], Up)]
  BY <1>1 DEF LinkUp, Channels
<1>4. link' \subseteq SUBSET Node
  BY DEF LinkUp, TypeOK
<1> QED BY <1>1, <1>2, <1>3, <1>4 DEF Channels

\* A queue cut short holds nothing new, but for the Down at its end.
LEMMA Cutting ==
  ASSUME NEW s \in Seq(Message), NEW r \in Cuts(s)
  PROVE  Append(r, Down) \in Seq(Message)
         /\ ToSet(Append(r, Down)) \subseteq ToSet(s) \cup {Down}
<1>1. PICK i \in 0 .. Len(s) : r = SubSeq(s, 1, i)
  BY DEF Cuts
<1>2. r \in Seq(Message) /\ ToSet(r) \subseteq ToSet(s)
  BY <1>1, PrefixRange
<1> QED BY <1>2, AppendRange, UpDown

\* A lost link adds only Down to the queues.
LEMMA Unlinking ==
  ASSUME TypeOK, NEW n \in Node, NEW m \in Node, LinkDown(n, m)
  PROVE  /\ chan' \in Channels
         /\ \A p, q \in Node : ToSet(chan'[p][q]) \subseteq ToSet(chan[p][q]) \cup {Down}
<1>1. PICK q \in Cuts(chan[n][m]), r \in Cuts(chan[m][n]) :
        chan' = [chan EXCEPT ![n][m] = Append(q, Down), ![m][n] = Append(r, Down)]
  BY DEF LinkDown
<1>2. chan \in Channels /\ chan[n][m] \in Seq(Message) /\ chan[m][n] \in Seq(Message)
  BY DEF TypeOK, Channels
<1>3. /\ Append(q, Down) \in Seq(Message) /\ Append(r, Down) \in Seq(Message)
      /\ ToSet(Append(q, Down)) \subseteq ToSet(chan[n][m]) \cup {Down}
      /\ ToSet(Append(r, Down)) \subseteq ToSet(chan[m][n]) \cup {Down}
  BY <1>2, Cutting
<1> QED BY <1>1, <1>2, <1>3 DEF Channels

-----------------------------------------------------------------------------
(* Type correctness. *)

\* Discovery, dialling and lost links keep the types.
LEMMA TypeTransport ==
  ASSUME TypeOK, NEW n \in Node,
         \/ Track(n) \/ Dial(n) \/ DialFails(n)
         \/ \E m \in Node : Discover(n, m) \/ LinkDown(n, m) \/ Reconnect(n, m)
  PROVE  TypeOK'
<1> USE DEF docVars, tableVars, netVars, ghostVars
<1> DEFINE f == finding[n].peer
<1>1. f # None => f \in Node
  BY DEF TypeOK
<1>2. CASE Track(n)
  <2>1. f \in Node
    BY <1>1, <1>2 DEF Track
  <2>2. finding' \in [Node -> [peer: Node \cup {None}, tracked: BOOLEAN]]
    BY <1>2, <2>1 DEF Track, TypeOK
  <2>3. /\ state' \in [Node -> [Node -> States]] /\ outbound' \in [Node -> SUBSET Node]
        /\ filtered' \in [Node -> SUBSET Node] /\ replaced' \in [Node -> SUBSET Node]
    BY <1>2, <2>1 DEF Track, TypeOK, States
  <2> QED BY <1>2, <2>2, <2>3 DEF TypeOK, Track, States
<1>3. CASE Dial(n)
  <2>1. f \in Node
    BY <1>1, <1>3 DEF Dial
  <2>2. chan' \in Channels /\ link' \subseteq SUBSET Node
    <3>1. CASE Linked(n, f)
      BY <1>3, <3>1 DEF Dial, TypeOK, Channels
    <3>2. CASE ~Linked(n, f)
      BY <1>3, <2>1, <3>2, Linking DEF Dial
    <3> QED BY <3>1, <3>2
  <2>3. finding' \in [Node -> [peer: Node \cup {None}, tracked: BOOLEAN]]
    BY <1>3 DEF Dial, TypeOK, Nobody
  <2> QED BY <1>3, <2>2, <2>3 DEF TypeOK, Dial, Channels
<1>4. CASE DialFails(n)
  BY <1>1, <1>4 DEF TypeOK, DialFails, Nobody
<1>5. ASSUME NEW m \in Node, Discover(n, m) PROVE TypeOK'
  BY <1>5 DEF TypeOK, Discover
<1>6. ASSUME NEW m \in Node, LinkDown(n, m) PROVE TypeOK'
  <2>1. chan' \in Channels
    BY <1>6, Unlinking
  <2>2. link' \subseteq SUBSET Node /\ downs' \in Nat
    BY <1>6 DEF LinkDown, TypeOK
  <2> QED BY <1>6, <2>1, <2>2 DEF TypeOK, LinkDown, Channels
<1>7. ASSUME NEW m \in Node, Reconnect(n, m) PROVE TypeOK'
  <2>1. chan' \in Channels /\ link' \subseteq SUBSET Node
    BY <1>7, Linking DEF Reconnect
  <2> QED BY <1>7, <2>1 DEF TypeOK, Reconnect, Channels
<1> QED BY <1>2, <1>3, <1>4, <1>5, <1>6, <1>7

\* The transport loop at rest holds no changes.
LEMMA IdleType == Idle \in Jobs /\ Idle.step = "idle" /\ Idle.changes = {}
BY DEF Idle, Jobs

\* The Connect that n sends.
LEMMA ConnectType ==
  ASSUME TypeOK, NEW n \in Node
  PROVE  /\ ConnectMsg(n) \in Message /\ ConnectMsg(n).type = "connect"
         /\ ConnectMsg(n).changes = {} /\ ConnectMsg(n).heads \subseteq Applied(db[n])
<1>1. Heads(db[n]) \in SUBSET Change /\ Heads(db[n]) \subseteq Applied(db[n])
  <2>1. db[n] \in SUBSET Change
    BY DEF TypeOK
  <2> QED BY <2>1, DocumentParts
<1> QED BY <1>1, MessageTypes DEF ConnectMsg

\* A job that the transport loop of n goes on with.
LEMMA JobType ==
  ASSUME TypeOK, NEW n \in Node, NEW j \in Jobs, j.step # "idle" => j.peer \in Node,
         job' = [job EXCEPT ![n] = j]
  PROVE  /\ job' \in [Node -> Jobs]
         /\ \A p \in Node : job'[p].step # "idle" => job'[p].peer \in Node
         /\ job'[n] = j /\ \A p \in Node \ {n} : job'[p] = job[p]
BY DEF TypeOK, Jobs

\* What the event handlers do to the channels and to the job.
LEMMA TypeHandle ==
  ASSUME TypeOK, NEW n \in Node, NEW m \in Node, Handle(n, m)
  PROVE  TypeOK'
<1> USE DEF docVars, tableVars, netVars, ghostVars
<1> DEFINE e == Head(chan[m][n])
<1>1. chan[m][n] # <<>>
  BY DEF Handle, HandleConnected, HandleDisconnected, HandleConnect, HandleSync,
         HandlePush, Receives
<1>2. /\ e \in Message /\ Popped(n, m) \in Channels
      /\ e.heads \in SUBSET Change /\ e.changes \in SUBSET Change
  BY <1>1, Popping DEF Message
<1> HIDE DEF e
<1>3. CASE HandleConnected(n, m)
  <2>1. [Popped(n, m) EXCEPT ![n][m] = Append(@, ConnectMsg(n))] \in Channels
    BY <1>2, ConnectType, Appending
  <2>2. chan' \in Channels
    BY <1>2, <1>3, <2>1 DEF HandleConnected
  <2>3. /\ state' \in [Node -> [Node -> States]] /\ outbound' \in [Node -> SUBSET Node]
        /\ filtered' \in [Node -> SUBSET Node] /\ replaced' \in [Node -> SUBSET Node]
    BY <1>3 DEF HandleConnected, TypeOK, States
  <2> QED BY <1>3, <2>2, <2>3 DEF HandleConnected, TypeOK, Channels, States
<1>4. CASE HandleDisconnected(n, m)
  <2>1. state' \in [Node -> [Node -> States]]
    BY <1>4 DEF HandleDisconnected, TypeOK, States
  <2> QED BY <1>2, <1>4, <2>1 DEF HandleDisconnected, TypeOK, Channels, States
<1>5. CASE HandleConnect(n, m)
  <2> DEFINE j == [Idle EXCEPT !.step = "sync", !.peer = m, !.changes = Since(db[n], e.heads)]
  <2>1. Since(db[n], e.heads) \in SUBSET Change
    <3>1. db[n] \in SUBSET Change
      BY DEF TypeOK
    <3> QED BY <3>1, DocumentParts
  <2>2. j \in Jobs /\ j.peer = m
    BY <2>1 DEF Jobs, Idle
  <2>3. job' = [job EXCEPT ![n] = j]
    BY <1>5 DEF HandleConnect, e
  <2>4. job' \in [Node -> Jobs]
        /\ \A p \in Node : job'[p].step # "idle" => job'[p].peer \in Node
    <3> HIDE DEF j
    <3> QED BY <2>2, <2>3, JobType
  <2>5. filtered' \in [Node -> SUBSET Node]
    BY <1>5 DEF HandleConnect, TypeOK
  <2>6. unsent' \in [Node -> [Node -> SUBSET Change]]
    BY <1>5 DEF HandleConnect, TypeOK
  <2> QED BY <1>2, <1>5, <2>4, <2>5, <2>6 DEF HandleConnect, TypeOK, Channels, Jobs
<1>6. CASE HandleSync(n, m)
  <2> DEFINE j == [Idle EXCEPT !.step = "mark", !.peer = m, !.changes = e.changes]
  <2>1. j \in Jobs /\ j.peer = m
    BY <1>2 DEF Jobs, Idle
  <2>2. job' = [job EXCEPT ![n] = j]
    BY <1>6 DEF HandleSync, e
  <2>3. job' \in [Node -> Jobs]
        /\ \A p \in Node : job'[p].step # "idle" => job'[p].peer \in Node
    <3> HIDE DEF j
    <3> QED BY <2>1, <2>2, JobType
  <2>4. db' \in [Node -> SUBSET Change]
    BY <1>2, <1>6 DEF HandleSync, TypeOK, e
  <2>5. unsent' \in [Node -> [Node -> SUBSET Change]]
    BY <1>2, <1>6, SMTT(30) DEF HandleSync, TypeOK, e
  <2> QED BY <1>2, <1>6, <2>3, <2>4, <2>5 DEF HandleSync, TypeOK, Channels, Jobs
<1>7. CASE HandlePush(n, m)
  <2> DEFINE j == Relaying(m, e.changes, Fresh(db[n], e.changes) # {}, Node \ {n, m})
  <2>1. j \in Jobs /\ (j.step # "idle" => j.peer \in Node)
    BY <1>2 DEF Relaying, Jobs, Idle
  <2>2. job' = [job EXCEPT ![n] = j]
    BY <1>7 DEF HandlePush, e
  <2>3. job' \in [Node -> Jobs]
        /\ \A p \in Node : job'[p].step # "idle" => job'[p].peer \in Node
    <3> HIDE DEF j
    <3> QED BY <2>1, <2>2, JobType
  <2>4. db' \in [Node -> SUBSET Change]
    BY <1>2, <1>7 DEF HandlePush, TypeOK, e
  <2> QED BY <1>2, <1>7, <2>3, <2>4, Zenon DEF HandlePush, TypeOK, Channels, Jobs
<1> QED BY <1>3, <1>4, <1>5, <1>6, <1>7 DEF Handle

\* A push offered to m: at most one event more.
LEMMA Offering ==
  ASSUME TypeOK, NEW n \in Node, NEW m \in Node, NEW S \in SUBSET Change, NEW fresh,
         Offer(n, m, S, fresh)
  PROVE  /\ chan' \in Channels /\ unsent' \in [Node -> [Node -> SUBSET Change]]
         /\ \A p, q \in Node :
              ToSet(chan'[p][q]) \subseteq ToSet(chan[p][q]) \cup {Event("push", {}, S)}
<1>1. Event("push", {}, S) \in Message
  BY MessageTypes
<1>2. CASE Takes(n, m, fresh) /\ Linked(n, m)
  BY <1>1, <1>2, Sending DEF Offer, TypeOK
<1>3. CASE ~(Takes(n, m, fresh) /\ Linked(n, m))
  <2>1. chan' = chan /\ unsent' = [unsent EXCEPT ![n][m] = @ \cup S]
    BY <1>3, Zenon DEF Offer
  <2> QED BY <2>1 DEF TypeOK, Channels
<1> QED BY <1>2, <1>3

\* The second half of a handler keeps the types.
LEMMA TypeContinue ==
  ASSUME TypeOK, NEW n \in Node, Continue(n)
  PROVE  TypeOK'
<1> USE DEF docVars, tableVars, netVars, ghostVars
<1> DEFINE m == job[n].peer
<1>1. /\ job[n] \in Jobs /\ job[n].changes \in SUBSET Change /\ job[n].fresh \in BOOLEAN
      /\ job[n].to \in SUBSET Node
      /\ job[n].step # "idle" => m \in Node
  BY DEF TypeOK, Jobs
<1>2. CASE SendSync(n)
  <2> DEFINE j == IF Linked(n, m) THEN [job[n] EXCEPT !.step = "back"] ELSE Idle
  <2>1. m \in Node /\ Event("sync", {}, job[n].changes) \in Message
    BY <1>1, <1>2, MessageTypes DEF SendSync
  <2>2. chan' \in Channels
    BY <1>2, <2>1, Sending DEF SendSync
  <2>3. j \in Jobs /\ (j.step # "idle" => j.peer \in Node)
    BY <1>1, <2>1, IdleType DEF Jobs
  <2>4. job' = [job EXCEPT ![n] = j]
    BY <1>2 DEF SendSync, TypeOK
  <2>5. job' \in [Node -> Jobs]
        /\ \A p \in Node : job'[p].step # "idle" => job'[p].peer \in Node
    <3> HIDE DEF j
    <3> QED BY <2>3, <2>4, JobType
  <2> QED BY <1>2, <2>2, <2>5 DEF SendSync, TypeOK, Channels, Jobs
<1>3. CASE ConnectBack(n)
  <2>1. m \in Node
    BY <1>1, <1>3 DEF ConnectBack
  <2>2. chan' \in Channels
    <3>1. CASE state[n][m] = "synced"
      BY <1>3, <3>1 DEF ConnectBack, TypeOK, Channels
    <3>2. CASE state[n][m] # "synced"
      BY <1>3, <2>1, <3>2, ConnectType, Sending DEF ConnectBack
    <3> QED BY <3>1, <3>2
  <2>3. job' \in [Node -> Jobs]
        /\ \A p \in Node : job'[p].step # "idle" => job'[p].peer \in Node
    BY <1>3, IdleType, JobType DEF ConnectBack
  <2> QED BY <1>3, <2>2, <2>3 DEF ConnectBack, TypeOK, Channels, Jobs
<1>4. CASE MarkSynced(n)
  <2>1. m \in Node
    BY <1>1, <1>4 DEF MarkSynced
  <2>2. state' \in [Node -> [Node -> States]]
    BY <1>4, <2>1 DEF MarkSynced, TypeOK, States
  <2>3. job' \in [Node -> Jobs]
        /\ \A p \in Node : job'[p].step # "idle" => job'[p].peer \in Node
    BY <1>4, IdleType, JobType DEF MarkSynced
  <2> QED BY <1>4, <2>2, <2>3 DEF MarkSynced, TypeOK, States, Jobs
<1>5. ASSUME NEW p \in Node, Relay(n, p) PROVE TypeOK'
  <2> DEFINE j == Relaying(m, job[n].changes, job[n].fresh, job[n].to \ {p})
  <2>1. m \in Node /\ job[n].to \ {p} \in SUBSET Node
    BY <1>1, <1>5 DEF Relay
  <2>2. j \in Jobs /\ (j.step # "idle" => j.peer \in Node)
    BY <1>1, <2>1 DEF Relaying, Jobs, Idle
  <2>3. job' = [job EXCEPT ![n] = j]
    BY <1>5 DEF Relay
  <2>4. job' \in [Node -> Jobs]
        /\ \A q \in Node : job'[q].step # "idle" => job'[q].peer \in Node
    <3> HIDE DEF j
    <3> QED BY <2>2, <2>3, JobType
  <2>5. chan' \in Channels /\ unsent' \in [Node -> [Node -> SUBSET Change]]
    BY <1>1, <1>5, Offering DEF Relay
  <2> QED BY <1>5, <2>4, <2>5 DEF Relay, TypeOK, Channels, Jobs
<1> QED BY <1>2, <1>3, <1>4, <1>5 DEF Continue

\* A push under way holds no more than the changes it was given.
LEMMA PushType ==
  ASSUME NEW S \in SUBSET Change, NEW to \in SUBSET Node
  PROVE  /\ Push(S, to) \in [changes: SUBSET Change, to: SUBSET Node]
         /\ Push(S, to).changes \subseteq S
BY DEF Push

\* Writing and pushing keep the types.
LEMMA TypeApplication ==
  ASSUME TypeOK, NEW n \in Node,
         Pushing(n) \/ \E x \in Change : Write(n, x)
  PROVE  TypeOK'
<1> USE DEF docVars, tableVars, netVars, ghostVars
<1>1. ASSUME NEW m \in Node, PushLocal(n, m) PROVE TypeOK'
  <2>1. pending[n].changes \in SUBSET Change /\ pending[n].to \ {m} \in SUBSET Node
    BY DEF TypeOK
  <2>2. chan' \in Channels /\ unsent' \in [Node -> [Node -> SUBSET Change]]
    BY <1>1, <2>1, Offering DEF PushLocal
  <2>3. pending' \in [Node -> [changes: SUBSET Change, to: SUBSET Node]]
    <3>1. Push(pending[n].changes, pending[n].to \ {m}) \in
            [changes: SUBSET Change, to: SUBSET Node]
      BY <2>1, PushType
    <3> QED BY <1>1, <3>1 DEF PushLocal, TypeOK
  <2> QED BY <1>1, <2>2, <2>3 DEF PushLocal, TypeOK, Channels
<1>2. ASSUME NEW x \in Change, Write(n, x) PROVE TypeOK'
  <2>1. Applied(db[n]) \in SUBSET Change
    BY DocumentParts DEF TypeOK
  <2>2. /\ written' \subseteq Change /\ deps' \in [Change -> SUBSET Change]
        /\ db' \in [Node -> SUBSET Change]
    BY <1>2, <2>1 DEF Write, TypeOK
  <2>3. pending' \in [Node -> [changes: SUBSET Change, to: SUBSET Node]]
    <3>1. Push({x}, Others(n)) \in [changes: SUBSET Change, to: SUBSET Node]
      BY PushType DEF Others
    <3> QED BY <1>2, <3>1 DEF Write, TypeOK
  <2> QED BY <1>2, <2>2, <2>3 DEF Write, TypeOK
<1> QED BY <1>1, <1>2 DEF Pushing

\* The types are right at the start.
LEMMA TypeInit == Init => TypeOK
<1> SUFFICES ASSUME Init PROVE TypeOK
  OBVIOUS
<1>1. chan \in Channels
  BY EmptyRange DEF Init, Channels
<1>2. job \in [Node -> Jobs] /\ \A n \in Node : job[n].step = "idle"
  BY IdleType DEF Init
<1> QED BY <1>1, <1>2, PushType DEF Init, TypeOK, Channels, Jobs, Nobody

\* No step breaks the types.
LEMMA TypeStep == TypeOK /\ [Next]_vars => TypeOK'
<1>1. ASSUME TypeOK, UNCHANGED vars PROVE TypeOK'
  BY <1>1 DEF TypeOK, vars, docVars, tableVars, netVars, ghostVars
<1>2. ASSUME TypeOK, Next PROVE TypeOK'
  BY <1>2, TypeTransport, TypeHandle, TypeContinue, TypeApplication
     DEF Next, Loop, Connecting
<1> QED BY <1>1, <1>2

\* The types are right in every behaviour of the model.
THEOREM TypeCorrect == Spec => []TypeOK
BY TypeInit, TypeStep, PTL DEF Spec

-----------------------------------------------------------------------------
(* The inductive invariant, event by event and job by job. *)

\* What the invariant says of an event of n's on its way to m, and of a job of n's.
EventOK(n, m, e) ==
  /\ e.changes \subseteq written
  /\ e.type = "connect" => e.heads \subseteq Applied(db[n])
  /\ e.type = "sync" => Fit(e.changes, m)

JobOK(n, j) ==
  /\ j.changes \subseteq written
  /\ j.step = "sync" => Fit(j.changes, j.peer)
  /\ j.step = "mark" => j.changes \subseteq Applied(db[n])

\* The invariant, stated event by event and task by task.
LEMMA InvParts ==
  MeshInv <=> /\ CausalGraph
              /\ \A n \in Node : /\ db[n] \subseteq written
                                 /\ pending[n].changes \subseteq written
                                 /\ JobOK(n, job[n])
              /\ \A n, m \in Node : \A e \in ToSet(chan[n][m]) : EventOK(n, m, e)
BY DEF MeshInv, OnlyWritten, HeadsKnown, SyncsFit, SyncFits, EventOK, JobOK

\* Documents grow, and the dependencies of a written change stay.
Grows ==
  /\ written \subseteq written'
  /\ \A x \in written : deps'[x] = deps[x]
  /\ \A n \in Node : db[n] \subseteq db'[n]

\* What is in effect stays in effect while documents grow.
LEMMA AppliedGrows ==
  ASSUME TypeOK, MeshInv, Grows, NEW n \in Node
  PROVE  Applied(db[n]) \subseteq Applied(db[n])'
<1>1. db[n] \subseteq written /\ db[n] \subseteq db'[n]
  BY InvParts DEF Grows
<1> QED BY <1>1 DEF Grows, Applied

\* What fits a document still fits it while it grows.
LEMMA FitStays ==
  ASSUME TypeOK, MeshInv, Grows, NEW n \in Node, NEW S, S \subseteq written, Fit(S, n)
  PROVE  Fit(S, n)'
BY AppliedGrows DEF Fit, Grows

\* What was in order stays so while documents grow.
LEMMA EventStays ==
  ASSUME TypeOK, MeshInv, Grows, NEW n \in Node, NEW m \in Node, NEW e, EventOK(n, m, e)
  PROVE  EventOK(n, m, e)'
BY AppliedGrows, FitStays DEF EventOK, Grows

\* A task that goes on with the same work keeps its part of the invariant.
LEMMA JobStays ==
  ASSUME TypeOK, MeshInv, Grows, NEW n \in Node
  PROVE  JobOK(n, job[n])' \/ job'[n] # job[n]
<1> SUFFICES ASSUME job'[n] = job[n] PROVE JobOK(n, job[n])'
  OBVIOUS
<1>1. JobOK(n, job[n]) /\ (job[n].step # "idle" => job[n].peer \in Node)
  BY InvParts DEF TypeOK
<1> QED BY <1>1, AppliedGrows, FitStays DEF JobOK, Grows

\* A step keeps the invariant if documents grow and what it adds is in order.
LEMMA StepKeeps ==
  ASSUME TypeOK, MeshInv, Grows, CausalGraph',
         \A n \in Node : /\ db'[n] \subseteq written'
                         /\ pending'[n].changes \subseteq written'
                         /\ job'[n] = job[n] \/ JobOK(n, job[n])',
         \A n, m \in Node : \A e \in ToSet(chan'[n][m]) :
           e \in ToSet(chan[n][m]) \/ EventOK(n, m, e)'
  PROVE  MeshInv'
<1>1. \A n \in Node : JobOK(n, job[n])'
  BY JobStays
<1>2. ASSUME NEW n \in Node, NEW m \in Node, NEW e \in ToSet(chan'[n][m])
      PROVE  EventOK(n, m, e)'
  <2>1. CASE e \in ToSet(chan[n][m])
    BY <2>1, InvParts, EventStays
  <2>2. CASE e \notin ToSet(chan[n][m])
    BY <2>2
  <2> QED BY <2>1, <2>2
<1> QED BY <1>1, <1>2 DEF MeshInv, OnlyWritten, HeadsKnown, SyncsFit, SyncFits, EventOK, JobOK

\* The steps that leave the documents alone.
LEMMA SameDocuments ==
  ASSUME TypeOK, MeshInv, UNCHANGED docVars,
         \A n \in Node : /\ pending'[n].changes \subseteq written
                         /\ job'[n] = job[n] \/ JobOK(n, job'[n]),
         \A n, m \in Node : \A e \in ToSet(chan'[n][m]) :
           e \in ToSet(chan[n][m]) \/ EventOK(n, m, e)
  PROVE  MeshInv'
<1>1. Grows /\ CausalGraph' /\ \A n \in Node : db'[n] \subseteq written'
  BY InvParts DEF docVars, Grows, CausalGraph
<1>2. \A n, m \in Node : \A e : EventOK(n, m, e) => EventOK(n, m, e)'
  BY <1>1, EventStays
<1>3. \A n \in Node : JobOK(n, job'[n]) => JobOK(n, job[n])'
  BY DEF docVars, JobOK, Fit, Applied
<1> QED BY <1>1, <1>2, <1>3, StepKeeps DEF docVars

\* Discovery, dialling and lost links keep the invariant: they make no message but Up and Down.
LEMMA InvTransport ==
  ASSUME TypeOK, MeshInv, NEW n \in Node,
         \/ Track(n) \/ Dial(n) \/ DialFails(n)
         \/ \E m \in Node : Discover(n, m) \/ LinkDown(n, m) \/ Reconnect(n, m)
  PROVE  MeshInv'
<1>1. UNCHANGED <<docVars, job, pending>>
  BY DEF Track, Dial, DialFails, Discover, LinkDown, Reconnect
<1>2. \A p, q \in Node : ToSet(chan'[p][q]) \subseteq ToSet(chan[p][q]) \cup {Up, Down}
  <2>1. CASE Track(n) \/ DialFails(n) \/ \E m \in Node : Discover(n, m)
    BY <2>1 DEF Track, DialFails, Discover, netVars
  <2>2. CASE Dial(n)
    <3>1. finding[n].peer \in Node
      BY <2>2 DEF Dial, TypeOK
    <3>2. UNCHANGED chan \/ LinkUp(n, finding[n].peer)
      BY <2>2 DEF Dial, netVars
    <3> QED BY <3>1, <3>2, Linking
  <2>3. CASE \E m \in Node : LinkDown(n, m)
    BY <2>3, Unlinking
  <2>4. CASE \E m \in Node : Reconnect(n, m)
    BY <2>4, Linking DEF Reconnect
  <2> QED BY <2>1, <2>2, <2>3, <2>4
<1>3. \A p, q \in Node : \A e \in {Up, Down} : EventOK(p, q, e)
  BY UpDown DEF EventOK
<1> QED BY <1>1, <1>2, <1>3, SameDocuments, InvParts

-----------------------------------------------------------------------------
(* The handshake. *)

\* A Connect never claims more than its sender has.
LEMMA ConnectOK ==
  ASSUME TypeOK, NEW n \in Node, NEW m \in Node
  PROVE  EventOK(n, m, ConnectMsg(n))
BY ConnectType DEF EventOK

\* The Sync for the heads H of m fits m: what its changes build on is in it, or is
\* below H and so in effect at m.
LEMMA SinceFits ==
  ASSUME TypeOK, MeshInv, NEW n \in Node, NEW m \in Node,
         NEW H, H \subseteq Applied(db[m])
  PROVE  Fit(Since(db[n], H), m) /\ Since(db[n], H) \subseteq written
<1>1. db[n] \subseteq Change /\ db[m] \subseteq Change /\ db[n] \subseteq written
  BY InvParts DEF TypeOK
<1>2. \A x \in Change : \A y \in deps[x] : y \in Change /\ deps[y] \subseteq deps[x]
  BY DEF MeshInv, CausalGraph, TypeOK
<1>3. ASSUME NEW x \in Since(db[n], H), NEW y \in deps[x], y \notin Since(db[n], H)
      PROVE  y \in Applied(db[m])
  <2>1. x \in db[n] /\ deps[x] \subseteq db[n]
    BY DEF Since, Applied
  <2>2. y \in Applied(db[n])
    BY <1>1, <1>2, <2>1 DEF Applied
  <2>3. PICK h \in H : y = h \/ y \in deps[h]
    BY <1>3, <2>2 DEF Since, Below
  <2>4. h \in db[m] /\ deps[h] \subseteq db[m]
    BY DEF Applied
  <2>5. CASE y = h
    BY <2>5
  <2>6. CASE y \in deps[h]
    BY <1>1, <1>2, <2>4, <2>6 DEF Applied
  <2> QED BY <2>3, <2>5, <2>6
<1>4. Since(db[n], H) \subseteq written
  BY <1>1 DEF Since, Applied
<1> QED BY <1>3, <1>4 DEF Fit

\* Every handler keeps the invariant with the first half of its work.
LEMMA InvHandle ==
  ASSUME TypeOK, TypeOK', MeshInv, NEW n \in Node, NEW m \in Node, Handle(n, m)
  PROVE  MeshInv'
<1> DEFINE e == Head(chan[m][n])
<1>1. chan[m][n] # <<>>
  BY DEF Handle, HandleConnected, HandleDisconnected, HandleConnect, HandleSync,
         HandlePush, Receives
<1>2. /\ e \in Message /\ e \in ToSet(chan[m][n]) /\ Popped(n, m) \in Channels
      /\ \A p, q \in Node : ToSet(Popped(n, m)[p][q]) \subseteq ToSet(chan[p][q])
  BY <1>1, Popping
<1>3. EventOK(m, n, e)
  BY <1>2, InvParts
<1> HIDE DEF e
<1>4. CASE HandleConnected(n, m) \/ HandleDisconnected(n, m)
  <2>1. UNCHANGED <<docVars, job, pending>>
    BY <1>4 DEF HandleConnected, HandleDisconnected
  <2>2. \A p, q \in Node : \A f \in ToSet(chan'[p][q]) :
          f \in ToSet(chan[p][q]) \/ EventOK(p, q, f)
    <3>1. CASE chan' = Popped(n, m)
      BY <1>2, <3>1
    <3>2. CASE chan' = [Popped(n, m) EXCEPT ![n][m] = Append(@, ConnectMsg(n))]
      <4>1. \A p, q \in Node : ToSet(chan'[p][q]) \subseteq
              ToSet(Popped(n, m)[p][q]) \cup {ConnectMsg(n)}
        BY <1>2, <3>2, ConnectType, Appending
      <4>2. \A p, q \in Node : ~(p = n /\ q = m) => chan'[p][q] = Popped(n, m)[p][q]
        BY <1>2, <3>2 DEF Channels
      <4> QED BY <1>2, <4>1, <4>2, ConnectOK
    <3> QED BY <1>4, <3>1, <3>2 DEF HandleConnected, HandleDisconnected
  <2> QED BY <2>1, <2>2, SameDocuments, InvParts
<1>5. CASE HandleConnect(n, m)
  <2>1. e.type = "connect"
    BY <1>5 DEF HandleConnect, Receives, e
  <2>2. Fit(Since(db[n], e.heads), m) /\ Since(db[n], e.heads) \subseteq written
    BY <1>3, <2>1, SinceFits DEF EventOK
  <2>3. JobOK(n, job'[n])
    <3>1. job'[n] = [Idle EXCEPT !.step = "sync", !.peer = m,
                                 !.changes = Since(db[n], e.heads)]
      BY <1>5 DEF HandleConnect, TypeOK, e
    <3> QED BY <2>2, <3>1 DEF JobOK, Idle
  <2>4. /\ UNCHANGED <<docVars, pending>> /\ chan' = Popped(n, m)
        /\ \A p \in Node \ {n} : job'[p] = job[p]
    BY <1>5 DEF HandleConnect, TypeOK
  <2> QED BY <1>2, <2>3, <2>4, SameDocuments, InvParts
<1>6. CASE HandleSync(n, m) \/ HandlePush(n, m)
  <2>1. /\ UNCHANGED <<written, deps, pending>> /\ chan' = Popped(n, m)
        /\ db' = [db EXCEPT ![n] = @ \cup e.changes]
        /\ \A p \in Node \ {n} : job'[p] = job[p]
    BY <1>6 DEF HandleSync, HandlePush, TypeOK, e
  <2>2. e.changes \subseteq written
    BY <1>3 DEF EventOK
  <2>3. Grows /\ CausalGraph' /\ \A p \in Node : db'[p] \subseteq written'
    BY <2>1, <2>2, InvParts DEF Grows, CausalGraph, TypeOK
  <2>4. JobOK(n, job[n])'
    <3>1. CASE HandleSync(n, m)
      <4>1. job'[n] = [Idle EXCEPT !.step = "mark", !.peer = m, !.changes = e.changes]
        BY <3>1 DEF HandleSync, TypeOK, e
      <4>2. job'[n].step = "mark" /\ job'[n].changes = e.changes
        BY <4>1 DEF Idle
      <4>3. Fit(e.changes, n)
        BY <1>3, <3>1 DEF EventOK, HandleSync, Receives, e
      <4>4. e.changes \subseteq Applied(db[n])'
        BY <2>1, <4>3, SMTT(30) DEF Fit, Applied, TypeOK
      <4> QED BY <2>1, <2>2, <4>2, <4>4 DEF JobOK
    <3>2. CASE HandlePush(n, m)
      <4>1. job'[n] = Relaying(m, e.changes, Fresh(db[n], e.changes) # {}, Node \ {n, m})
        <5> DEFINE j == Relaying(m, e.changes, Fresh(db[n], e.changes) # {}, Node \ {n, m})
        <5>1. job' = [job EXCEPT ![n] = j]
          BY <3>2 DEF HandlePush, e
        <5> HIDE DEF j
        <5> QED BY <5>1 DEF TypeOK, j
      <4>2. job'[n].step \in {"idle", "relay"} /\ job'[n].changes \subseteq e.changes
        BY <4>1 DEF Relaying, Idle
      <4> QED BY <2>1, <2>2, <4>2 DEF JobOK
    <3> QED BY <1>6, <3>1, <3>2
  <2>5. /\ \A p \in Node : pending'[p].changes \subseteq written'
        /\ \A p, q \in Node : \A f \in ToSet(chan'[p][q]) : f \in ToSet(chan[p][q])
    BY <1>2, <2>1, InvParts
  <2> QED BY <2>1, <2>3, <2>4, <2>5, StepKeeps
<1> QED BY <1>4, <1>5, <1>6 DEF Handle

\* Pushes of written changes are in order.
LEMMA PushOK ==
  ASSUME NEW n \in Node, NEW m \in Node, NEW S \in SUBSET Change, S \subseteq written
  PROVE  EventOK(n, m, Event("push", {}, S))
BY MessageTypes DEF EventOK

\* The second half of a handler keeps the invariant.
LEMMA InvContinue ==
  ASSUME TypeOK, TypeOK', MeshInv, NEW n \in Node, Continue(n)
  PROVE  MeshInv'
<1> DEFINE m == job[n].peer
           S == job[n].changes
<1>1. JobOK(n, job[n]) /\ S \in SUBSET Change /\ (job[n].step # "idle" => m \in Node)
  BY InvParts DEF TypeOK
<1>2. JobOK(n, Idle)
  BY DEF JobOK, Idle
<1>3. CASE SendSync(n)
  <2>1. m \in Node /\ Event("sync", {}, S) \in Message
    BY <1>1, <1>3, MessageTypes DEF SendSync
  <2>2. JobOK(n, job'[n]) /\ \A p \in Node \ {n} : job'[p] = job[p]
    <3>1. job'[n] = IF Linked(n, m) THEN [job[n] EXCEPT !.step = "back"] ELSE Idle
      BY <1>3 DEF SendSync, TypeOK
    <3>2. JobOK(n, [job[n] EXCEPT !.step = "back"])
      BY <1>1 DEF JobOK, TypeOK
    <3>3. \A p \in Node \ {n} : job'[p] = job[p]
      BY <1>3 DEF SendSync, TypeOK
    <3> QED BY <1>2, <3>1, <3>2, <3>3
  <2>3. \A p, q \in Node : \A f \in ToSet(chan'[p][q]) :
          f \in ToSet(chan[p][q]) \/ EventOK(p, q, f)
    <3>1. \A p, q \in Node :
            ToSet(chan'[p][q]) \subseteq ToSet(chan[p][q]) \cup {Event("sync", {}, S)}
      BY <1>3, <2>1, Sending DEF SendSync
    <3>2. \A p, q \in Node : ~(p = n /\ q = m) => chan'[p][q] = chan[p][q]
      BY <1>3 DEF SendSync, Send, TypeOK
    <3>3. EventOK(n, m, Event("sync", {}, S))
      BY <1>1, <1>3, MessageTypes DEF JobOK, EventOK, SendSync
    <3> QED BY <3>1, <3>2, <3>3
  <2> QED BY <1>3, <2>2, <2>3, SameDocuments, InvParts DEF SendSync
<1>4. CASE ConnectBack(n)
  <2>1. m \in Node
    BY <1>1, <1>4 DEF ConnectBack
  <2>2. \A p \in Node : job'[p] = job[p] \/ JobOK(p, job'[p])
    BY <1>2, <1>4 DEF ConnectBack, TypeOK
  <2>3. \A p, q \in Node : \A f \in ToSet(chan'[p][q]) :
          f \in ToSet(chan[p][q]) \/ EventOK(p, q, f)
    <3>1. CASE UNCHANGED chan
      BY <3>1
    <3>2. CASE Send(n, m, ConnectMsg(n))
      <4>1. \A p, q \in Node :
              ToSet(chan'[p][q]) \subseteq ToSet(chan[p][q]) \cup {ConnectMsg(n)}
        BY <2>1, <3>2, ConnectType, Sending
      <4>2. \A p, q \in Node : ~(p = n /\ q = m) => chan'[p][q] = chan[p][q]
        BY <3>2 DEF Send, TypeOK
      <4> QED BY <2>1, <4>1, <4>2, ConnectOK
    <3> QED BY <1>4, <3>1, <3>2 DEF ConnectBack
  <2> QED BY <1>4, <2>2, <2>3, SameDocuments, InvParts DEF ConnectBack
<1>5. CASE MarkSynced(n)
  <2>1. \A p \in Node : job'[p] = job[p] \/ JobOK(p, job'[p])
    BY <1>2, <1>5 DEF MarkSynced, TypeOK
  <2> QED BY <1>5, <2>1, SameDocuments, InvParts DEF MarkSynced, netVars
<1>6. ASSUME NEW p \in Node, Relay(n, p) PROVE MeshInv'
  <2>1. S \subseteq written
    BY <1>1 DEF JobOK
  <2>2. \A q \in Node : job'[q] = job[q] \/ JobOK(q, job'[q])
    <3>1. job'[n] = Relaying(m, S, job[n].fresh, job[n].to \ {p})
      BY <1>6 DEF Relay, TypeOK
    <3>2. job'[n].step \in {"idle", "relay"} /\ job'[n].changes \subseteq S
      BY <3>1 DEF Relaying, Idle
    <3>3. JobOK(n, job'[n])
      BY <2>1, <3>2 DEF JobOK
    <3> QED BY <1>6, <3>3 DEF Relay, TypeOK
  <2>3. \A q, r \in Node :
          ToSet(chan'[q][r]) \subseteq ToSet(chan[q][r]) \cup {Event("push", {}, S)}
    BY <1>1, <1>6, Offering DEF Relay
  <2>4. \A q, r \in Node : \A f \in ToSet(chan'[q][r]) :
          f \in ToSet(chan[q][r]) \/ EventOK(q, r, f)
    BY <1>1, <2>1, <2>3, PushOK
  <2>5. UNCHANGED docVars /\ UNCHANGED pending
    BY <1>6 DEF Relay
  <2> QED BY <2>2, <2>4, <2>5, SameDocuments, InvParts
<1> QED BY <1>3, <1>4, <1>5, <1>6 DEF Continue

-----------------------------------------------------------------------------
(* The application. *)

\* push_local_changes keeps the invariant.
LEMMA InvPushLocal ==
  ASSUME TypeOK, MeshInv, NEW n \in Node, NEW m \in Node, PushLocal(n, m)
  PROVE  MeshInv'
<1> DEFINE S == pending[n].changes
<1>1. S \in SUBSET Change /\ S \subseteq written
  BY InvParts DEF TypeOK
<1>2. \A q, r \in Node :
        ToSet(chan'[q][r]) \subseteq ToSet(chan[q][r]) \cup {Event("push", {}, S)}
  BY <1>1, Offering DEF PushLocal
<1>3. \A q \in Node : pending'[q].changes \subseteq written
  <2>1. pending'[n] = Push(S, pending[n].to \ {m})
        /\ \A q \in Node \ {n} : pending'[q] = pending[q]
    BY DEF PushLocal, TypeOK
  <2> QED BY <1>1, <2>1, InvParts DEF Push
<1>4. UNCHANGED <<docVars, job>>
  BY DEF PushLocal
<1> QED BY <1>1, <1>2, <1>3, <1>4, PushOK, SameDocuments

\* A new change depends on what is in effect where it is written, which includes its
\* own dependencies.
LEMMA InvWrite ==
  ASSUME TypeOK, MeshInv, NEW n \in Node, NEW x \in Change, Write(n, x)
  PROVE  MeshInv'
<1>1. /\ x \notin written /\ written' = written \cup {x}
      /\ deps' = [deps EXCEPT ![x] = Applied(db[n])]
      /\ db' = [db EXCEPT ![n] = @ \cup {x}]
      /\ pending' = [pending EXCEPT ![n] = Push({x}, Others(n))]
      /\ chan' = chan /\ job' = job
  BY DEF Write, netVars
<1>2. db[n] \subseteq written /\ CausalGraph
  BY InvParts
<1>3. Grows /\ \A p \in Node : db'[p] \subseteq written'
  BY <1>1, InvParts DEF Grows, TypeOK
<1>4. CausalGraph'
  <2>1. ASSUME NEW y \in Change PROVE deps'[y] \subseteq written'
                                      /\ \A z \in deps'[y] : deps'[z] \subseteq deps'[y]
    <3>1. CASE y = x
      <4>1. deps'[x] = Applied(db[n]) /\ Applied(db[n]) \subseteq db[n]
        BY <1>1 DEF TypeOK, Applied
      <4>2. ASSUME NEW z \in Applied(db[n]) PROVE deps'[z] \subseteq Applied(db[n])
        <5>1. z \in Change /\ z # x /\ deps[z] \subseteq db[n]
          BY <1>1, <1>2 DEF Applied, TypeOK
        <5>2. deps'[z] = deps[z]
          BY <1>1, <5>1 DEF TypeOK
        <5>3. \A w \in deps[z] : deps[w] \subseteq deps[z]
          BY <1>2, <5>1 DEF CausalGraph
        <5> QED BY <5>1, <5>2, <5>3 DEF Applied
      <4> QED BY <1>1, <1>2, <3>1, <4>1, <4>2
    <3>2. CASE y # x
      <4>1. deps'[y] = deps[y] /\ deps[y] \subseteq written
            /\ \A z \in deps[y] : deps[z] \subseteq deps[y]
        BY <1>1, <1>2, <3>2 DEF TypeOK, CausalGraph
      <4>2. \A z \in deps[y] : deps'[z] = deps[z]
        BY <1>1, <4>1 DEF TypeOK
      <4> QED BY <1>1, <4>1, <4>2
    <3> QED BY <3>1, <3>2
  <2> QED BY <2>1 DEF CausalGraph
<1>5. \A p \in Node : pending'[p].changes \subseteq written'
  <2>1. pending'[n] = Push({x}, Others(n))
        /\ \A p \in Node \ {n} : pending'[p] = pending[p]
    BY <1>1 DEF TypeOK
  <2> QED BY <1>1, <2>1, InvParts DEF Push
<1> QED BY <1>1, <1>3, <1>4, <1>5, StepKeeps

\* The invariant holds at the start.
LEMMA InvInit == Init => MeshInv
<1> SUFFICES ASSUME Init PROVE MeshInv
  OBVIOUS
<1>1. \A n, m \in Node : ToSet(chan[n][m]) = {}
  BY DEF Init, ToSet
<1>2. CausalGraph /\ \A n \in Node : /\ db[n] \subseteq written
                                     /\ pending[n].changes \subseteq written
                                     /\ JobOK(n, job[n])
  BY DEF Init, CausalGraph, Push, JobOK, Idle
<1> QED BY <1>1, <1>2, InvParts

\* No step breaks the invariant.
LEMMA InvStep == TypeOK /\ TypeOK' /\ MeshInv /\ [Next]_vars => MeshInv'
<1>1. ASSUME TypeOK, TypeOK', MeshInv, UNCHANGED vars PROVE MeshInv'
  BY <1>1, SameDocuments, InvParts DEF vars, netVars
<1>2. ASSUME TypeOK, TypeOK', MeshInv, Next PROVE MeshInv'
  BY <1>2, InvTransport, InvHandle, InvContinue, InvPushLocal, InvWrite
     DEF Next, Loop, Connecting, Pushing
<1> QED BY <1>1, <1>2

\* The inductive invariant of the handshake holds in every mesh.
THEOREM MeshInvCorrect == Spec => []MeshInv
BY TypeCorrect, InvInit, InvStep, PTL DEF Spec

\* When a node has applied a Sync, all its changes are in effect there: whatever was
\* pushed meanwhile, in whatever order links were lost and found.
THEOREM SyncsTakeEffect == Spec => []SyncFits
<1>1. MeshInv => SyncFits
  BY DEF MeshInv
<1> QED BY MeshInvCorrect, <1>1, PTL

-----------------------------------------------------------------------------
(* What waits in a queue. *)

\* The queue q holds an event of type t; one that came after every Up in it.
HasType(q, t) == \E i \in 1 .. Len(q) : q[i].type = t
HasNew(q, t) == \E i \in 1 .. Len(q) :
  q[i].type = t /\ \A k \in i .. Len(q) : q[k].type # "up"

\* A Down is followed by the Up of the next link, if there is one; without a link the
\* last event is the Down of the last one.
Orderly(q, up) ==
  /\ \A i \in 1 .. Len(q) :
       q[i].type = "down" => IF i = Len(q) THEN ~up ELSE q[i + 1].type = "up"
  /\ ~up /\ q # <<>> => q[Len(q)].type = "down"

\* One more event at the end of a queue.
LEMMA QueueAppend ==
  ASSUME NEW q \in Seq(Message), NEW e \in Message
  PROVE  LET d == Append(q, e) IN
         /\ d # <<>> /\ Head(d) = IF q = <<>> THEN e ELSE Head(q)
         /\ \A t : HasType(d, t) <=> HasType(q, t) \/ e.type = t
         /\ \A t : HasNew(d, t) <=> e.type # "up" /\ (HasNew(q, t) \/ e.type = t)
         /\ Orderly(q, TRUE) /\ e.type # "down" => Orderly(d, TRUE)
         /\ Orderly(q, FALSE) /\ e.type = "up" => Orderly(d, TRUE)
<1> DEFINE d == Append(q, e)
<1>1. /\ Len(q) \in Nat /\ Len(d) = Len(q) + 1 /\ d[Len(q) + 1] = e /\ d \in Seq(Message)
      /\ \A i \in 1 .. Len(q) : d[i] = q[i]
  OBVIOUS
<1>2. d # <<>> /\ Head(d) = IF q = <<>> THEN e ELSE Head(q)
  <2>1. Head(d) = d[1] /\ d # <<>>
    BY <1>1
  <2>2. q # <<>> => Head(q) = q[1] /\ Len(q) >= 1
    OBVIOUS
  <2>3. q = <<>> => Len(q) = 0
    OBVIOUS
  <2> QED BY <1>1, <2>1, <2>2, <2>3
<1> HIDE DEF d
<1>3. \A t : HasType(d, t) <=> HasType(q, t) \/ e.type = t
  BY <1>1 DEF HasType
<1>4. ASSUME NEW t PROVE HasNew(d, t) <=> e.type # "up" /\ (HasNew(q, t) \/ e.type = t)
  <2>1. ASSUME HasNew(d, t) PROVE e.type # "up" /\ (HasNew(q, t) \/ e.type = t)
    <3>1. PICK i \in 1 .. Len(d) : d[i].type = t /\ \A k \in i .. Len(d) : d[k].type # "up"
      BY <2>1 DEF HasNew
    <3>2. e.type # "up"
      BY <1>1, <3>1
    <3>3. CASE i = Len(q) + 1
      BY <1>1, <3>1, <3>2, <3>3
    <3>4. CASE i # Len(q) + 1
      <4>1. i \in 1 .. Len(q) /\ \A k \in i .. Len(q) : k \in i .. Len(d) /\ d[k] = q[k]
        BY <1>1, <3>4
      <4> QED BY <3>1, <3>2, <4>1 DEF HasNew
    <3> QED BY <3>3, <3>4
  <2>2. ASSUME e.type # "up", HasNew(q, t) PROVE HasNew(d, t)
    <3>1. PICK i \in 1 .. Len(q) : q[i].type = t /\ \A k \in i .. Len(q) : q[k].type # "up"
      BY <2>2 DEF HasNew
    <3>2. \A k \in i .. Len(d) : d[k].type # "up"
      <4> SUFFICES ASSUME NEW k \in i .. Len(d) PROVE d[k].type # "up"
        OBVIOUS
      <4>1. k = Len(q) + 1 \/ k \in i .. Len(q)
        BY <1>1
      <4> QED BY <1>1, <2>2, <3>1, <4>1
    <3> QED BY <1>1, <3>1, <3>2 DEF HasNew
  <2>3. ASSUME e.type # "up", e.type = t PROVE HasNew(d, t)
    <3>1. Len(q) + 1 \in 1 .. Len(d) /\ d[Len(q) + 1].type = t
          /\ \A k \in Len(q) + 1 .. Len(d) : k = Len(q) + 1
      BY <1>1, <2>3
    <3>2. \A k \in Len(q) + 1 .. Len(d) : d[k].type # "up"
      BY <1>1, <2>3, <3>1
    <3> QED BY <3>1, <3>2 DEF HasNew
  <2> QED BY <2>1, <2>2, <2>3
<1>5. ASSUME \/ Orderly(q, TRUE) /\ e.type # "down"
             \/ Orderly(q, FALSE) /\ e.type = "up"
      PROVE  Orderly(d, TRUE)
  <2> SUFFICES ASSUME NEW i \in 1 .. Len(d), d[i].type = "down"
               PROVE  i # Len(d) /\ d[i + 1].type = "up"
    BY DEF Orderly
  <2>1. i # Len(q) + 1
    BY <1>1, <1>5
  <2>2. i \in 1 .. Len(q) /\ q[i].type = "down"
    BY <1>1, <2>1
  <2>3. CASE i = Len(q)
    <3>1. Orderly(q, FALSE) /\ e.type = "up"
      BY <1>5, <2>2, <2>3 DEF Orderly
    <3> QED BY <1>1, <2>3, <3>1
  <2>4. CASE i # Len(q)
    <3>1. q[i + 1].type = "up"
      BY <1>5, <2>2, <2>4 DEF Orderly
    <3> QED BY <1>1, <2>2, <2>4, <3>1
  <2> QED BY <2>3, <2>4
<1> QED BY <1>2, <1>3, <1>4, <1>5 DEF d

\* The first event of a queue is taken.
LEMMA QueueTail ==
  ASSUME NEW q \in Seq(Message), q # <<>>, NEW up \in BOOLEAN
  PROVE  LET r == Tail(q) IN
         /\ \A t : HasType(q, t) <=> HasType(r, t) \/ Head(q).type = t
         /\ \A t : HasNew(r, t) => HasNew(q, t)
         /\ \A t : HasNew(q, t) => HasNew(r, t) \/ (Head(q).type = t /\ ~HasType(q, "up"))
         /\ r # <<>> => HasType(r, Head(r).type)
         /\ Orderly(q, up) =>
              /\ Orderly(r, up)
              /\ Head(q).type = "down" => IF r = <<>> THEN ~up ELSE Head(r).type = "up"
              /\ Head(q).type # "down" /\ ~up => r # <<>>
<1> DEFINE r == Tail(q)
<1>1. /\ Len(q) \in Nat \ {0} /\ Len(r) = Len(q) - 1 /\ r \in Seq(Message)
      /\ \A i \in 1 .. Len(r) : r[i] = q[i + 1]
      /\ Head(q) = q[1]
      /\ (r = <<>> <=> Len(r) = 0) /\ (r # <<>> => Head(r) = r[1])
  <2>1. /\ Len(q) \in Nat \ {0} /\ Len(r) = Len(q) - 1 /\ r \in Seq(Message)
        /\ \A i \in 1 .. Len(r) : r[i] = q[i + 1]
        /\ Head(q) = q[1]
    OBVIOUS
  <2> HIDE DEF r
  <2>2. (r = <<>> <=> Len(r) = 0) /\ (r # <<>> => Head(r) = r[1])
    BY <2>1
  <2> QED BY <2>1, <2>2
<1> HIDE DEF r
<1>2. \A i \in 2 .. Len(q) : i - 1 \in 1 .. Len(r) /\ r[i - 1] = q[i]
  <2> SUFFICES ASSUME NEW i \in 2 .. Len(q) PROVE i - 1 \in 1 .. Len(r) /\ r[i - 1] = q[i]
    OBVIOUS
  <2>1. i - 1 \in 1 .. Len(r) /\ (i - 1) + 1 = i
    BY <1>1
  <2> QED BY <1>1, <2>1
<1>3. \A t : HasType(q, t) <=> HasType(r, t) \/ Head(q).type = t
  <2> SUFFICES ASSUME NEW t PROVE HasType(q, t) <=> HasType(r, t) \/ Head(q).type = t
    OBVIOUS
  <2>1. ASSUME HasType(q, t) PROVE HasType(r, t) \/ Head(q).type = t
    <3>1. PICK i \in 1 .. Len(q) : q[i].type = t
      BY <2>1 DEF HasType
    <3>2. i = 1 \/ i \in 2 .. Len(q)
      BY <1>1
    <3> QED BY <1>1, <1>2, <3>1, <3>2 DEF HasType
  <2>2. ASSUME HasType(r, t) PROVE HasType(q, t)
    <3>1. PICK i \in 1 .. Len(r) : r[i].type = t
      BY <2>2 DEF HasType
    <3>2. i + 1 \in 1 .. Len(q) /\ q[i + 1].type = t
      BY <1>1, <3>1
    <3> QED BY <3>2 DEF HasType
  <2>3. 1 \in 1 .. Len(q)
    BY <1>1
  <2> QED BY <1>1, <2>1, <2>2, <2>3 DEF HasType
<1>4. ASSUME NEW t, HasNew(r, t) PROVE HasNew(q, t)
  <2>1. PICK i \in 1 .. Len(r) : r[i].type = t /\ \A k \in i .. Len(r) : r[k].type # "up"
    BY <1>4 DEF HasNew
  <2>2. i + 1 \in 1 .. Len(q) /\ q[i + 1].type = t
    BY <1>1, <2>1
  <2>3. ASSUME NEW k \in i + 1 .. Len(q) PROVE q[k].type # "up"
    <3>1. k \in 2 .. Len(q) /\ k - 1 \in i .. Len(r)
      BY <1>1
    <3> QED BY <1>2, <2>1, <3>1
  <2> QED BY <2>2, <2>3 DEF HasNew
<1>5. ASSUME NEW t, HasNew(q, t), ~HasNew(r, t)
      PROVE  Head(q).type = t /\ ~HasType(q, "up")
  <2>1. PICK i \in 1 .. Len(q) : q[i].type = t /\ \A k \in i .. Len(q) : q[k].type # "up"
    BY <1>5 DEF HasNew
  <2>2. CASE i = 1
    BY <1>1, <2>1, <2>2 DEF HasType
  <2>3. CASE i # 1
    <3>1. i \in 2 .. Len(q) /\ r[i - 1].type = t /\ i - 1 \in 1 .. Len(r)
      BY <1>1, <1>2, <2>1, <2>3
    <3>2. ASSUME NEW k \in i - 1 .. Len(r) PROVE r[k].type # "up"
      <4>1. k \in 1 .. Len(r) /\ k + 1 \in i .. Len(q)
        BY <1>1, <3>1
      <4> QED BY <1>1, <2>1, <4>1
    <3> QED BY <1>5, <3>1, <3>2 DEF HasNew
  <2> QED BY <2>2, <2>3
<1>6. r # <<>> => HasType(r, Head(r).type)
  <2>1. r # <<>> => 1 \in 1 .. Len(r)
    BY <1>1
  <2> QED BY <1>1, <2>1 DEF HasType
<1>7. ASSUME Orderly(q, up)
      PROVE  /\ Orderly(r, up)
             /\ Head(q).type = "down" => IF r = <<>> THEN ~up ELSE Head(r).type = "up"
             /\ Head(q).type # "down" /\ ~up => r # <<>>
  <2>1. \A i \in 1 .. Len(q) :
          q[i].type = "down" => IF i = Len(q) THEN ~up ELSE q[i + 1].type = "up"
    BY <1>7 DEF Orderly
  <2>2. ~up => q[Len(q)].type = "down"
    BY <1>7 DEF Orderly
  <2>3. ASSUME NEW i \in 1 .. Len(r), r[i].type = "down"
        PROVE  IF i = Len(r) THEN ~up ELSE r[i + 1].type = "up"
    <3>1. i + 1 \in 1 .. Len(q) /\ q[i + 1].type = "down" /\ (i + 1 = Len(q) <=> i = Len(r))
      BY <1>1, <2>3
    <3>2. i # Len(r) => i + 1 \in 1 .. Len(r) /\ q[(i + 1) + 1] = r[i + 1]
      BY <1>1
    <3> QED BY <2>1, <3>1, <3>2
  <2>4. ~up /\ r # <<>> => r[Len(r)].type = "down"
    <3>1. r # <<>> => Len(r) \in 1 .. Len(r) /\ Len(r) + 1 = Len(q)
      BY <1>1
    <3> QED BY <1>1, <2>2, <3>1
  <2>5. Orderly(r, up)
    BY <2>3, <2>4 DEF Orderly
  <2>6. Head(q).type = "down" => IF r = <<>> THEN ~up ELSE Head(r).type = "up"
    <3>1. 1 \in 1 .. Len(q) /\ (r = <<>> <=> 1 = Len(q)) /\ (r # <<>> => 1 \in 1 .. Len(r))
      BY <1>1
    <3>2. r # <<>> => Head(r) = q[1 + 1]
      BY <1>1, <3>1
    <3> QED BY <1>1, <2>1, <3>1, <3>2
  <2>7. Head(q).type # "down" /\ ~up => r # <<>>
    BY <1>1, <2>2
  <2> QED BY <2>5, <2>6, <2>7
<1> QED BY <1>3, <1>4, <1>5, <1>6, <1>7 DEF r

\* What the loss of a link leaves of a queue.
LEMMA QueueCut ==
  ASSUME NEW q \in Seq(Message), NEW r \in Cuts(q), Orderly(q, TRUE)
  PROVE  LET d == Append(r, Down) IN
         /\ Orderly(d, FALSE) /\ d # <<>>
         /\ q # <<>> /\ Head(q).type = "up" => Head(d).type = "up"
<1> DEFINE d == Append(r, Down)
<1>1. PICK j \in 0 .. Len(q) :
        r = SubSeq(q, 1, j) /\ \A k \in j + 1 .. Len(q) : q[k].type \notin {"up", "down"}
  BY DEF Cuts
<1>2. /\ r \in Seq(Message) /\ Len(r) = j /\ Len(q) \in Nat /\ j \in Nat
      /\ \A i \in 1 .. j : r[i] = q[i]
  <2>1. /\ SubSeq(q, 1, j) \in Seq(Message) /\ Len(SubSeq(q, 1, j)) = j
        /\ \A i \in 1 .. j : SubSeq(q, 1, j)[i] = q[i]
    OBVIOUS
  <2> QED BY <1>1, <2>1
<1>3. /\ Len(d) = j + 1 /\ d[j + 1] = Down /\ d \in Seq(Message) /\ d # <<>> /\ Head(d) = d[1]
      /\ \A i \in 1 .. j : d[i] = q[i]
  <2>1. Down \in Message
    BY UpDown
  <2>2. /\ Len(d) = j + 1 /\ d[j + 1] = Down /\ d \in Seq(Message)
        /\ \A i \in 1 .. j : d[i] = r[i]
    BY <1>2, <2>1
  <2>3. d # <<>> /\ Head(d) = d[1]
    <3> HIDE DEF d
    <3>1. Len(d) > 0
      BY <1>2, <2>2
    <3> QED BY <2>2, <3>1
  <2> QED BY <1>2, <2>2, <2>3
<1> HIDE DEF d
<1>4. \A i \in 1 .. Len(q) : q[i].type = "down" => i # Len(q) /\ q[i + 1].type = "up"
  BY DEF Orderly
<1>5. ASSUME NEW i \in 1 .. Len(d), d[i].type = "down"
      PROVE  IF i = Len(d) THEN ~FALSE ELSE d[i + 1].type = "up"
  <2>1. CASE i = Len(d)
    BY <2>1
  <2>2. CASE i # Len(d)
    <3>1. i \in 1 .. j /\ i \in 1 .. Len(q)
      BY <1>1, <1>2, <1>3, <2>2
    <3>2. i + 1 \in 1 .. Len(q) /\ q[i + 1].type = "up"
      BY <1>2, <1>3, <1>4, <1>5, <3>1
    <3>3. i + 1 \in 1 .. j
      <4>1. i + 1 \in j + 1 .. Len(q) \/ i + 1 \in 1 .. j
        BY <1>1, <1>2, <3>1, <3>2
      <4> QED BY <1>1, <3>2, <4>1
    <3> QED BY <1>3, <2>2, <3>2, <3>3
  <2> QED BY <2>1, <2>2
<1>6. Orderly(d, FALSE)
  <2>1. d[Len(d)].type = "down"
    BY <1>2, <1>3, UpDown
  <2> QED BY <1>5, <2>1 DEF Orderly
<1>7. ASSUME q # <<>>, Head(q).type = "up" PROVE Head(d).type = "up"
  <2>1. Head(q) = q[1] /\ 1 \in 1 .. Len(q)
    BY <1>7
  <2>2. 1 \in 1 .. j
    <3>1. 1 \in j + 1 .. Len(q) \/ 1 \in 1 .. j
      BY <1>1, <1>2, <2>1
    <3> QED BY <1>1, <1>7, <2>1, <3>1
  <2> QED BY <1>3, <1>7, <2>1, <2>2
<1> QED BY <1>3, <1>6, <1>7 DEF d

-----------------------------------------------------------------------------
(* The inductive invariant of the handshakes.  It speaks of pairs of nodes; *)
(* most of it follows the queue from one to the other.                      *)

Empty(n, m) == chan[n][m] = <<>>
First(n, m) == Head(chan[n][m]).type
Waits(n, m, t) == HasType(chan[n][m], t)
Recent(n, m, t) == HasNew(chan[n][m], t)

\* n is about to dial m; its transport loop is in the middle of an event of m's.
Dialling(n, m) == finding[n] = [peer |-> m, tracked |-> TRUE]
Does(n, m, s) == job[n].step = s /\ job[n].peer = m

\* Tables and tasks name other nodes; an entry exists as long as it is outbound, and only
\* such an entry is ever disconnected; a discovery makes its entry outbound.
Entries == \A n \in Node :
  /\ ~Linked(n, n) /\ job[n].peer # n /\ n \notin job[n].to /\ n \notin pending[n].to
  /\ \A m \in Node :
       /\ m \in outbound[n] => state[n][m] # "none"
       /\ state[n][m] = "disconnected" => m \in outbound[n]
       /\ finding[n].peer = m => n # m /\ (finding[n].tracked <=> m \in outbound[n])

\* Messages and tasks of n hold changes n has.
OwnEvent(n, e) ==
  /\ e.changes \subseteq db[n]
  /\ e.type \in {"up", "down", "connect"} => e.changes = {}
OwnChanges == \A n \in Node :
  /\ job[n].changes \subseteq db[n] /\ pending[n].changes \subseteq db[n]
  /\ \A m \in Node : \A e \in ToSet(chan[n][m]) : OwnEvent(n, e)

\* The queue from n to m.
InOrder(n, m) == Orderly(chan[n][m], Linked(n, m))

\* Who takes m for connected though it is not will hear of it; once a node has handled
\* the Up of a link it takes the peer for connected.
Told(n, m) ==
  /\ ~Linked(n, m) /\ state[n][m] \in {"connected", "synced"} => ~Empty(m, n) \/ Dialling(n, m)
  /\ ~Linked(n, m) /\ Does(n, m, "mark") => ~Empty(m, n)
  /\ Linked(n, m) /\ ~Waits(m, n, "up") => state[n][m] \in {"connected", "synced"}

\* Between nodes neither of which has discovered the other there never was a link.
Strangers(n, m) ==
  n \notin outbound[m] /\ m \notin outbound[n] =>
    ~Linked(n, m) /\ Empty(n, m) /\ ~Does(n, m, "sync")

\* While m has not discovered n, only n dials; what n does before a new link is over.
OneSided(n, m) == n \notin outbound[m] =>
  /\ state[n][m] = "disconnected" => IF Empty(m, n) THEN ~Linked(n, m) ELSE First(m, n) = "up"
  /\ Dialling(n, m) => Empty(m, n) /\ ~Linked(n, m) /\ state[n][m] # "disconnected"
  /\ state[n][m] = "disconnected" \/ Dialling(n, m) => ~Does(n, m, "sync")

Pair(n, m) == InOrder(n, m) /\ Told(n, m) /\ Strangers(n, m) /\ OneSided(n, m)

\* n's change x is on its way to m.
InQueue(n, m, x) == \E e \in ToSet(chan[n][m]) : x \in e.changes
InJob(n, m, x) ==
  /\ x \in job[n].changes
  /\ Does(n, m, "sync") \/ (job[n].step = "relay" /\ m \in job[n].to)
InPush(n, m, x) == m \in pending[n].to /\ x \in pending[n].changes
Held(n, m, x) ==
  x \in db[m] \cup unsent[n][m] \/ InQueue(n, m, x) \/ InJob(n, m, x) \/ InPush(n, m, x)
Covered(n, m) == \A x \in db[n] : Held(n, m, x)

\* The half of the handshake of n and m in which n sends the Sync.  Before: m has asked
\* or will ask as it has dialled.  After: the Sync was sent on this link and is on its way
\* or done.  In between, when m was dialled: nothing of this link has come, and m will
\* ask when n has.
Asked(n, m) == Waits(m, n, "connect") \/ (Waits(n, m, "up") /\ n \in outbound[m])
Done(n, m) ==
  \/ Recent(n, m, "sync") \/ Does(n, m, "sync")
  \/ ~Waits(n, m, "up") /\ (Does(m, n, "mark") \/ state[m][n] = "synced" \/ n \in replaced[m])
Unsynced(n, m) ==
  /\ ~Recent(n, m, "sync") /\ ~Does(n, m, "sync")
  /\ Waits(n, m, "up") \/ (state[m][n] # "synced" /\ ~Does(m, n, "mark"))
WillConnect(n, m) ==
  \/ Waits(m, n, "up") /\ m \in outbound[n]
  \/ Recent(n, m, "connect")
  \/ ~Waits(n, m, "up") /\ (Does(m, n, "sync") \/ Does(m, n, "back"))
Half(n, m) == Linked(n, m) =>
  Asked(n, m) \/ (Covered(n, m) /\ Done(n, m)) \/ (Unsynced(n, m) /\ WillConnect(n, m))

Handshakes == \A n, m \in Node : Pair(n, m) /\ Half(n, m)

LinkInv == Entries /\ OwnChanges /\ Handshakes

-----------------------------------------------------------------------------
(* How a step changes what is said of one queue. *)

\* A link has two ends.
LEMMA Both == \A n, m : (Linked(n, m) <=> Linked(m, n)) /\ (Linked(n, m)' <=> Linked(m, n)')
<1>1. \A n, m : {n, m} = {m, n}
  OBVIOUS
<1> QED BY <1>1 DEF Linked

\* The queue from n to m stays.
SameQueue(n, m) ==
  /\ Empty(n, m)' <=> Empty(n, m)
  /\ First(n, m)' = First(n, m)
  /\ \A t : (Waits(n, m, t)' <=> Waits(n, m, t)) /\ (Recent(n, m, t)' <=> Recent(n, m, t))

\* A queue that is not touched.
LEMMA QueueStays ==
  ASSUME NEW n, NEW m, chan'[n][m] = chan[n][m]
  PROVE  SameQueue(n, m)
BY DEF SameQueue, Empty, First, Waits, Recent

\* It stays in order as long as the link does.
LEMMA OrderStays ==
  ASSUME NEW n, NEW m, chan'[n][m] = chan[n][m], Linked(n, m)' <=> Linked(n, m), InOrder(n, m)
  PROVE  InOrder(n, m)'
BY DEF InOrder, Orderly

\* An event of type t is added to the queue from n to m.
Longer(n, m, t) ==
  /\ ~Empty(n, m)' /\ First(n, m)' = IF Empty(n, m) THEN t ELSE First(n, m)
  /\ \A u : Waits(n, m, u)' <=> Waits(n, m, u) \/ t = u
  /\ \A u : Recent(n, m, u)' <=> t # "up" /\ (Recent(n, m, u) \/ t = u)

\* The queue stays in order: a message is added on a link only, an Up when there was none.
LEMMA QueueGrows ==
  ASSUME TypeOK, NEW n \in Node, NEW m \in Node, NEW e \in Message,
         chan'[n][m] = Append(chan[n][m], e), InOrder(n, m), Linked(n, m)',
         e.type # "down", Linked(n, m) \/ e.type = "up"
  PROVE  Longer(n, m, e.type) /\ InOrder(n, m)'
<1> DEFINE q == chan[n][m]
           d == chan'[n][m]
<1>1. q \in Seq(Message)
  BY DEF TypeOK
<1>2. /\ d # <<>> /\ Head(d) = IF q = <<>> THEN e ELSE Head(q)
      /\ \A t : HasType(d, t) <=> HasType(q, t) \/ e.type = t
      /\ \A t : HasNew(d, t) <=> e.type # "up" /\ (HasNew(q, t) \/ e.type = t)
      /\ Orderly(q, TRUE) /\ e.type # "down" => Orderly(d, TRUE)
      /\ Orderly(q, FALSE) /\ e.type = "up" => Orderly(d, TRUE)
  <2>1. /\ Append(q, e) # <<>> /\ Head(Append(q, e)) = IF q = <<>> THEN e ELSE Head(q)
        /\ \A t : HasType(Append(q, e), t) <=> HasType(q, t) \/ e.type = t
        /\ \A t : HasNew(Append(q, e), t) <=> e.type # "up" /\ (HasNew(q, t) \/ e.type = t)
        /\ Orderly(q, TRUE) /\ e.type # "down" => Orderly(Append(q, e), TRUE)
        /\ Orderly(q, FALSE) /\ e.type = "up" => Orderly(Append(q, e), TRUE)
    BY <1>1, QueueAppend
  <2>2. d = Append(q, e)
    OBVIOUS
  <2> QED BY <2>1, <2>2
<1>3. Longer(n, m, e.type)
  BY <1>2 DEF Longer, Empty, First, Waits, Recent
<1>4. IF Linked(n, m) THEN Orderly(q, TRUE) ELSE Orderly(q, FALSE)
  BY DEF InOrder, Orderly
<1>5. Orderly(d, TRUE)
  BY <1>2, <1>4
<1> QED BY <1>3, <1>5 DEF InOrder, Orderly

\* m takes the next event of the queue from n.
Shorter(n, m) ==
  /\ \A t : Waits(n, m, t) <=> Waits(n, m, t)' \/ First(n, m) = t
  /\ \A t : Recent(n, m, t)' => Recent(n, m, t)
  /\ \A t : Recent(n, m, t) => Recent(n, m, t)' \/ (First(n, m) = t /\ ~Waits(n, m, "up"))
  /\ First(n, m) = "down" =>
       IF Empty(n, m)' THEN ~Linked(n, m) ELSE First(n, m)' = "up" /\ Waits(n, m, "up")'
  /\ First(n, m) # "down" /\ ~Linked(n, m) => ~Empty(n, m)'

\* A Down that is taken leaves the Up of the next link first, or no link; without a link
\* there is always one more event, the Down, to be taken.
LEMMA QueueShrinks ==
  ASSUME TypeOK, NEW n \in Node, NEW m \in Node, ~Empty(n, m), InOrder(n, m),
         chan'[n][m] = Tail(chan[n][m]), Linked(n, m)' <=> Linked(n, m)
  PROVE  Shorter(n, m) /\ InOrder(n, m)'
<1> DEFINE q == chan[n][m]
           r == chan'[n][m]
<1>1. q \in Seq(Message) /\ q # <<>> /\ Linked(n, m) \in BOOLEAN
  BY DEF TypeOK, Empty, Linked
<1>2. Orderly(q, Linked(n, m))
  BY DEF InOrder
<1>3. /\ \A t : HasType(q, t) <=> HasType(r, t) \/ Head(q).type = t
      /\ \A t : HasNew(r, t) => HasNew(q, t)
      /\ \A t : HasNew(q, t) => HasNew(r, t) \/ (Head(q).type = t /\ ~HasType(q, "up"))
      /\ r # <<>> => HasType(r, Head(r).type)
      /\ Orderly(r, Linked(n, m))
      /\ Head(q).type = "down" => IF r = <<>> THEN ~Linked(n, m) ELSE Head(r).type = "up"
      /\ Head(q).type # "down" /\ ~Linked(n, m) => r # <<>>
  BY <1>1, <1>2, QueueTail
<1>4. Shorter(n, m)
  BY <1>3 DEF Shorter, Empty, First, Waits, Recent
<1>5. InOrder(n, m)'
  BY <1>3 DEF InOrder, Orderly
<1> QED BY <1>4, <1>5

\* What the loss of a link leaves of the queue from n to m.
LEMMA QueueIsCut ==
  ASSUME TypeOK, NEW n \in Node, NEW m \in Node, Linked(n, m), ~Linked(n, m)', InOrder(n, m),
         NEW r \in Cuts(chan[n][m]), chan'[n][m] = Append(r, Down)
  PROVE  /\ InOrder(n, m)' /\ ~Empty(n, m)'
         /\ ~Empty(n, m) /\ First(n, m) = "up" => First(n, m)' = "up"
<1> DEFINE q == chan[n][m]
           d == chan'[n][m]
<1>1. q \in Seq(Message) /\ Orderly(q, TRUE)
  BY DEF TypeOK, InOrder, Orderly
<1>2. /\ Orderly(Append(r, Down), FALSE) /\ Append(r, Down) # <<>>
      /\ q # <<>> /\ Head(q).type = "up" => Head(Append(r, Down)).type = "up"
  BY <1>1, QueueCut
<1>3. InOrder(n, m)'
  BY <1>2 DEF InOrder, Orderly
<1> QED BY <1>2, <1>3 DEF Empty, First

-----------------------------------------------------------------------------
(* The pairs that a step does not touch. *)

\* The step is between n and m only, and of what m holds about n it changes no more
\* than the queue and the link.
Between(n, m) ==
  /\ \A p, q \in Node : ~(p = n /\ q = m) /\ ~(p = m /\ q = n) =>
       chan'[p][q] = chan[p][q] /\ (Linked(p, q)' <=> Linked(p, q))
  /\ \A p, q \in Node : ~(p = n /\ q = m) =>
       /\ state'[p][q] = state[p][q]
       /\ q \in outbound'[p] <=> q \in outbound[p]
       /\ q \in replaced'[p] <=> q \in replaced[p]
       /\ \A s \in {"sync", "back", "mark"} : Does(p, q, s)' <=> Does(p, q, s)
       /\ Dialling(p, q)' <=> Dialling(p, q)

\* The changes of p that q lacks are still accounted for.
Stays(p, q) == Covered(p, q) /\ Linked(p, q)' => Covered(p, q)'

\* What is said of another pair stays.
LEMMA Elsewhere ==
  ASSUME NEW n \in Node, NEW m \in Node, Between(n, m),
         NEW p \in Node, NEW q \in Node, ~(p = n /\ q = m), ~(p = m /\ q = n),
         Pair(p, q), Half(p, q), Stays(p, q)
  PROVE  Pair(p, q)' /\ Half(p, q)'
<1>1. /\ chan'[p][q] = chan[p][q] /\ chan'[q][p] = chan[q][p]
      /\ Linked(p, q)' <=> Linked(p, q)
  BY DEF Between
<1>2. SameQueue(p, q) /\ SameQueue(q, p) /\ InOrder(p, q)'
  BY <1>1, QueueStays, OrderStays DEF Pair
<1>3. /\ state'[p][q] = state[p][q] /\ state'[q][p] = state[q][p]
      /\ q \in outbound'[p] <=> q \in outbound[p]
      /\ p \in outbound'[q] <=> p \in outbound[q]
      /\ p \in replaced'[q] <=> p \in replaced[q]
      /\ \A s \in {"sync", "back", "mark"} : /\ Does(p, q, s)' <=> Does(p, q, s)
                                             /\ Does(q, p, s)' <=> Does(q, p, s)
      /\ Dialling(p, q)' <=> Dialling(p, q)
  BY DEF Between
<1>4. Told(p, q)'
  BY <1>1, <1>2, <1>3 DEF Pair, Told, SameQueue
<1>5. Strangers(p, q)'
  BY <1>1, <1>2, <1>3 DEF Pair, Strangers, SameQueue
<1>6. OneSided(p, q)'
  BY <1>1, <1>2, <1>3 DEF Pair, OneSided, SameQueue
<1>7. /\ Asked(p, q)' <=> Asked(p, q)
      /\ Done(p, q)' <=> Done(p, q)
      /\ Unsynced(p, q)' <=> Unsynced(p, q)
      /\ WillConnect(p, q)' <=> WillConnect(p, q)
  BY <1>2, <1>3 DEF Asked, Done, Unsynced, WillConnect, SameQueue
<1>8. Half(p, q)'
  BY <1>1, <1>7 DEF Half, Stays
<1> QED BY <1>2, <1>4, <1>5, <1>6, <1>8 DEF Pair

-----------------------------------------------------------------------------
(* What the operations on the transport do. *)

\* A pair is equal to another if their nodes are.
LEMMA PairsEqual ==
  ASSUME NEW n, NEW m, NEW p, NEW q
  PROVE  {p, q} = {n, m} <=> (p = n /\ q = m) \/ (p = m /\ q = n)
OBVIOUS

\* A message sent is added to one queue, if the link is up.
LEMMA SendEffect ==
  ASSUME TypeOK, NEW n \in Node, NEW m \in Node, NEW e \in Message, Send(n, m, e)
  PROVE  /\ Linked(n, m) => chan'[n][m] = Append(chan[n][m], e)
         /\ ~Linked(n, m) => chan'[n][m] = chan[n][m]
         /\ \A p, q \in Node : ~(p = n /\ q = m) => chan'[p][q] = chan[p][q]
<1>1. CASE Linked(n, m)
  <2>1. chan' = [chan EXCEPT ![n][m] = Append(chan[n][m], e)]
    BY <1>1 DEF Send, TypeOK
  <2> QED BY <1>1, <2>1 DEF TypeOK
<1>2. CASE ~Linked(n, m)
  BY <1>2 DEF Send
<1> QED BY <1>1, <1>2

\* The event that is taken leaves one queue.
LEMMA PopEffect ==
  ASSUME TypeOK, NEW n \in Node, NEW m \in Node
  PROVE  /\ Popped(n, m)[m][n] = Tail(chan[m][n])
         /\ \A p, q \in Node : ~(p = m /\ q = n) => Popped(n, m)[p][q] = chan[p][q]
BY DEF Popped, TypeOK

\* A new link puts an Up into the two queues of its pair.
LEMMA LinkUpEffect ==
  ASSUME TypeOK, NEW n \in Node, NEW m \in Node, LinkUp(n, m)
  PROVE  /\ n # m /\ chan'[n][m] = Append(chan[n][m], Up) /\ chan'[m][n] = Append(chan[m][n], Up)
         /\ Linked(n, m)' /\ Linked(m, n)'
         /\ \A p, q \in Node : ~(p = n /\ q = m) /\ ~(p = m /\ q = n) =>
              chan'[p][q] = chan[p][q] /\ (Linked(p, q)' <=> Linked(p, q))
<1>1. n # m /\ chan' = [chan EXCEPT ![n][m] = Append(chan[n][m], Up),
                                    ![m][n] = Append(chan[m][n], Up)]
  BY DEF LinkUp, TypeOK
<1>2. /\ chan'[n][m] = Append(chan[n][m], Up) /\ chan'[m][n] = Append(chan[m][n], Up)
      /\ \A p, q \in Node : ~(p = n /\ q = m) /\ ~(p = m /\ q = n) => chan'[p][q] = chan[p][q]
  BY <1>1 DEF TypeOK
<1>3. ASSUME NEW p, NEW q
      PROVE  Linked(p, q)' <=> Linked(p, q) \/ {p, q} = {n, m}
  <2>1. \A s : s \in link' <=> s \in link \/ s = {n, m}
    BY DEF LinkUp
  <2> QED BY <2>1 DEF Linked
<1>4. Linked(n, m)' /\ Linked(m, n)'
  BY <1>3, Both
<1>5. \A p, q \in Node : ~(p = n /\ q = m) /\ ~(p = m /\ q = n) =>
        (Linked(p, q)' <=> Linked(p, q))
  BY <1>3, PairsEqual
<1> QED BY <1>1, <1>2, <1>4, <1>5

\* A lost link puts a Down into both, after what was not lost.
LEMMA LinkDownEffect ==
  ASSUME TypeOK, NEW n \in Node, NEW m \in Node, n # m, LinkDown(n, m)
  PROVE  /\ Linked(n, m) /\ ~Linked(n, m)' /\ ~Linked(m, n)'
         /\ \E q \in Cuts(chan[n][m]) : chan'[n][m] = Append(q, Down)
         /\ \E r \in Cuts(chan[m][n]) : chan'[m][n] = Append(r, Down)
         /\ \A p, q \in Node : ~(p = n /\ q = m) /\ ~(p = m /\ q = n) =>
              chan'[p][q] = chan[p][q] /\ (Linked(p, q)' <=> Linked(p, q))
<1>1. PICK c \in Cuts(chan[n][m]), r \in Cuts(chan[m][n]) :
        chan' = [chan EXCEPT ![n][m] = Append(c, Down), ![m][n] = Append(r, Down)]
  BY DEF LinkDown
<1>2. /\ chan'[n][m] = Append(c, Down) /\ chan'[m][n] = Append(r, Down)
      /\ \A p, q \in Node : ~(p = n /\ q = m) /\ ~(p = m /\ q = n) => chan'[p][q] = chan[p][q]
  BY <1>1 DEF TypeOK
<1>3. ASSUME NEW p, NEW q
      PROVE  Linked(p, q)' <=> Linked(p, q) /\ {p, q} # {n, m}
  <2>1. \A s : s \in link' <=> s \in link /\ s # {n, m}
    BY DEF LinkDown
  <2> QED BY <2>1 DEF Linked
<1>4. Linked(n, m)
  BY DEF LinkDown
<1>5. ~Linked(n, m)' /\ ~Linked(m, n)'
  BY <1>3, Both
<1>6. \A p, q \in Node : ~(p = n /\ q = m) /\ ~(p = m /\ q = n) =>
        (Linked(p, q)' <=> Linked(p, q))
  BY <1>3, PairsEqual
<1> QED BY <1>2, <1>4, <1>5, <1>6

\* A step that changes the task of n only, from or to an event of m's, concerns no other
\* pair.
LEMMA TaskFrame ==
  ASSUME NEW n \in Node, NEW m \in Node,
         \A p \in Node \ {n} : job'[p] = job[p],
         job[n].peer = m \/ job[n].step \notin {"sync", "back", "mark"},
         job'[n].peer = m \/ job'[n].step \notin {"sync", "back", "mark"}
  PROVE  \A p, q \in Node : ~(p = n /\ q = m) =>
           \A s \in {"sync", "back", "mark"} : Does(p, q, s)' <=> Does(p, q, s)
BY DEF Does

\* The same for the discovery loop.
LEMMA FindingFrame ==
  ASSUME NEW n \in Node, NEW m \in Node,
         \A p \in Node \ {n} : finding'[p] = finding[p],
         finding[n].peer \in {m, None}, finding'[n].peer \in {m, None}
  PROVE  \A p, q \in Node : ~(p = n /\ q = m) => (Dialling(p, q)' <=> Dialling(p, q))
BY ConstantsOK DEF Dialling

-----------------------------------------------------------------------------
(* Entries and tasks. *)

\* Discovery, dialling and links keep tables and tasks as they should be.
LEMMA EntriesTransport ==
  ASSUME TypeOK, Entries, NEW n \in Node,
         \/ Track(n) \/ Dial(n) \/ DialFails(n)
         \/ \E m \in Node : Discover(n, m) \/ LinkDown(n, m) \/ Reconnect(n, m)
  PROVE  Entries'
<1>1. UNCHANGED <<job, pending>>
  BY DEF Track, Dial, DialFails, Discover, LinkDown, Reconnect
<1>2. \A p \in Node : ~Linked(p, p)'
  <2>1. CASE Track(n) \/ DialFails(n) \/ \E m \in Node : Discover(n, m)
    BY <2>1 DEF Track, DialFails, Discover, netVars, Entries, Linked
  <2>2. ASSUME NEW m \in Node, LinkUp(n, m) PROVE \A p \in Node : ~Linked(p, p)'
    <3>1. \A p \in Node : ~(p = n /\ p = m)
      BY <2>2 DEF LinkUp
    <3> QED BY <2>2, <3>1, LinkUpEffect DEF Entries
  <2>3. CASE Dial(n)
    <3>1. finding[n].peer \in Node /\ (UNCHANGED netVars \/ LinkUp(n, finding[n].peer))
      BY <2>3 DEF Dial, TypeOK
    <3> QED BY <2>2, <3>1 DEF Entries, netVars, Linked
  <2>4. CASE \E m \in Node : Reconnect(n, m)
    BY <2>2, <2>4 DEF Reconnect
  <2>5. CASE \E m \in Node : LinkDown(n, m)
    BY <2>5 DEF LinkDown, Linked, Entries
  <2> QED BY <2>1, <2>3, <2>4, <2>5
<1> DEFINE Table(p, q) ==
             /\ q \in outbound[p] => state[p][q] # "none"
             /\ state[p][q] = "disconnected" => q \in outbound[p]
             /\ finding[p].peer = q => p # q /\ (finding[p].tracked <=> q \in outbound[p])
<1>3. \A p, q \in Node : Table(p, q)
  BY DEF Entries
<1>4. ASSUME NEW p \in Node, NEW q \in Node PROVE Table(p, q)'
  <2>1. CASE Track(n)
    <3> DEFINE m == finding[n].peer
    <3>1. /\ m \in Node /\ n # m /\ m \notin outbound[n]
          /\ finding' = [finding EXCEPT ![n] = [peer |-> m, tracked |-> TRUE]]
          /\ state' = [state EXCEPT ![n][m] = "connected"]
          /\ outbound' = [outbound EXCEPT ![n] = @ \cup {m}]
      BY <2>1 DEF Track, TypeOK, Entries
    <3> HIDE DEF m
    <3>2. /\ state'[n][m] = "connected" /\ \A r \in Node \ {m} : state'[n][r] = state[n][r]
          /\ outbound'[n] = outbound[n] \cup {m}
          /\ finding'[n].peer = m /\ finding'[n].tracked = TRUE
      BY <3>1 DEF TypeOK
    <3>3. p # n => state'[p] = state[p] /\ outbound'[p] = outbound[p] /\ finding'[p] = finding[p]
      BY <3>1 DEF TypeOK
    <3> QED BY <1>3, <3>1, <3>2, <3>3
  <2>2. CASE Dial(n)
    <3>1. /\ UNCHANGED <<state, outbound>> /\ finding' = [finding EXCEPT ![n] = Nobody]
      BY <2>2 DEF Dial, tableVars
    <3>2. finding'[n].peer \notin Node /\ (p # n => finding'[p] = finding[p])
      BY <3>1, ConstantsOK DEF TypeOK, Nobody
    <3> QED BY <1>3, <3>1, <3>2
  <2>3. CASE DialFails(n)
    <3> DEFINE m == finding[n].peer
    <3>1. /\ m \in Node /\ finding[n].tracked
          /\ finding' = [finding EXCEPT ![n] = Nobody] /\ outbound' = outbound
          /\ state' = [state EXCEPT ![n][m] = IF @ = "none" THEN @ ELSE "disconnected"]
      BY <2>3 DEF DialFails, TypeOK
    <3>2. m \in outbound[n]
      BY <3>1 DEF Entries
    <3> HIDE DEF m
    <3>3. finding'[n].peer \notin Node /\ (p # n => finding'[p] = finding[p])
      BY <3>1, ConstantsOK DEF TypeOK, Nobody
    <3>4. /\ state'[n][m] = IF state[n][m] = "none" THEN "none" ELSE "disconnected"
          /\ ~(p = n /\ q = m) => state'[p][q] = state[p][q]
      BY <3>1 DEF TypeOK
    <3> QED BY <1>3, <3>1, <3>2, <3>3, <3>4
  <2>4. ASSUME NEW m \in Node, Discover(n, m) PROVE Table(p, q)'
    <3>1. /\ <<n, m>> \in Discovers /\ state[n][m] = "none" /\ UNCHANGED <<state, outbound>>
          /\ finding' = [finding EXCEPT ![n] = [peer |-> m, tracked |-> FALSE]]
      BY <2>4 DEF Discover, tableVars
    <3>2. n # m /\ m \notin outbound[n]
      BY <1>3, <3>1, ConstantsOK
    <3>3. /\ finding'[n].peer = m /\ finding'[n].tracked = FALSE
          /\ p # n => finding'[p] = finding[p]
      BY <3>1 DEF TypeOK
    <3> QED BY <1>3, <3>1, <3>2, <3>3
  <2>5. CASE \E m \in Node : LinkDown(n, m) \/ Reconnect(n, m)
    BY <1>3, <2>5 DEF LinkDown, Reconnect, tableVars
  <2> QED BY <2>1, <2>2, <2>3, <2>4, <2>5
<1> QED BY <1>1, <1>2, <1>4 DEF Entries

\* What the others keep when n handles an event or goes on with it.
LEMMA EntriesLoop ==
  ASSUME TypeOK, Entries, NEW n \in Node, NEW m \in Node,
         UNCHANGED <<link, finding>>,
         \A p \in Node \ {n} : job'[p] = job[p] /\ pending'[p] = pending[p],
         job'[n].peer # n /\ n \notin job'[n].to /\ n \notin pending'[n].to,
         outbound' = outbound,
         \A p, q \in Node : ~(p = n /\ q = m) => state'[p][q] = state[p][q],
         m \in outbound[n] => state'[n][m] # "none",
         state'[n][m] = "disconnected" => m \in outbound[n]
  PROVE  Entries'
<1>1. \A p \in Node : ~Linked(p, p)'
  BY DEF Entries, Linked
<1>2. \A p \in Node : job'[p].peer # p /\ p \notin job'[p].to /\ p \notin pending'[p].to
  BY DEF Entries
<1>3. ASSUME NEW p \in Node, NEW q \in Node
      PROVE  /\ q \in outbound'[p] => state'[p][q] # "none"
             /\ state'[p][q] = "disconnected" => q \in outbound'[p]
             /\ finding'[p].peer = q => p # q /\ (finding'[p].tracked <=> q \in outbound'[p])
  <2>1. /\ q \in outbound[p] => state[p][q] # "none"
        /\ state[p][q] = "disconnected" => q \in outbound[p]
        /\ finding[p].peer = q => p # q /\ (finding[p].tracked <=> q \in outbound[p])
    BY DEF Entries
  <2> QED BY <2>1
<1> QED BY <1>1, <1>2, <1>3 DEF Entries

\* An entry that n does not hold is not outbound, so that making it anew takes nothing
\* from outbound.
LEMMA ConnectedTable ==
  ASSUME TypeOK, Entries, NEW n \in Node, NEW m \in Node, HandleConnected(n, m)
  PROVE  /\ outbound' = outbound /\ state'[n][m] = "connected"
         /\ \A p, q \in Node : ~(p = n /\ q = m) => state'[p][q] = state[p][q]
<1>1. state[n][m] = "none" => m \notin outbound[n]
  BY DEF Entries
<1>2. outbound' = outbound
  <2>1. CASE state[n][m] = "none"
    <3>1. outbound' = [outbound EXCEPT ![n] = outbound[n] \ {m}] /\ outbound[n] \ {m} = outbound[n]
      BY <1>1, <2>1 DEF HandleConnected
    <3> QED BY <3>1 DEF TypeOK
  <2>2. CASE state[n][m] # "none"
    BY <2>2 DEF HandleConnected
  <2> QED BY <2>1, <2>2
<1>3. state' = [state EXCEPT ![n][m] = "connected"]
  BY DEF HandleConnected
<1> QED BY <1>2, <1>3 DEF TypeOK

\* Outbound entries are kept as disconnected, the others are removed.
LEMMA DisconnectedTable ==
  ASSUME TypeOK, Entries, NEW n \in Node, NEW m \in Node, HandleDisconnected(n, m)
  PROVE  /\ outbound' = outbound
         /\ state'[n][m] = IF m \in outbound[n] THEN "disconnected" ELSE "none"
         /\ \A p, q \in Node : ~(p = n /\ q = m) => state'[p][q] = state[p][q]
<1>1. m \in outbound[n] => state[n][m] # "none"
  BY DEF Entries
<1>2. /\ outbound' = outbound
      /\ state' = [state EXCEPT ![n][m] =
                     IF @ # "none" /\ m \in outbound[n] THEN "disconnected" ELSE "none"]
  BY DEF HandleDisconnected
<1> QED BY <1>1, <1>2 DEF TypeOK

\* A mark makes no entry.
LEMMA MarkedTable ==
  ASSUME TypeOK, Entries, NEW n \in Node, NEW m \in Node, m = job[n].peer, MarkSynced(n)
  PROVE  /\ outbound' = outbound
         /\ state'[n][m] = IF state[n][m] = "none" THEN "none" ELSE "synced"
         /\ \A p, q \in Node : ~(p = n /\ q = m) => state'[p][q] = state[p][q]
BY DEF MarkSynced, TypeOK

\* The task that a Connect leaves to the transport loop.
LEMMA ConnectTask ==
  ASSUME TypeOK, NEW n \in Node, NEW m \in Node, HandleConnect(n, m)
  PROVE  /\ job[n] = Idle /\ UNCHANGED pending
         /\ job'[n].step = "sync" /\ job'[n].peer = m /\ job'[n].to = {}
         /\ job'[n].changes = Since(db[n], Head(chan[m][n]).heads)
         /\ \A p \in Node \ {n} : job'[p] = job[p]
<1> DEFINE S == Since(db[n], Head(chan[m][n]).heads)
           j == [Idle EXCEPT !.step = "sync", !.peer = m, !.changes = S]
<1>1. job' = [job EXCEPT ![n] = j] /\ job[n] = Idle /\ UNCHANGED pending
  BY DEF HandleConnect, Receives
<1> HIDE DEF S
<1>2. j.step = "sync" /\ j.peer = m /\ j.to = {} /\ j.changes = S
  BY DEF Idle
<1> HIDE DEF j
<1> QED BY <1>1, <1>2 DEF TypeOK, S

\* The task of the transport loop after each step of it.
LEMMA TaskEffect ==
  ASSUME TypeOK, NEW n \in Node, NEW m \in Node
  PROVE  /\ Idle.step = "idle" /\ Idle.peer = None /\ Idle.to = {} /\ Idle.changes = {}
         /\ HandleConnected(n, m) \/ HandleDisconnected(n, m) =>
              job[n] = Idle /\ UNCHANGED <<job, pending>>
         /\ HandleConnect(n, m) =>
              /\ job[n] = Idle /\ UNCHANGED pending
              /\ job'[n].step = "sync" /\ job'[n].peer = m /\ job'[n].to = {}
              /\ job'[n].changes = Since(db[n], Head(chan[m][n]).heads)
              /\ \A p \in Node \ {n} : job'[p] = job[p]
         /\ HandleSync(n, m) =>
              /\ job[n] = Idle /\ UNCHANGED pending
              /\ job'[n].step = "mark" /\ job'[n].peer = m /\ job'[n].to = {}
              /\ job'[n].changes = Head(chan[m][n]).changes
              /\ \A p \in Node \ {n} : job'[p] = job[p]
         /\ HandlePush(n, m) =>
              /\ job[n] = Idle /\ UNCHANGED pending
              /\ IF Node \ {n, m} = {} THEN job'[n] = Idle
                 ELSE /\ job'[n].step = "relay" /\ job'[n].peer = m
                      /\ job'[n].to = Node \ {n, m}
                      /\ job'[n].changes = Head(chan[m][n]).changes
              /\ \A p \in Node \ {n} : job'[p] = job[p]
<1>1. Idle.step = "idle" /\ Idle.peer = None /\ Idle.to = {} /\ Idle.changes = {}
  BY DEF Idle
<1>2. HandleConnected(n, m) \/ HandleDisconnected(n, m) =>
        job[n] = Idle /\ UNCHANGED <<job, pending>>
  BY DEF HandleConnected, HandleDisconnected, Receives
<1>3. HandleConnect(n, m) =>
        /\ job[n] = Idle /\ UNCHANGED pending
        /\ job'[n].step = "sync" /\ job'[n].peer = m /\ job'[n].to = {}
        /\ job'[n].changes = Since(db[n], Head(chan[m][n]).heads)
        /\ \A p \in Node \ {n} : job'[p] = job[p]
  BY ConnectTask
<1>4. ASSUME HandleSync(n, m)
      PROVE  /\ job[n] = Idle /\ UNCHANGED pending
             /\ job'[n].step = "mark" /\ job'[n].peer = m /\ job'[n].to = {}
             /\ job'[n].changes = Head(chan[m][n]).changes
             /\ \A p \in Node \ {n} : job'[p] = job[p]
  <2> DEFINE S == Head(chan[m][n]).changes
             j == [Idle EXCEPT !.step = "mark", !.peer = m, !.changes = S]
  <2>1. job' = [job EXCEPT ![n] = j] /\ job[n] = Idle /\ UNCHANGED pending
    BY <1>4 DEF HandleSync, Receives
  <2> HIDE DEF S
  <2>2. j.step = "mark" /\ j.peer = m /\ j.to = {} /\ j.changes = S
    BY DEF Idle
  <2> HIDE DEF j
  <2> QED BY <2>1, <2>2 DEF TypeOK, S
<1>5. ASSUME HandlePush(n, m)
      PROVE  /\ job[n] = Idle /\ UNCHANGED pending
             /\ IF Node \ {n, m} = {} THEN job'[n] = Idle
                ELSE /\ job'[n].step = "relay" /\ job'[n].peer = m
                     /\ job'[n].to = Node \ {n, m}
                     /\ job'[n].changes = Head(chan[m][n]).changes
             /\ \A p \in Node \ {n} : job'[p] = job[p]
  <2> DEFINE S == Head(chan[m][n]).changes
             j == Relaying(m, S, Fresh(db[n], S) # {}, Node \ {n, m})
  <2>1. job' = [job EXCEPT ![n] = j] /\ job[n] = Idle /\ UNCHANGED pending
    BY <1>5 DEF HandlePush, Receives
  <2> HIDE DEF S
  <2>2. IF Node \ {n, m} = {} THEN j = Idle
        ELSE j.step = "relay" /\ j.peer = m /\ j.to = Node \ {n, m} /\ j.changes = S
    BY DEF Relaying
  <2> HIDE DEF j
  <2> QED BY <2>1, <2>2 DEF TypeOK, S
<1> QED BY <1>1, <1>2, <1>3, <1>4, <1>5

\* The tasks after each step that goes on with one.
LEMMA TaskContinues ==
  ASSUME TypeOK, NEW n \in Node, NEW m \in Node
  PROVE  /\ SendSync(n) =>
              /\ IF Linked(n, job[n].peer) THEN /\ job'[n].step = "back"
                                                /\ job'[n].peer = job[n].peer
                                                /\ job'[n].to = job[n].to
                                                /\ job'[n].changes = job[n].changes
                 ELSE job'[n] = Idle
              /\ UNCHANGED pending /\ \A p \in Node \ {n} : job'[p] = job[p]
         /\ ConnectBack(n) \/ MarkSynced(n) =>
              /\ job'[n] = Idle
              /\ UNCHANGED pending /\ \A p \in Node \ {n} : job'[p] = job[p]
         /\ Relay(n, m) =>
              /\ IF job[n].to \ {m} = {} THEN job'[n] = Idle
                 ELSE /\ job'[n].step = "relay" /\ job'[n].peer = job[n].peer
                      /\ job'[n].to = job[n].to \ {m} /\ job'[n].changes = job[n].changes
              /\ UNCHANGED pending /\ \A p \in Node \ {n} : job'[p] = job[p]
         /\ PushLocal(n, m) =>
              /\ pending'[n].to = pending[n].to \ {m}
              /\ pending'[n].to # {} => pending'[n].changes = pending[n].changes
              /\ pending'[n].to = {} => pending'[n].changes = {}
              /\ UNCHANGED job /\ \A p \in Node \ {n} : pending'[p] = pending[p]
<1>1. ASSUME SendSync(n)
      PROVE  /\ IF Linked(n, job[n].peer) THEN /\ job'[n].step = "back"
                                               /\ job'[n].peer = job[n].peer
                                               /\ job'[n].to = job[n].to
                                               /\ job'[n].changes = job[n].changes
                ELSE job'[n] = Idle
             /\ UNCHANGED pending /\ \A p \in Node \ {n} : job'[p] = job[p]
  <2>1. job'[n] = IF Linked(n, job[n].peer) THEN [job[n] EXCEPT !.step = "back"] ELSE Idle
    BY <1>1 DEF SendSync, TypeOK
  <2>2. job[n] \in Jobs
    BY DEF TypeOK, Jobs
  <2>3. UNCHANGED pending /\ \A p \in Node \ {n} : job'[p] = job[p]
    BY <1>1 DEF SendSync, TypeOK
  <2> QED BY <2>1, <2>2, <2>3 DEF Jobs
<1>2. ConnectBack(n) \/ MarkSynced(n) =>
        job'[n] = Idle /\ UNCHANGED pending /\ \A p \in Node \ {n} : job'[p] = job[p]
  BY DEF ConnectBack, MarkSynced, TypeOK
<1>3. ASSUME Relay(n, m)
      PROVE  /\ IF job[n].to \ {m} = {} THEN job'[n] = Idle
                ELSE /\ job'[n].step = "relay" /\ job'[n].peer = job[n].peer
                     /\ job'[n].to = job[n].to \ {m} /\ job'[n].changes = job[n].changes
             /\ UNCHANGED pending /\ \A p \in Node \ {n} : job'[p] = job[p]
  <2> DEFINE j == Relaying(job[n].peer, job[n].changes, job[n].fresh, job[n].to \ {m})
  <2>1. job' = [job EXCEPT ![n] = j] /\ UNCHANGED pending
    BY <1>3 DEF Relay
  <2>2. IF job[n].to \ {m} = {} THEN j = Idle
        ELSE /\ j.step = "relay" /\ j.peer = job[n].peer
             /\ j.to = job[n].to \ {m} /\ j.changes = job[n].changes
    BY DEF Relaying
  <2> HIDE DEF j
  <2> QED BY <2>1, <2>2 DEF TypeOK
<1>4. ASSUME PushLocal(n, m)
      PROVE  /\ pending'[n].to = pending[n].to \ {m}
             /\ pending'[n].to # {} => pending'[n].changes = pending[n].changes
             /\ pending'[n].to = {} => pending'[n].changes = {}
             /\ UNCHANGED job /\ \A p \in Node \ {n} : pending'[p] = pending[p]
  <2>1. /\ pending'[n] = Push(pending[n].changes, pending[n].to \ {m})
        /\ UNCHANGED job /\ \A p \in Node \ {n} : pending'[p] = pending[p]
    BY <1>4 DEF PushLocal, TypeOK
  <2> QED BY <2>1 DEF Push
<1> QED BY <1>1, <1>2, <1>3, <1>4

\* Every step keeps tables and tasks as they should be.
LEMMA EntriesStep ==
  ASSUME TypeOK, Entries, [Next]_vars
  PROVE  Entries'
<1> DEFINE OtherTasks(n) ==
             /\ \A p \in Node \ {n} : job'[p] = job[p] /\ pending'[p] = pending[p]
             /\ job'[n].peer # n /\ n \notin job'[n].to /\ n \notin pending'[n].to
<1>1. CASE UNCHANGED vars
  BY <1>1 DEF vars, tableVars, netVars, Entries, Linked
<1>2. ASSUME NEW n \in Node, NEW m \in Node, Handle(n, m) PROVE Entries'
  <2>1. n # m /\ UNCHANGED <<link, finding>>
    BY <1>2 DEF Handle, HandleConnected, HandleDisconnected, HandleConnect, HandleSync,
                HandlePush, Receives
  <2>2. OtherTasks(n)
    <3>1. job[n].peer # n /\ n \notin job[n].to /\ n \notin pending[n].to
      BY DEF Entries
    <3>2. CASE HandleConnected(n, m) \/ HandleDisconnected(n, m)
      BY <3>1, <3>2, TaskEffect
    <3>3. CASE HandleConnect(n, m)
      BY <2>1, <3>1, <3>3, ConnectTask
    <3>4. CASE HandleSync(n, m) \/ HandlePush(n, m)
      BY <2>1, <3>1, <3>4, TaskEffect, ConstantsOK
    <3> QED BY <1>2, <3>2, <3>3, <3>4 DEF Handle
  <2>3. CASE HandleConnected(n, m)
    <3>1. /\ outbound' = outbound /\ state'[n][m] = "connected"
          /\ \A p, q \in Node : ~(p = n /\ q = m) => state'[p][q] = state[p][q]
      BY <2>3, ConnectedTable
    <3> QED BY <2>1, <2>2, <3>1, EntriesLoop
  <2>4. CASE HandleDisconnected(n, m)
    <3>1. /\ outbound' = outbound
          /\ state'[n][m] = IF m \in outbound[n] THEN "disconnected" ELSE "none"
          /\ \A p, q \in Node : ~(p = n /\ q = m) => state'[p][q] = state[p][q]
      BY <2>4, DisconnectedTable
    <3> QED BY <2>1, <2>2, <3>1, EntriesLoop
  <2>5. CASE HandleConnect(n, m) \/ HandleSync(n, m) \/ HandlePush(n, m)
    <3>1. UNCHANGED <<state, outbound>>
      BY <2>5 DEF HandleConnect, HandleSync, HandlePush, tableVars
    <3>2. /\ m \in outbound[n] => state[n][m] # "none"
          /\ state[n][m] = "disconnected" => m \in outbound[n]
      BY DEF Entries
    <3> QED BY <2>1, <2>2, <3>1, <3>2, EntriesLoop
  <2> QED BY <1>2, <2>3, <2>4, <2>5 DEF Handle
<1>3. ASSUME NEW n \in Node, NEW m \in Node, UNCHANGED <<state, outbound, link, finding>>,
             OtherTasks(n)
      PROVE  Entries'
  <2>1. /\ m \in outbound[n] => state[n][m] # "none"
        /\ state[n][m] = "disconnected" => m \in outbound[n]
    BY DEF Entries
  <2> QED BY <1>3, <2>1, EntriesLoop
<1>4. ASSUME NEW n \in Node, SendSync(n) \/ ConnectBack(n) PROVE Entries'
  <2>1. UNCHANGED <<state, outbound, link, finding>>
    BY <1>4 DEF SendSync, ConnectBack, tableVars
  <2>2. OtherTasks(n)
    BY <1>4, TaskContinues, TaskEffect, ConstantsOK DEF Entries
  <2> QED BY <1>3, <2>1, <2>2
<1>5. ASSUME NEW n \in Node, MarkSynced(n) PROVE Entries'
  <2>1. PICK m \in Node : m = job[n].peer
    BY <1>5 DEF MarkSynced, TypeOK
  <2>2. UNCHANGED <<link, finding>>
    BY <1>5 DEF MarkSynced, netVars
  <2>3. OtherTasks(n)
    BY <1>5, TaskContinues, TaskEffect, ConstantsOK DEF Entries
  <2>4. /\ outbound' = outbound
        /\ state'[n][m] = IF state[n][m] = "none" THEN "none" ELSE "synced"
        /\ \A p, q \in Node : ~(p = n /\ q = m) => state'[p][q] = state[p][q]
    BY <1>5, <2>1, MarkedTable
  <2>5. m \in outbound[n] => state[n][m] # "none"
    BY DEF Entries
  <2> QED BY <2>2, <2>3, <2>4, <2>5, EntriesLoop
<1>6. ASSUME NEW n \in Node, NEW m \in Node, Relay(n, m) \/ PushLocal(n, m) PROVE Entries'
  <2>1. UNCHANGED <<state, outbound, link, finding>>
    BY <1>6 DEF Relay, PushLocal, tableVars
  <2>2. OtherTasks(n)
    BY <1>6, TaskContinues, TaskEffect, ConstantsOK DEF Entries
  <2> QED BY <1>3, <2>1, <2>2
<1>7. ASSUME NEW n \in Node, NEW x \in Change, Write(n, x) PROVE Entries'
  <2>1. UNCHANGED <<state, outbound, link, finding, job>>
    BY <1>7 DEF Write, tableVars, netVars
  <2>2. /\ pending'[n].to \subseteq Others(n)
        /\ \A p \in Node \ {n} : pending'[p] = pending[p]
    BY <1>7 DEF Write, TypeOK, Push
  <2>3. OtherTasks(n)
    BY <2>1, <2>2 DEF Entries, Others
  <2> QED BY <1>3, <2>1, <2>3
<1> QED BY <1>1, <1>2, <1>4, <1>5, <1>6, <1>7, EntriesTransport
        DEF Next, Loop, Continue, Connecting, Pushing

-----------------------------------------------------------------------------
(* Whose changes messages and tasks hold. *)

\* Documents only grow; what a step adds to queues and tasks must be there.
LEMMA OwnKeeps ==
  ASSUME OwnChanges, \A p \in Node : db[p] \subseteq db'[p],
         \A p \in Node : job'[p].changes \subseteq db'[p] /\ pending'[p].changes \subseteq db'[p],
         \A p, q \in Node : \A e \in ToSet(chan'[p][q]) :
           e \in ToSet(chan[p][q]) \/ (OwnEvent(p, e) /\ db'[p] = db[p])
  PROVE  OwnChanges'
<1>1. ASSUME NEW p \in Node, NEW q \in Node, NEW e \in ToSet(chan'[p][q])
      PROVE  OwnEvent(p, e)'
  <2>1. OwnEvent(p, e)
    BY <1>1 DEF OwnChanges
  <2> QED BY <2>1 DEF OwnEvent
<1> QED BY <1>1 DEF OwnChanges

\* Documents grow at the node that acts only.
LEMMA DocumentsGrow ==
  ASSUME TypeOK, [Next]_vars
  PROVE  \A p \in Node : db[p] \subseteq db'[p]
<1>1. ASSUME NEW n \in Node, NEW m \in Node, Handle(n, m)
      PROVE  \A p \in Node : db[p] \subseteq db'[p]
  <2>1. CASE HandleConnected(n, m) \/ HandleDisconnected(n, m) \/ HandleConnect(n, m)
    BY <2>1 DEF HandleConnected, HandleDisconnected, HandleConnect, docVars
  <2>2. CASE HandleSync(n, m) \/ HandlePush(n, m)
    <3>1. db' = [db EXCEPT ![n] = @ \cup Head(chan[m][n]).changes]
      BY <2>2 DEF HandleSync, HandlePush
    <3> QED BY <3>1 DEF TypeOK
  <2> QED BY <1>1, <2>1, <2>2 DEF Handle
<1>2. ASSUME NEW n \in Node, Continue(n) \/ Connecting(n) \/ Pushing(n) \/ DialFails(n)
                             \/ \E m \in Node : Discover(n, m) \/ LinkDown(n, m)
      PROVE  \A p \in Node : db[p] \subseteq db'[p]
  BY <1>2 DEF Continue, SendSync, ConnectBack, MarkSynced, Relay, Connecting, Track, Dial,
              Reconnect, Pushing, PushLocal, DialFails, Discover, LinkDown, docVars
<1>3. ASSUME NEW n \in Node, NEW x \in Change, Write(n, x)
      PROVE  \A p \in Node : db[p] \subseteq db'[p]
  BY <1>3 DEF Write, TypeOK
<1> QED BY <1>1, <1>2, <1>3 DEF Next, Loop, vars, docVars

\* In every step messages and tasks hold changes of their sender's.
LEMMA OwnStep ==
  ASSUME TypeOK, OwnChanges, [Next]_vars
  PROVE  OwnChanges'
<1>0. \A p \in Node : /\ db[p] \subseteq db'[p]
                      /\ job[p].changes \subseteq db'[p] /\ pending[p].changes \subseteq db'[p]
  BY DocumentsGrow DEF OwnChanges
<1>1. CASE UNCHANGED vars
  BY <1>1 DEF vars, docVars, netVars, OwnChanges, OwnEvent
<1>2. ASSUME NEW n \in Node, NEW m \in Node, Handle(n, m) PROVE OwnChanges'
  <2> DEFINE e == Head(chan[m][n])
  <2>1. chan[m][n] # <<>>
    BY <1>2 DEF Handle, HandleConnected, HandleDisconnected, HandleConnect, HandleSync,
                HandlePush, Receives
  <2>2. /\ e \in ToSet(chan[m][n]) /\ Popped(n, m) \in Channels
        /\ \A p, q \in Node : ToSet(Popped(n, m)[p][q]) \subseteq ToSet(chan[p][q])
    BY <2>1, Popping
  <2> HIDE DEF e
  <2>3. CASE HandleConnected(n, m)
    <3>1. UNCHANGED <<db, job, pending>>
      BY <2>3 DEF HandleConnected, docVars
    <3>2. \A p, q \in Node : \A f \in ToSet(chan'[p][q]) :
            f \in ToSet(chan[p][q]) \/ OwnEvent(p, f)
      <4>1. CASE chan' = Popped(n, m)
        BY <2>2, <4>1
      <4>2. CASE chan' = [Popped(n, m) EXCEPT ![n][m] = Append(@, ConnectMsg(n))]
        <5>1. \A p, q \in Node : ToSet(chan'[p][q]) \subseteq
                ToSet(Popped(n, m)[p][q]) \cup {ConnectMsg(n)}
          BY <2>2, <4>2, ConnectType, Appending
        <5>2. \A p : OwnEvent(p, ConnectMsg(n))
          BY ConnectType DEF OwnEvent
        <5> QED BY <2>2, <5>1, <5>2
      <4> QED BY <2>3, <4>1, <4>2 DEF HandleConnected
    <3> QED BY <1>0, <3>1, <3>2, OwnKeeps
  <2>4. CASE HandleDisconnected(n, m)
    <3>1. UNCHANGED <<db, job, pending>> /\ chan' = Popped(n, m)
      BY <2>4 DEF HandleDisconnected, docVars
    <3> QED BY <1>0, <2>2, <3>1, OwnKeeps
  <2>5. CASE HandleConnect(n, m)
    <3>1. UNCHANGED db /\ chan' = Popped(n, m)
      BY <2>5 DEF HandleConnect, docVars
    <3>2. job'[n].changes \subseteq db[n]
      <4>1. job'[n].changes = Since(db[n], Head(chan[m][n]).heads)
        BY <2>5, ConnectTask
      <4> QED BY <4>1 DEF Since, Applied
    <3>3. \A p \in Node : job'[p].changes \subseteq db'[p] /\ pending'[p].changes \subseteq db'[p]
      BY <1>0, <2>5, <3>1, <3>2, TaskEffect
    <3> QED BY <1>0, <2>2, <3>1, <3>3, OwnKeeps
  <2>6. CASE HandleSync(n, m) \/ HandlePush(n, m)
    <3>1. db'[n] = db[n] \cup e.changes /\ chan' = Popped(n, m)
      BY <2>6 DEF HandleSync, HandlePush, TypeOK, e
    <3>2. job'[n].changes \subseteq e.changes
      BY <2>6, TaskEffect DEF e
    <3>3. \A p \in Node : job'[p].changes \subseteq db'[p] /\ pending'[p].changes \subseteq db'[p]
      BY <1>0, <2>6, <3>1, <3>2, TaskEffect
    <3> QED BY <1>0, <2>2, <3>1, <3>3, OwnKeeps
  <2> QED BY <1>2, <2>3, <2>4, <2>5, <2>6 DEF Handle
<1>3. ASSUME NEW n \in Node, SendSync(n) PROVE OwnChanges'
  <2> DEFINE S == job[n].changes
  <2>1. job[n].peer \in Node /\ S \in SUBSET Change /\ S \subseteq db[n]
    BY <1>3 DEF SendSync, TypeOK, OwnChanges
  <2>2. Event("sync", {}, S) \in Message /\ OwnEvent(n, Event("sync", {}, S))
    BY <2>1, MessageTypes DEF OwnEvent
  <2>3. \A p, q \in Node :
          ToSet(chan'[p][q]) \subseteq ToSet(chan[p][q]) \cup {Event("sync", {}, S)}
    BY <1>3, <2>1, <2>2, Sending DEF SendSync
  <2>4. \A p, q \in Node : p # n => chan'[p][q] = chan[p][q]
    BY <1>3 DEF SendSync, Send, TypeOK
  <2>5. UNCHANGED db
    BY <1>3 DEF SendSync, docVars
  <2>6. \A p, q \in Node : \A f \in ToSet(chan'[p][q]) : f \in ToSet(chan[p][q]) \/ OwnEvent(p, f)
    BY <2>2, <2>3, <2>4
  <2>7. \A p \in Node : job'[p].changes \subseteq db'[p] /\ pending'[p].changes \subseteq db'[p]
    BY <1>0, <1>3, TaskContinues, TaskEffect
  <2> QED BY <1>0, <2>5, <2>6, <2>7, OwnKeeps
<1>4. ASSUME NEW n \in Node, ConnectBack(n) PROVE OwnChanges'
  <2>1. job[n].peer \in Node
    BY <1>4 DEF ConnectBack, TypeOK
  <2>2. \A p, q \in Node : ToSet(chan'[p][q]) \subseteq ToSet(chan[p][q]) \cup {ConnectMsg(n)}
    <3>1. CASE UNCHANGED chan
      BY <3>1
    <3>2. CASE Send(n, job[n].peer, ConnectMsg(n))
      BY <2>1, <3>2, ConnectType, Sending
    <3> QED BY <1>4, <3>1, <3>2 DEF ConnectBack
  <2>3. \A p : OwnEvent(p, ConnectMsg(n))
    BY ConnectType DEF OwnEvent
  <2>4. UNCHANGED db
    BY <1>4 DEF ConnectBack, docVars
  <2>5. \A p \in Node : job'[p].changes \subseteq db'[p] /\ pending'[p].changes \subseteq db'[p]
    BY <1>0, <1>4, TaskContinues, TaskEffect
  <2> QED BY <1>0, <2>2, <2>3, <2>4, <2>5, OwnKeeps
<1>5. ASSUME NEW n \in Node, MarkSynced(n) PROVE OwnChanges'
  <2>1. UNCHANGED <<db, chan>>
    BY <1>5 DEF MarkSynced, docVars, netVars
  <2>2. \A p \in Node : job'[p].changes \subseteq db'[p] /\ pending'[p].changes \subseteq db'[p]
    BY <1>0, <1>5, TaskContinues, TaskEffect
  <2> QED BY <1>0, <2>1, <2>2, OwnKeeps
<1>6. ASSUME NEW n \in Node, NEW m \in Node, NEW S \in SUBSET Change, NEW fresh, S \subseteq db[n],
             Offer(n, m, S, fresh), UNCHANGED db,
             \A p \in Node : /\ job'[p].changes \subseteq db'[p]
                             /\ pending'[p].changes \subseteq db'[p]
      PROVE  OwnChanges'
  <2>1. OwnEvent(n, Event("push", {}, S))
    BY <1>6, MessageTypes DEF OwnEvent
  <2>2. \A p, q \in Node :
          ToSet(chan'[p][q]) \subseteq ToSet(chan[p][q]) \cup {Event("push", {}, S)}
    BY <1>6, Offering
  <2>3. \A p, q \in Node : p # n => chan'[p][q] = chan[p][q]
    <3>1. CASE Takes(n, m, fresh) /\ Linked(n, m)
      BY <1>6, <3>1 DEF Offer, Send, TypeOK
    <3>2. CASE ~(Takes(n, m, fresh) /\ Linked(n, m))
      BY <1>6, <3>2 DEF Offer
    <3> QED BY <3>1, <3>2
  <2>4. \A p, q \in Node : \A f \in ToSet(chan'[p][q]) : f \in ToSet(chan[p][q]) \/ OwnEvent(p, f)
    BY <2>1, <2>2, <2>3
  <2> QED BY <1>0, <1>6, <2>4, OwnKeeps
<1>7. ASSUME NEW n \in Node, NEW m \in Node, Relay(n, m) PROVE OwnChanges'
  <2>1. /\ UNCHANGED db /\ job[n].changes \in SUBSET Change /\ job[n].changes \subseteq db[n]
        /\ Offer(n, m, job[n].changes, job[n].fresh)
    BY <1>7 DEF Relay, docVars, TypeOK, OwnChanges
  <2>2. \A p \in Node : job'[p].changes \subseteq db'[p] /\ pending'[p].changes \subseteq db'[p]
    BY <1>0, <1>7, TaskContinues, TaskEffect
  <2> QED BY <1>6, <2>1, <2>2
<1>8. ASSUME NEW n \in Node, NEW m \in Node, PushLocal(n, m) PROVE OwnChanges'
  <2>1. /\ UNCHANGED db
        /\ pending[n].changes \in SUBSET Change /\ pending[n].changes \subseteq db[n]
        /\ Offer(n, m, pending[n].changes, TRUE)
    BY <1>8 DEF PushLocal, docVars, TypeOK, OwnChanges
  <2>2. \A p \in Node : job'[p].changes \subseteq db'[p] /\ pending'[p].changes \subseteq db'[p]
    BY <1>0, <1>8, TaskContinues
  <2> QED BY <1>6, <2>1, <2>2
<1>9. ASSUME NEW n \in Node, NEW x \in Change, Write(n, x) PROVE OwnChanges'
  <2>1. /\ UNCHANGED <<chan, job>> /\ db'[n] = db[n] \cup {x}
        /\ pending'[n] = Push({x}, Others(n)) /\ \A p \in Node \ {n} : pending'[p] = pending[p]
    BY <1>9 DEF Write, netVars, TypeOK
  <2>2. pending'[n].changes \subseteq {x}
    BY <2>1 DEF Push
  <2> QED BY <1>0, <2>1, <2>2, OwnKeeps
<1>10. ASSUME NEW n \in Node,
              \/ Track(n) \/ Dial(n) \/ DialFails(n)
              \/ \E m \in Node : Discover(n, m) \/ LinkDown(n, m) \/ Reconnect(n, m)
       PROVE  OwnChanges'
  <2>1. UNCHANGED <<db, job, pending>>
    BY <1>10 DEF Track, Dial, DialFails, Discover, LinkDown, Reconnect, docVars
  <2>2. \A p, q \in Node : ToSet(chan'[p][q]) \subseteq ToSet(chan[p][q]) \cup {Up, Down}
    <3>1. CASE Track(n) \/ DialFails(n) \/ \E m \in Node : Discover(n, m)
      BY <3>1 DEF Track, DialFails, Discover, netVars
    <3>2. CASE Dial(n)
      <4>1. finding[n].peer \in Node
        BY <3>2 DEF Dial, TypeOK
      <4>2. UNCHANGED chan \/ LinkUp(n, finding[n].peer)
        BY <3>2 DEF Dial, netVars
      <4> QED BY <4>1, <4>2, Linking
    <3>3. CASE \E m \in Node : LinkDown(n, m)
      BY <3>3, Unlinking
    <3>4. CASE \E m \in Node : Reconnect(n, m)
      BY <3>4, Linking DEF Reconnect
    <3> QED BY <1>10, <3>1, <3>2, <3>3, <3>4
  <2>3. \A p : \A e \in {Up, Down} : OwnEvent(p, e)
    BY UpDown DEF OwnEvent
  <2> QED BY <1>0, <2>1, <2>2, <2>3, OwnKeeps
<1> QED BY <1>1, <1>2, <1>3, <1>4, <1>5, <1>7, <1>8, <1>9, <1>10
        DEF Next, Loop, Continue, Connecting, Pushing

-----------------------------------------------------------------------------
(* No change of n's that m lacks is forgotten while they are connected. *)

\* What must be shown of one pair.
LEMMA HeldKeeps ==
  ASSUME NEW p \in Node, NEW q \in Node,
         db[q] \subseteq db'[q], unsent[p][q] \subseteq unsent'[p][q],
         \A x : InQueue(p, q, x) => Held(p, q, x)',
         \A x : InJob(p, q, x) => Held(p, q, x)',
         \A x : InPush(p, q, x) => Held(p, q, x)',
         \A x \in db'[p] : x \in db[p] \/ Held(p, q, x)'
  PROVE  Covered(p, q) => Covered(p, q)'
<1> SUFFICES ASSUME Covered(p, q), NEW x \in db'[p] PROVE Held(p, q, x)'
  BY DEF Covered
<1>1. CASE x \in db[p]
  <2>1. Held(p, q, x)
    BY <1>1 DEF Covered
  <2>2. CASE x \in db[q] \cup unsent[p][q]
    BY <2>2 DEF Held
  <2> QED BY <2>1, <2>2 DEF Held
<1> QED BY <1>1

\* A queue that keeps its events keeps their changes.
LEMMA QueueHolds ==
  ASSUME NEW p, NEW q, ToSet(chan[p][q]) \subseteq ToSet(chan'[p][q])
  PROVE  \A x : InQueue(p, q, x) => Held(p, q, x)'
BY DEF InQueue, Held

\* One that loses its first event to q keeps the others'.
LEMMA PopHolds ==
  ASSUME TypeOK, NEW p \in Node, NEW q \in Node, chan[p][q] # <<>>,
         chan'[p][q] = Tail(chan[p][q]), NEW x, InQueue(p, q, x)
  PROVE  x \in Head(chan[p][q]).changes \/ Held(p, q, x)'
<1>1. PICK e \in ToSet(chan[p][q]) : x \in e.changes
  BY DEF InQueue
<1>2. chan[p][q] \in Seq(Message)
  BY DEF TypeOK
<1>3. e = Head(chan[p][q]) \/ e \in ToSet(Tail(chan[p][q]))
  BY <1>1, <1>2, TailCovers
<1> QED BY <1>1, <1>3 DEF InQueue, Held

\* The task and the push of p as before.
LEMMA TasksHold ==
  ASSUME NEW p \in Node, NEW q \in Node
  PROVE  /\ job'[p] = job[p] => \A x : InJob(p, q, x) => Held(p, q, x)'
         /\ job[p].step \notin {"sync", "relay"} => \A x : ~InJob(p, q, x)
         /\ pending'[p] = pending[p] => \A x : InPush(p, q, x) => Held(p, q, x)'
BY DEF InJob, InPush, Held, Does

\* An event more in one queue.
LEMMA AppendHolds ==
  ASSUME TypeOK, NEW n \in Node, NEW m \in Node, NEW e \in Message,
         chan'[n][m] = Append(chan[n][m], e)
  PROVE  ToSet(chan[n][m]) \subseteq ToSet(chan'[n][m]) /\ e \in ToSet(chan'[n][m])
BY AppendRange DEF TypeOK

\* What is offered is sent or recorded.
LEMMA OfferEffect ==
  ASSUME TypeOK, NEW n \in Node, NEW m \in Node, NEW S \in SUBSET Change, NEW fresh,
         Offer(n, m, S, fresh)
  PROVE  /\ \A x \in S : Held(n, m, x)'
         /\ \A p, q \in Node : /\ ToSet(chan[p][q]) \subseteq ToSet(chan'[p][q])
                               /\ unsent[p][q] \subseteq unsent'[p][q]
         /\ \A p, q \in Node : ~(p = n /\ q = m) => chan'[p][q] = chan[p][q]
         /\ \/ Linked(n, m) /\ chan'[n][m] = Append(chan[n][m], Event("push", {}, S))
            \/ chan'[n][m] = chan[n][m]
<1> DEFINE e == Event("push", {}, S)
<1>1. e \in Message /\ e.changes = S
  BY MessageTypes
<1> HIDE DEF e
<1>2. CASE Takes(n, m, fresh) /\ Linked(n, m)
  <2>1. Send(n, m, e) /\ UNCHANGED unsent
    BY <1>2 DEF Offer, e
  <2>2. /\ chan'[n][m] = Append(chan[n][m], e)
        /\ \A p, q \in Node : ~(p = n /\ q = m) => chan'[p][q] = chan[p][q]
    BY <1>1, <1>2, <2>1, SendEffect
  <2>3. ToSet(chan[n][m]) \subseteq ToSet(chan'[n][m]) /\ e \in ToSet(chan'[n][m])
    BY <1>1, <2>2, AppendHolds
  <2>4. \A x \in S : Held(n, m, x)'
    BY <1>1, <2>3 DEF Held, InQueue
  <2> QED BY <1>2, <2>1, <2>2, <2>3, <2>4 DEF e
<1>3. CASE ~(Takes(n, m, fresh) /\ Linked(n, m))
  <2>1. UNCHANGED chan /\ unsent' = [unsent EXCEPT ![n][m] = @ \cup S]
    BY <1>3, Zenon DEF Offer
  <2>2. /\ unsent'[n][m] = unsent[n][m] \cup S
        /\ \A p, q \in Node : unsent[p][q] \subseteq unsent'[p][q]
    BY <2>1 DEF TypeOK
  <2> QED BY <2>1, <2>2 DEF Held
<1> QED BY <1>2, <1>3

\* The Connect of m is answered with all that is in effect at n and not at m.
LEMMA CoversNow ==
  ASSUME TypeOK, MeshInv, NEW n \in Node, NEW m \in Node, HandleConnect(n, m)
  PROVE  Covered(n, m)'
<1> DEFINE e == Head(chan[m][n])
<1>1. chan[m][n] # <<>> /\ e.type = "connect"
  BY DEF HandleConnect, Receives
<1>2. e \in ToSet(chan[m][n]) /\ e.heads \subseteq Change
  BY <1>1, Popping DEF Message
<1>3. e.heads \subseteq Applied(db[m])
  BY <1>1, <1>2, InvParts DEF EventOK
<1>4. /\ UNCHANGED <<db, deps>> /\ unsent'[n][m] = db[n] \ Applied(db[n])
      /\ job'[n].changes = Since(db[n], e.heads) /\ job'[n].step = "sync" /\ job'[n].peer = m
  <2>1. UNCHANGED <<db, deps>> /\ unsent' = [unsent EXCEPT ![n][m] = db[n] \ Applied(db[n])]
    BY DEF HandleConnect, docVars
  <2> QED BY <2>1, TaskEffect DEF TypeOK
<1> HIDE DEF e
<1>5. ASSUME NEW x \in db[n] PROVE Held(n, m, x)'
  <2>1. CASE x \notin Applied(db[n])
    BY <1>4, <2>1 DEF Held
  <2>2. CASE x \in Since(db[n], e.heads)
    BY <1>4, <2>2 DEF Held, InJob, Does
  <2>3. CASE x \in Applied(db[n]) \ Since(db[n], e.heads)
    <3>1. PICK h \in e.heads : x = h \/ x \in deps[h]
      BY <2>3 DEF Since, Below
    <3>2. h \in db[m] /\ deps[h] \subseteq db[m]
      BY <1>3, <3>1 DEF Applied
    <3> QED BY <1>4, <3>1, <3>2 DEF Held
  <2> QED BY <2>1, <2>2, <2>3
<1> QED BY <1>4, <1>5 DEF Covered

\* Handlers: what is taken from a queue is in the document, and what is new there is
\* sent on, recorded or known to the sender.
LEMMA StaysHandle ==
  ASSUME TypeOK, MeshInv, OwnChanges, NEW n \in Node, NEW m \in Node, Handle(n, m),
         NEW p \in Node, NEW q \in Node
  PROVE  Stays(p, q)
<1> DEFINE e == Head(chan[m][n])
<1>0. n # m /\ chan[m][n] # <<>> /\ job[n] = Idle
  BY DEF Handle, HandleConnected, HandleDisconnected, HandleConnect, HandleSync,
         HandlePush, Receives
<1>1. e \in ToSet(chan[m][n]) /\ e.changes \subseteq db[m] /\ e.changes \subseteq Change
      /\ (e.type \in {"up", "down", "connect"} => e.changes = {})
  BY <1>0, Popping DEF OwnChanges, OwnEvent, Message
<1>2. /\ Popped(n, m) \in Channels /\ Popped(n, m)[m][n] = Tail(chan[m][n])
      /\ \A r, s \in Node : ~(r = m /\ s = n) => Popped(n, m)[r][s] = chan[r][s]
  BY <1>0, PopEffect, Popping
<1>3. \A r \in Node \ {n} : job'[r] = job[r]
  BY TaskEffect DEF Handle
<1>4. pending' = pending
  BY TaskEffect DEF Handle
<1>5. (\A x : InJob(p, q, x) => Held(p, q, x)') /\ (\A x : InPush(p, q, x) => Held(p, q, x)')
  <2>1. job[n].step = "idle"
    BY <1>0, TaskEffect
  <2> QED BY <1>3, <1>4, <2>1, TasksHold
<1> HIDE DEF e
<1>6. CASE HandleConnected(n, m)
  <2>1. UNCHANGED <<db, unsent>> /\ e.type = "up"
    BY <1>6 DEF HandleConnected, docVars, Receives, e
  <2>2. /\ chan'[m][n] = Tail(chan[m][n])
        /\ ~(p = m /\ q = n) => ToSet(chan[p][q]) \subseteq ToSet(chan'[p][q])
    <3>1. CASE chan' = Popped(n, m)
      BY <1>2, <3>1
    <3>2. CASE chan' = [Popped(n, m) EXCEPT ![n][m] = Append(@, ConnectMsg(n))]
      <4>1. /\ chan'[n][m] = Append(chan[n][m], ConnectMsg(n))
            /\ chan'[m][n] = Tail(chan[m][n])
            /\ ~(p = m /\ q = n) /\ ~(p = n /\ q = m) => chan'[p][q] = chan[p][q]
        BY <1>0, <1>2, <3>2 DEF Channels
      <4>2. ToSet(chan[n][m]) \subseteq ToSet(chan'[n][m])
        BY <4>1, AppendHolds, ConnectType
      <4> QED BY <4>1, <4>2
    <3> QED BY <1>6, <3>1, <3>2 DEF HandleConnected
  <2>3. \A x : InQueue(p, q, x) => Held(p, q, x)'
    <3>1. CASE p = m /\ q = n
      BY <1>0, <1>1, <2>1, <2>2, <3>1, PopHolds DEF e
    <3>2. CASE ~(p = m /\ q = n)
      BY <2>2, <3>2, QueueHolds
    <3> QED BY <3>1, <3>2
  <2> QED BY <1>5, <2>1, <2>3, HeldKeeps DEF Stays
<1>7. CASE HandleDisconnected(n, m) \/ HandleConnect(n, m)
  <2>1. UNCHANGED db /\ e.type \in {"down", "connect"} /\ chan' = Popped(n, m)
    BY <1>7 DEF HandleDisconnected, HandleConnect, docVars, Receives, e
  <2>2. \A x : InQueue(p, q, x) => Held(p, q, x)'
    <3>1. CASE p = m /\ q = n
      BY <1>0, <1>1, <1>2, <2>1, <3>1, PopHolds DEF e
    <3>2. CASE ~(p = m /\ q = n)
      BY <1>2, <2>1, <3>2, QueueHolds
    <3> QED BY <3>1, <3>2
  <2>3. CASE HandleConnect(n, m) /\ p = n /\ q = m
    BY <2>3, CoversNow DEF Stays
  <2>4. CASE ~(HandleConnect(n, m) /\ p = n /\ q = m)
    <3>1. unsent'[p][q] = unsent[p][q]
      <4>1. CASE HandleDisconnected(n, m)
        BY <4>1 DEF HandleDisconnected, ghostVars
      <4>2. CASE HandleConnect(n, m)
        <5>1. unsent' = [unsent EXCEPT ![n][m] = db[n] \ Applied(db[n])]
          BY <4>2 DEF HandleConnect
        <5> QED BY <2>4, <4>2, <5>1 DEF TypeOK
      <4> QED BY <1>7, <4>1, <4>2
    <3> QED BY <1>5, <2>1, <2>2, <3>1, HeldKeeps DEF Stays
  <2> QED BY <2>3, <2>4
<1>8. CASE HandleSync(n, m) \/ HandlePush(n, m)
  <2>1. /\ db'[n] = db[n] \cup e.changes /\ (\A r \in Node \ {n} : db'[r] = db[r])
        /\ chan' = Popped(n, m)
    BY <1>8 DEF HandleSync, HandlePush, TypeOK, e
  <2>2. \A x : InQueue(p, q, x) => Held(p, q, x)'
    <3>1. CASE p = m /\ q = n
      BY <1>0, <1>2, <2>1, <3>1, PopHolds DEF e, Held
    <3>2. CASE ~(p = m /\ q = n)
      BY <1>2, <2>1, <3>2, QueueHolds
    <3> QED BY <3>1, <3>2
  <2>3. unsent[p][q] \subseteq unsent'[p][q]
        /\ (HandleSync(n, m) /\ p = n /\ q # m => e.changes \ db[n] \subseteq unsent'[p][q])
    <3>1. CASE HandlePush(n, m)
      <4>1. unsent' = unsent /\ ~HandleSync(n, m)
        BY <3>1 DEF HandlePush, HandleSync, Receives, ghostVars
      <4> QED BY <4>1
    <3>2. CASE HandleSync(n, m)
      <4>1. unsent' = [unsent EXCEPT ![n] = [r \in Node |->
                IF r = m THEN @[r] ELSE @[r] \cup (e.changes \ db[n])]]
        BY <3>2 DEF HandleSync, e
      <4>2. CASE p = n
        <5>1. unsent'[n][q] = IF q = m THEN unsent[n][q] ELSE unsent[n][q] \cup (e.changes \ db[n])
          BY <4>1 DEF TypeOK
        <5> QED BY <4>2, <5>1
      <4>3. CASE p # n
        BY <4>1, <4>3 DEF TypeOK
      <4> QED BY <4>2, <4>3
    <3> QED BY <1>8, <3>1, <3>2
  <2>4. ASSUME NEW x \in db'[p], x \notin db[p] PROVE Held(p, q, x)'
    <3>1. p = n /\ x \in e.changes \ db[n]
      BY <2>1, <2>4
    <3>2. CASE q \in {n, m}
      BY <1>0, <1>1, <2>1, <3>1, <3>2 DEF Held
    <3>3. CASE q \notin {n, m} /\ HandleSync(n, m)
      BY <2>3, <3>1, <3>3 DEF Held
    <3>4. CASE q \notin {n, m} /\ HandlePush(n, m)
      <4>1. job'[n].step = "relay" /\ q \in job'[n].to /\ job'[n].changes = e.changes
        BY <3>4, TaskEffect DEF e
      <4> QED BY <3>1, <4>1 DEF Held, InJob
    <3> QED BY <1>8, <3>2, <3>3, <3>4
  <2>5. db[q] \subseteq db'[q]
    BY <2>1
  <2> QED BY <1>5, <2>2, <2>3, <2>4, <2>5, HeldKeeps DEF Stays
<1> QED BY <1>6, <1>7, <1>8 DEF Handle

\* The second half of a handler: what the task held is in the queue or recorded.
LEMMA StaysContinue ==
  ASSUME TypeOK, NEW n \in Node, Continue(n), NEW p \in Node, NEW q \in Node
  PROVE  Stays(p, q)
<1> DEFINE m == job[n].peer
           S == job[n].changes
<1>1. db' = db /\ pending' = pending
  BY DEF Continue, SendSync, ConnectBack, MarkSynced, Relay, docVars
<1>2. \A r \in Node \ {n} : job'[r] = job[r]
  BY TaskContinues DEF Continue
<1>3. S \in SUBSET Change /\ (job[n].step # "idle" => m \in Node)
  BY DEF TypeOK
<1>4. \A x : InPush(p, q, x) => Held(p, q, x)'
  BY <1>1, TasksHold
<1>5. CASE SendSync(n)
  <2>1. m \in Node /\ job[n].step = "sync" /\ UNCHANGED <<unsent, link>>
    BY <1>3, <1>5 DEF SendSync, ghostVars
  <2> DEFINE e == Event("sync", {}, S)
  <2>2. e \in Message /\ e.changes = S
    BY <1>3, MessageTypes
  <2>0. Send(n, m, e)
    BY <1>5 DEF SendSync
  <2> HIDE DEF e
  <2>3. CASE ~Linked(n, m) /\ p = n /\ q = m
    BY <2>1, <2>3 DEF Stays, Linked
  <2>4. CASE Linked(n, m) \/ ~(p = n /\ q = m)
    <3>1. ToSet(chan[p][q]) \subseteq ToSet(chan'[p][q])
          /\ (p = n /\ q = m => e \in ToSet(chan'[p][q]))
      <4>2. CASE p = n /\ q = m
        <5>1. Linked(n, m)
          BY <2>4, <4>2
        <5>2. chan'[n][m] = Append(chan[n][m], e)
          BY <2>1, <2>2, <2>0, <5>1, SendEffect
        <5>3. /\ ToSet(chan[n][m]) \subseteq ToSet(chan'[n][m])
              /\ e \in ToSet(chan'[n][m])
          BY <2>1, <2>2, <5>2, AppendHolds
        <5> QED BY <4>2, <5>3
      <4>3. CASE ~(p = n /\ q = m)
        BY <2>1, <2>2, <2>0, <4>3, SendEffect
      <4> QED BY <4>2, <4>3
    <3>2. ASSUME NEW x, InJob(p, q, x) PROVE Held(p, q, x)'
      <4>1. CASE p = n
        <5>1. q = m /\ x \in S
          BY <2>1, <3>2, <4>1 DEF InJob, Does
        <5> QED BY <2>2, <3>1, <4>1, <5>1 DEF Held, InQueue
      <4>2. CASE p # n
        BY <1>2, <3>2, <4>2, TasksHold
      <4> QED BY <4>1, <4>2
    <3> QED BY <1>1, <1>4, <2>1, <3>1, <3>2, QueueHolds, HeldKeeps DEF Stays
  <2> QED BY <2>3, <2>4
<1>6. CASE ConnectBack(n) \/ MarkSynced(n)
  <2>1. m \in Node /\ job[n].step \in {"back", "mark"} /\ UNCHANGED unsent
    BY <1>3, <1>6 DEF ConnectBack, MarkSynced, ghostVars
  <2>2. ToSet(chan[p][q]) \subseteq ToSet(chan'[p][q])
    <3>1. CASE UNCHANGED chan
      BY <3>1
    <3>2. CASE Send(n, m, ConnectMsg(n))
      <4>1. CASE p = n /\ q = m
        <5>1. CASE Linked(n, m)
          <6>1. chan'[n][m] = Append(chan[n][m], ConnectMsg(n)) /\ ConnectMsg(n) \in Message
            BY <2>1, <3>2, <5>1, ConnectType, SendEffect
          <6>2. ToSet(chan[n][m]) \subseteq ToSet(chan'[n][m])
            BY <2>1, <6>1, AppendHolds
          <6> QED BY <4>1, <6>2
        <5>2. CASE ~Linked(n, m)
          BY <2>1, <3>2, <4>1, <5>2, ConnectType, SendEffect
        <5> QED BY <5>1, <5>2
      <4>2. CASE ~(p = n /\ q = m)
        BY <2>1, <3>2, <4>2, ConnectType, SendEffect
      <4> QED BY <4>1, <4>2
    <3> QED BY <1>6, <3>1, <3>2 DEF ConnectBack, MarkSynced, netVars
  <2>3. \A x : InJob(p, q, x) => Held(p, q, x)'
    BY <1>2, <2>1, TasksHold
  <2> QED BY <1>1, <1>4, <2>1, <2>2, <2>3, QueueHolds, HeldKeeps DEF Stays
<1>7. ASSUME NEW r \in Node, Relay(n, r) PROVE Stays(p, q)
  <2>1. job[n].step = "relay" /\ Offer(n, r, S, job[n].fresh)
    BY <1>7 DEF Relay
  <2>2. /\ \A x \in S : Held(n, r, x)'
        /\ ToSet(chan[p][q]) \subseteq ToSet(chan'[p][q])
        /\ unsent[p][q] \subseteq unsent'[p][q]
    BY <1>3, <2>1, OfferEffect
  <2>3. ASSUME NEW x, InJob(p, q, x) PROVE Held(p, q, x)'
    <3>1. CASE p = n /\ q = r
      BY <2>2, <2>3, <3>1 DEF InJob
    <3>2. CASE p = n /\ q # r
      <4>1. q \in job[n].to \ {r} /\ x \in S
        BY <2>1, <2>3, <3>2 DEF InJob, Does
      <4>2. job'[n].step = "relay" /\ q \in job'[n].to /\ job'[n].changes = S
        BY <1>7, <4>1, TaskContinues
      <4> QED BY <3>2, <4>1, <4>2 DEF Held, InJob
    <3>3. CASE p # n
      BY <1>2, <2>3, <3>3, TasksHold
    <3> QED BY <3>1, <3>2, <3>3
  <2> QED BY <1>1, <1>4, <2>2, <2>3, QueueHolds, HeldKeeps DEF Stays
<1> QED BY <1>5, <1>6, <1>7 DEF Continue

\* The application: what is written is pushed to everyone, one after the other.
LEMMA StaysApplication ==
  ASSUME TypeOK, NEW n \in Node, Pushing(n) \/ \E x \in Change : Write(n, x),
         NEW p \in Node, NEW q \in Node
  PROVE  Stays(p, q)
<1>1. ASSUME NEW m \in Node, PushLocal(n, m) PROVE Stays(p, q)
  <2> DEFINE S == pending[n].changes
  <2>1. S \in SUBSET Change /\ Offer(n, m, S, TRUE) /\ UNCHANGED <<db, job>>
    BY <1>1 DEF PushLocal, docVars, TypeOK
  <2>2. /\ \A x \in S : Held(n, m, x)'
        /\ ToSet(chan[p][q]) \subseteq ToSet(chan'[p][q])
        /\ unsent[p][q] \subseteq unsent'[p][q]
    BY <2>1, OfferEffect
  <2>3. ASSUME NEW x, InPush(p, q, x) PROVE Held(p, q, x)'
    <3>1. CASE p = n /\ q = m
      BY <2>2, <2>3, <3>1 DEF InPush
    <3>2. CASE p = n /\ q # m
      <4>1. q \in pending[n].to \ {m} /\ x \in S
        BY <2>3, <3>2 DEF InPush
      <4>2. q \in pending'[n].to /\ pending'[n].changes = S
        BY <1>1, <4>1, TaskContinues
      <4> QED BY <3>2, <4>1, <4>2 DEF Held, InPush
    <3>3. CASE p # n
      BY <1>1, <2>3, <3>3, TaskContinues, TasksHold
    <3> QED BY <3>1, <3>2, <3>3
  <2>4. \A x : InJob(p, q, x) => Held(p, q, x)'
    BY <2>1, TasksHold
  <2> QED BY <2>1, <2>2, <2>3, <2>4, QueueHolds, HeldKeeps DEF Stays
<1>2. ASSUME NEW x \in Change, Write(n, x) PROVE Stays(p, q)
  <2>1. /\ UNCHANGED <<chan, job, unsent>> /\ pending[n].to = {}
        /\ db'[n] = db[n] \cup {x} /\ (\A r \in Node \ {n} : db'[r] = db[r])
        /\ pending'[n] = Push({x}, Others(n)) /\ \A r \in Node \ {n} : pending'[r] = pending[r]
    BY <1>2 DEF Write, netVars, ghostVars, TypeOK
  <2>2. \A y : InPush(p, q, y) => Held(p, q, y)'
    <3>1. CASE p = n
      BY <2>1, <3>1 DEF InPush
    <3>2. CASE p # n
      BY <2>1, <3>2, TasksHold
    <3> QED BY <3>1, <3>2
  <2>3. ASSUME NEW y \in db'[p], y \notin db[p] PROVE Held(p, q, y)'
    <3>1. p = n /\ y = x
      BY <2>1, <2>3
    <3>2. CASE q = n
      BY <2>1, <3>1, <3>2 DEF Held
    <3>3. CASE q # n
      <4>1. q \in Others(n)
        BY <3>3 DEF Others
      <4>2. q \in pending'[n].to /\ pending'[n].changes = {x}
        BY <2>1, <4>1 DEF Push
      <4> QED BY <3>1, <4>2 DEF Held, InPush
    <3> QED BY <3>2, <3>3
  <2>4. db[q] \subseteq db'[q]
    BY <2>1
  <2>5. (\A y : InJob(p, q, y) => Held(p, q, y)') /\ (\A y : InQueue(p, q, y) => Held(p, q, y)')
    BY <2>1, TasksHold, QueueHolds
  <2> QED BY <2>1, <2>2, <2>3, <2>4, <2>5, HeldKeeps DEF Stays
<1> QED BY <1>1, <1>2 DEF Pushing

\* Discovery, dialling and links: only a lost link loses what was on its way.
LEMMA StaysTransport ==
  ASSUME TypeOK, Entries, NEW n \in Node,
         \/ Track(n) \/ Dial(n) \/ DialFails(n)
         \/ \E m \in Node : Discover(n, m) \/ LinkDown(n, m) \/ Reconnect(n, m),
         NEW p \in Node, NEW q \in Node
  PROVE  Stays(p, q)
<1>1. UNCHANGED <<db, job, pending, unsent>>
  BY DEF Track, Dial, DialFails, Discover, LinkDown, Reconnect, docVars, ghostVars
<1>2. ASSUME ToSet(chan[p][q]) \subseteq ToSet(chan'[p][q]) PROVE Stays(p, q)
  BY <1>1, <1>2, QueueHolds, TasksHold, HeldKeeps DEF Stays
<1>3. CASE Track(n) \/ DialFails(n) \/ \E m \in Node : Discover(n, m)
  BY <1>2, <1>3 DEF Track, DialFails, Discover, netVars
<1>4. ASSUME NEW m \in Node, LinkUp(n, m) PROVE Stays(p, q)
  <2>1. /\ chan'[n][m] = Append(chan[n][m], Up) /\ chan'[m][n] = Append(chan[m][n], Up)
        /\ ~(p = n /\ q = m) /\ ~(p = m /\ q = n) => chan'[p][q] = chan[p][q]
    BY <1>4, LinkUpEffect
  <2>2. ToSet(chan[p][q]) \subseteq ToSet(chan'[p][q])
    BY <2>1, UpDown, AppendHolds
  <2> QED BY <1>2, <2>2
<1>5. CASE Dial(n)
  <2>1. finding[n].peer \in Node /\ (UNCHANGED chan \/ LinkUp(n, finding[n].peer))
    BY <1>5 DEF Dial, netVars, TypeOK
  <2> QED BY <1>2, <1>4, <2>1
<1>6. CASE \E m \in Node : Reconnect(n, m)
  BY <1>4, <1>6 DEF Reconnect
<1>7. ASSUME NEW m \in Node, LinkDown(n, m) PROVE Stays(p, q)
  <2>1. n # m
    BY <1>7 DEF LinkDown, Entries
  <2>2. /\ ~Linked(n, m)' /\ ~Linked(m, n)'
        /\ ~(p = n /\ q = m) /\ ~(p = m /\ q = n) => chan'[p][q] = chan[p][q]
    BY <1>7, <2>1, LinkDownEffect
  <2> QED BY <1>2, <2>2 DEF Stays
<1> QED BY <1>3, <1>5, <1>6, <1>7

\* In every step.
LEMMA StaysStep ==
  ASSUME TypeOK, MeshInv, Entries, OwnChanges, [Next]_vars, NEW p \in Node, NEW q \in Node
  PROVE  Stays(p, q)
<1>1. CASE UNCHANGED vars
  <2>1. UNCHANGED <<db, job, pending, unsent, chan>>
    BY <1>1 DEF vars, docVars, netVars, ghostVars
  <2> QED BY <2>1, QueueHolds, TasksHold, HeldKeeps DEF Stays
<1>2. CASE Next
  <2>1. PICK n \in Node :
          \/ \E m \in Node : Handle(n, m)
          \/ Continue(n)
          \/ Pushing(n) \/ \E x \in Change : Write(n, x)
          \/ Track(n) \/ Dial(n) \/ DialFails(n)
          \/ \E m \in Node : Discover(n, m) \/ LinkDown(n, m) \/ Reconnect(n, m)
    BY <1>2 DEF Next, Loop, Connecting
  <2> QED BY <2>1, StaysHandle, StaysContinue, StaysApplication, StaysTransport
<1> QED BY <1>1, <1>2

-----------------------------------------------------------------------------
(* One pair, step by step. *)

\* What is known of n and m before a step of n's that concerns m, and what is to be
\* shown of it.
Before(n, m) ==
  /\ n # m /\ Pair(n, m) /\ Pair(m, n) /\ Half(n, m) /\ Half(m, n)
  /\ Stays(n, m) /\ Stays(m, n)
After(n, m) == Between(n, m) /\ Pair(n, m)' /\ Pair(m, n)' /\ Half(n, m)' /\ Half(m, n)'

\* The parts of Between that are left when the tables, or the queues, are not touched.
SameTables(n, m) == \A p, q \in Node : ~(p = n /\ q = m) =>
  /\ state'[p][q] = state[p][q]
  /\ q \in outbound'[p] <=> q \in outbound[p]
  /\ q \in replaced'[p] <=> q \in replaced[p]
SameTasks(n, m) == \A p, q \in Node : ~(p = n /\ q = m) =>
  /\ \A s \in {"sync", "back", "mark"} : Does(p, q, s)' <=> Does(p, q, s)
  /\ Dialling(p, q)' <=> Dialling(p, q)
SameQueues(n, m) == \A p, q \in Node : ~(p = n /\ q = m) /\ ~(p = m /\ q = n) =>
  chan'[p][q] = chan[p][q] /\ (Linked(p, q)' <=> Linked(p, q))

\* Tables, tasks and queues make up Between.
LEMMA BetweenParts ==
  ASSUME NEW n, NEW m
  PROVE  Between(n, m) <=> SameTables(n, m) /\ SameTasks(n, m) /\ SameQueues(n, m)
BY DEF Between, SameTables, SameTasks, SameQueues

\* What the step leaves alone of what m holds about n.
LEMMA OtherSide ==
  ASSUME NEW n \in Node, NEW m \in Node, n # m, Between(n, m)
  PROVE  /\ state'[m][n] = state[m][n]
         /\ n \in outbound'[m] <=> n \in outbound[m]
         /\ n \in replaced'[m] <=> n \in replaced[m]
         /\ \A s \in {"sync", "back", "mark"} : Does(m, n, s)' <=> Does(m, n, s)
         /\ Dialling(m, n)' <=> Dialling(m, n)
BY DEF Between

\* Discovery: an entry for m, or one that replaces it.
LEMMA TrackPair ==
  ASSUME TypeOK, Entries, NEW n \in Node, NEW m \in Node, m = finding[n].peer, Track(n),
         Before(n, m)
  PROVE  After(n, m)
<1>1. /\ UNCHANGED <<chan, link, job>>
      /\ finding' = [finding EXCEPT ![n] = [peer |-> m, tracked |-> TRUE]]
      /\ state' = [state EXCEPT ![n][m] = "connected"]
      /\ outbound' = [outbound EXCEPT ![n] = @ \cup {m}]
      /\ replaced' = [replaced EXCEPT ![n] = IF state[n][m] = "none" THEN @ ELSE @ \cup {m}]
  BY DEF Track, netVars
<1>2. m \notin outbound[n]
  BY DEF Track, Entries
<1>3. SameTables(n, m) /\ state'[n][m] = "connected" /\ m \in outbound'[n]
      /\ (state[n][m] # "none" \/ m \in replaced[n] => m \in replaced'[n])
  BY <1>1 DEF SameTables, TypeOK
<1>4. SameTasks(n, m) /\ Dialling(n, m)'
  <2>1. /\ finding'[n] = [peer |-> m, tracked |-> TRUE]
        /\ \A p \in Node \ {n} : finding'[p] = finding[p]
    BY <1>1 DEF TypeOK
  <2>2. \A p, q \in Node : ~(p = n /\ q = m) => (Dialling(p, q)' <=> Dialling(p, q))
    BY <2>1, FindingFrame
  <2> QED BY <1>1, <2>1, <2>2 DEF SameTasks, Does, Dialling
<1>5. Between(n, m)
  BY <1>1, <1>3, <1>4, BetweenParts DEF SameQueues, Linked
<1>6. /\ SameQueue(n, m) /\ SameQueue(m, n) /\ InOrder(n, m)' /\ InOrder(m, n)'
      /\ (Linked(n, m)' <=> Linked(n, m)) /\ (Linked(m, n)' <=> Linked(m, n))
  <2>1. (Linked(n, m)' <=> Linked(n, m)) /\ (Linked(m, n)' <=> Linked(m, n))
    BY <1>1 DEF Linked
  <2> QED BY <1>1, <2>1, QueueStays, OrderStays DEF Before, Pair
<1>7. \A s : (Does(n, m, s)' <=> Does(n, m, s)) /\ (Does(m, n, s)' <=> Does(m, n, s))
  BY <1>1 DEF Does
<1>8. Pair(n, m)'
  BY <1>2, <1>3, <1>4, <1>5, <1>6, <1>7, Both, OtherSide
     DEF Before, Pair, Told, Strangers, OneSided, SameQueue
<1>9. Pair(m, n)'
  BY <1>3, <1>5, <1>6, <1>7, OtherSide
     DEF Before, Pair, Told, Strangers, OneSided, SameQueue
<1>10. Half(n, m)'
  BY <1>3, <1>5, <1>6, <1>7, OtherSide
     DEF Before, Half, Stays, Asked, Done, Unsynced, WillConnect, SameQueue
<1>11. Half(m, n)'
  BY <1>3, <1>5, <1>6, <1>7, OtherSide
     DEF Before, Half, Stays, Asked, Done, Unsynced, WillConnect, SameQueue
<1> QED BY <1>5, <1>8, <1>9, <1>10, <1>11 DEF After

\* A new link: the node that has discovered the other asks, or else the one that dialled
\* is the only one that has, and will be asked.
LEMMA LinkUpPair ==
  ASSUME TypeOK, Entries, NEW n \in Node, NEW m \in Node, LinkUp(n, m), ~Linked(n, m),
         m \in outbound[n], Dialling(n, m) \/ state[n][m] = "disconnected",
         ~Dialling(n, m)' \/ state[n][m] = "disconnected",
         Before(n, m), UNCHANGED <<state, outbound, replaced, job>>,
         \A p, q \in Node : ~(p = n /\ q = m) => (Dialling(p, q)' <=> Dialling(p, q)),
         Dialling(n, m)' => Dialling(n, m)
  PROVE  After(n, m)
<1>1. /\ n # m /\ Linked(n, m)' /\ Linked(m, n)' /\ SameQueues(n, m) /\ ~Linked(m, n)
  BY LinkUpEffect, Both DEF SameQueues
<1>2. Longer(n, m, "up") /\ Longer(m, n, "up") /\ InOrder(n, m)' /\ InOrder(m, n)'
  <2>1. chan'[n][m] = Append(chan[n][m], Up) /\ chan'[m][n] = Append(chan[m][n], Up)
    BY LinkUpEffect
  <2>2. Up \in Message /\ Up.type = "up"
    BY UpDown
  <2> QED BY <1>1, <2>1, <2>2, QueueGrows DEF Before, Pair
<1>3. Between(n, m)
  <2>1. SameTables(n, m) /\ SameTasks(n, m)
    BY DEF SameTables, SameTasks, Does
  <2> QED BY <1>1, <2>1, BetweenParts
<1>4. \A s : (Does(n, m, s)' <=> Does(n, m, s)) /\ (Does(m, n, s)' <=> Does(m, n, s))
  BY DEF Does
<1>5. Pair(n, m)'
  BY <1>1, <1>2, <1>4 DEF Before, Pair, Told, Strangers, OneSided, Longer
<1>6. Pair(m, n)'
  BY <1>1, <1>2, <1>3, <1>4, OtherSide DEF Before, Pair, Told, Strangers, OneSided, Longer
<1>7. Half(m, n)'
  BY <1>2 DEF Half, Asked, Longer
<1>8. n \notin outbound[m] => ~Does(n, m, "sync")
  BY DEF Before, Pair, OneSided
<1>9. Half(n, m)'
  BY <1>2, <1>4, <1>8 DEF Half, Asked, Unsynced, WillConnect, Longer
<1> QED BY <1>3, <1>5, <1>6, <1>7, <1>9 DEF After

\* A reconnect task finds the entry disconnected and outbound.
LEMMA ReconnectPair ==
  ASSUME TypeOK, Entries, NEW n \in Node, NEW m \in Node, Reconnect(n, m), Before(n, m)
  PROVE  After(n, m)
<1>1. /\ LinkUp(n, m) /\ ~Linked(n, m) /\ state[n][m] = "disconnected" /\ m \in outbound[n]
      /\ UNCHANGED <<state, outbound, replaced, job, finding>>
  BY DEF Reconnect, tableVars, ghostVars, Entries
<1>2. \A p, q \in Node : Dialling(p, q)' <=> Dialling(p, q)
  BY <1>1 DEF Dialling
<1> QED BY <1>1, <1>2, LinkUpPair

\* The dial that follows a discovery, or finds a link.
LEMMA DialPair ==
  ASSUME TypeOK, Entries, NEW n \in Node, NEW m \in Node, m = finding[n].peer, Dial(n),
         Before(n, m)
  PROVE  After(n, m)
<1>1. /\ finding[n].tracked /\ m \in outbound[n]
      /\ UNCHANGED <<state, outbound, replaced, job>>
      /\ finding' = [finding EXCEPT ![n] = Nobody]
      /\ IF Linked(n, m) THEN UNCHANGED <<chan, link>> ELSE LinkUp(n, m)
  BY DEF Dial, tableVars, ghostVars, netVars, Entries
<1>2. Dialling(n, m) /\ ~Dialling(n, m)'
      /\ \A p, q \in Node : ~(p = n /\ q = m) => (Dialling(p, q)' <=> Dialling(p, q))
  <2>1. finding'[n] = Nobody /\ \A p \in Node \ {n} : finding'[p] = finding[p]
    BY <1>1 DEF TypeOK
  <2>2. finding'[n].peer = None
    BY <2>1 DEF Nobody
  <2>3. ~Dialling(n, m)'
    BY <2>2, ConstantsOK DEF Dialling
  <2>4. Dialling(n, m)
    <3>1. finding[n] \in [peer: Node \cup {None}, tracked: BOOLEAN]
      BY DEF TypeOK
    <3> QED BY <1>1, <3>1 DEF Dialling
  <2> QED BY <2>1, <2>2, <2>3, <2>4, FindingFrame
<1>3. CASE ~Linked(n, m)
  BY <1>1, <1>2, <1>3, LinkUpPair
<1>4. CASE Linked(n, m)
  <2>1. UNCHANGED <<chan, link>>
    BY <1>1, <1>4
  <2>2. /\ SameQueue(n, m) /\ SameQueue(m, n) /\ InOrder(n, m)' /\ InOrder(m, n)'
        /\ (Linked(n, m)' <=> Linked(n, m)) /\ (Linked(m, n)' <=> Linked(m, n))
    <3>1. (Linked(n, m)' <=> Linked(n, m)) /\ (Linked(m, n)' <=> Linked(m, n))
      BY <2>1 DEF Linked
    <3> QED BY <2>1, <3>1, QueueStays, OrderStays DEF Before, Pair
  <2>3. \A s : (Does(n, m, s)' <=> Does(n, m, s)) /\ (Does(m, n, s)' <=> Does(m, n, s))
    BY <1>1 DEF Does
  <2>4. Between(n, m)
    <3>1. SameTables(n, m) /\ SameTasks(n, m) /\ SameQueues(n, m)
      BY <1>1, <1>2, <2>1 DEF SameTables, SameTasks, SameQueues, Does, Linked
    <3> QED BY <3>1, BetweenParts
  <2>5. Pair(n, m)'
    BY <1>1, <1>2, <1>4, <2>2, <2>3 DEF Before, Pair, Told, Strangers, OneSided, SameQueue
  <2>6. Pair(m, n)'
    BY <1>1, <1>2, <1>4, <2>2, <2>3, <2>4, OtherSide, Both
       DEF Before, Pair, Told, Strangers, OneSided, SameQueue
  <2>7. Half(n, m)' /\ Half(m, n)'
    BY <1>1, <2>2, <2>3 DEF Before, Half, Stays, Asked, Done, Unsynced, WillConnect, SameQueue
  <2> QED BY <2>4, <2>5, <2>6, <2>7 DEF After
<1> QED BY <1>3, <1>4

\* A dial that fails leaves the entry to the reconnect task.
LEMMA DialFailsPair ==
  ASSUME TypeOK, Entries, NEW n \in Node, NEW m \in Node, m = finding[n].peer, DialFails(n),
         Before(n, m)
  PROVE  After(n, m)
<1>1. /\ finding[n].tracked /\ m \in outbound[n] /\ ~Linked(n, m)
      /\ UNCHANGED <<outbound, replaced, job, chan, link>>
      /\ finding' = [finding EXCEPT ![n] = Nobody]
      /\ state' = [state EXCEPT ![n][m] = IF @ = "none" THEN @ ELSE "disconnected"]
  BY DEF DialFails, netVars, Entries
<1>2. state'[n][m] \in {"none", "disconnected"} /\ SameTables(n, m)
  BY <1>1 DEF TypeOK, SameTables
<1>3. Dialling(n, m) /\ ~Dialling(n, m)' /\ SameTasks(n, m)
  <2>1. finding'[n] = Nobody /\ \A p \in Node \ {n} : finding'[p] = finding[p]
    BY <1>1 DEF TypeOK
  <2>2. finding'[n].peer = None
    BY <2>1 DEF Nobody
  <2>3. ~Dialling(n, m)'
    BY <2>2, ConstantsOK DEF Dialling
  <2>4. Dialling(n, m)
    <3>1. finding[n] \in [peer: Node \cup {None}, tracked: BOOLEAN]
      BY DEF TypeOK
    <3> QED BY <1>1, <3>1 DEF Dialling
  <2>5. \A p, q \in Node : ~(p = n /\ q = m) => (Dialling(p, q)' <=> Dialling(p, q))
    BY <2>1, <2>2, FindingFrame
  <2> QED BY <1>1, <2>3, <2>4, <2>5 DEF SameTasks, Does
<1>4. ~Linked(n, m)' /\ ~Linked(m, n)' /\ ~Linked(m, n)
  BY <1>1, Both DEF Linked
<1>5. SameQueue(n, m) /\ SameQueue(m, n) /\ InOrder(n, m)' /\ InOrder(m, n)'
  BY <1>1, <1>4, QueueStays, OrderStays DEF Before, Pair
<1>6. \A s : (Does(n, m, s)' <=> Does(n, m, s)) /\ (Does(m, n, s)' <=> Does(m, n, s))
  BY <1>1 DEF Does
<1>7. Between(n, m)
  BY <1>1, <1>2, <1>3, BetweenParts DEF SameQueues, Linked
<1>8. Pair(n, m)'
  BY <1>1, <1>2, <1>3, <1>4, <1>5, <1>6 DEF Before, Pair, Told, Strangers, OneSided, SameQueue
<1>9. Pair(m, n)'
  BY <1>1, <1>4, <1>5, <1>6, <1>7, OtherSide DEF Before, Pair, Told, Strangers, OneSided, SameQueue
<1> QED BY <1>4, <1>7, <1>8, <1>9 DEF After, Half

\* A lost link is told to both ends.
LEMMA LinkDownPair ==
  ASSUME TypeOK, NEW n \in Node, NEW m \in Node, LinkDown(n, m), Before(n, m)
  PROVE  After(n, m)
<1>1. /\ UNCHANGED <<state, outbound, replaced, job, finding>>
      /\ Linked(n, m) /\ Linked(m, n) /\ ~Linked(n, m)' /\ ~Linked(m, n)' /\ SameQueues(n, m)
      /\ \E q \in Cuts(chan[n][m]) : chan'[n][m] = Append(q, Down)
      /\ \E r \in Cuts(chan[m][n]) : chan'[m][n] = Append(r, Down)
  <2>1. UNCHANGED <<state, outbound, replaced, job, finding>>
    BY DEF LinkDown, tableVars
  <2> QED BY <2>1, LinkDownEffect, Both DEF Before, SameQueues
<1>2. /\ InOrder(n, m)' /\ ~Empty(n, m)'
      /\ ~Empty(n, m) /\ First(n, m) = "up" => First(n, m)' = "up"
  BY <1>1, QueueIsCut DEF Before, Pair
<1>3. /\ InOrder(m, n)' /\ ~Empty(m, n)'
      /\ ~Empty(m, n) /\ First(m, n) = "up" => First(m, n)' = "up"
  BY <1>1, QueueIsCut DEF Before, Pair
<1>4. \A s : (Does(n, m, s)' <=> Does(n, m, s)) /\ (Does(m, n, s)' <=> Does(m, n, s))
  BY <1>1 DEF Does
<1>5. (Dialling(n, m)' <=> Dialling(n, m)) /\ (Dialling(m, n)' <=> Dialling(m, n))
  BY <1>1 DEF Dialling
<1>6. Between(n, m)
  <2>1. SameTables(n, m) /\ SameTasks(n, m)
    BY <1>1 DEF SameTables, SameTasks, Does, Dialling
  <2> QED BY <1>1, <2>1, BetweenParts
<1>7. Pair(n, m)'
  BY <1>1, <1>2, <1>3, <1>4, <1>5 DEF Before, Pair, Told, Strangers, OneSided
<1>8. Pair(m, n)'
  BY <1>1, <1>2, <1>3, <1>4, <1>5 DEF Before, Pair, Told, Strangers, OneSided
<1> QED BY <1>1, <1>6, <1>7, <1>8 DEF After, Half

\* The transport loop of n takes an event of m's.
LEMMA HandledPair ==
  ASSUME TypeOK, NEW n \in Node, NEW m \in Node, chan[m][n] # <<>>, Pair(m, n),
         chan' = Popped(n, m), link' = link
  PROVE  /\ Shorter(m, n) /\ InOrder(m, n)' /\ SameQueues(n, m)
         /\ n # m => SameQueue(n, m) /\ (InOrder(n, m) => InOrder(n, m)')
<1>1. /\ chan'[m][n] = Tail(chan[m][n])
      /\ \A p, q \in Node : ~(p = m /\ q = n) => chan'[p][q] = chan[p][q]
  BY PopEffect
<1>2. \A p, q \in Node : Linked(p, q)' <=> Linked(p, q)
  BY DEF Linked
<1>3. Shorter(m, n) /\ InOrder(m, n)'
  BY <1>1, <1>2, QueueShrinks DEF Pair, Empty
<1> QED BY <1>1, <1>2, <1>3, QueueStays, OrderStays DEF SameQueues

\* Up: n asks if it has discovered m; otherwise it waits to be asked.
LEMMA ConnectedPair ==
  ASSUME TypeOK, Entries, NEW n \in Node, NEW m \in Node, HandleConnected(n, m), Before(n, m)
  PROVE  After(n, m)
<1>1. /\ ~Empty(m, n) /\ First(m, n) = "up" /\ job[n] = Idle
      /\ UNCHANGED <<link, job, finding>>
      /\ outbound' = outbound /\ state'[n][m] = "connected"
      /\ replaced' = [replaced EXCEPT ![n] = @ \ {m}]
      /\ chan' = IF m \in outbound[n] /\ Linked(n, m)
                 THEN [Popped(n, m) EXCEPT ![n][m] = Append(@, ConnectMsg(n))]
                 ELSE Popped(n, m)
  BY ConnectedTable DEF HandleConnected, Receives, Empty, First
<1>2. Popped(n, m) \in Channels /\ n # m
  BY <1>1, Popping DEF Empty, Before
<1>3. /\ chan'[m][n] = Tail(chan[m][n])
      /\ SameQueues(n, m)
      /\ IF m \in outbound[n] /\ Linked(n, m) THEN chan'[n][m] = Append(chan[n][m], ConnectMsg(n))
         ELSE chan'[n][m] = chan[n][m]
  <2>1. /\ Popped(n, m)[m][n] = Tail(chan[m][n])
        /\ \A p, q \in Node : ~(p = m /\ q = n) => Popped(n, m)[p][q] = chan[p][q]
    BY PopEffect
  <2>2. \A p, q \in Node : Linked(p, q)' <=> Linked(p, q)
    BY <1>1 DEF Linked
  <2>3. CASE m \in outbound[n] /\ Linked(n, m)
    <3>1. chan' = [Popped(n, m) EXCEPT ![n][m] = Append(Popped(n, m)[n][m], ConnectMsg(n))]
      BY <1>1, <2>3
    <3>2. /\ chan'[n][m] = Append(Popped(n, m)[n][m], ConnectMsg(n))
          /\ \A p, q \in Node : ~(p = n /\ q = m) => chan'[p][q] = Popped(n, m)[p][q]
      BY <1>2, <3>1 DEF Channels
    <3>3. chan'[n][m] = Append(chan[n][m], ConnectMsg(n)) /\ chan'[m][n] = Tail(chan[m][n])
      BY <1>2, <2>1, <3>2
    <3>4. SameQueues(n, m)
      BY <2>1, <2>2, <3>2 DEF SameQueues
    <3> QED BY <2>3, <3>3, <3>4
  <2>4. CASE ~(m \in outbound[n] /\ Linked(n, m))
    BY <1>1, <1>2, <2>1, <2>2, <2>4 DEF SameQueues
  <2> QED BY <2>3, <2>4
<1>4. (Linked(n, m)' <=> Linked(n, m)) /\ (Linked(m, n)' <=> Linked(m, n))
  BY <1>1 DEF Linked
<1>5. Shorter(m, n) /\ InOrder(m, n)'
  BY <1>1, <1>3, <1>4, QueueShrinks DEF Before, Pair
<1>6. InOrder(n, m)' /\ IF m \in outbound[n] /\ Linked(n, m) THEN Longer(n, m, "connect")
                        ELSE SameQueue(n, m)
  <2>1. CASE m \in outbound[n] /\ Linked(n, m)
    <3>1. ConnectMsg(n) \in Message /\ ConnectMsg(n).type = "connect"
      BY ConnectType
    <3>2. chan'[n][m] = Append(chan[n][m], ConnectMsg(n))
      BY <1>3, <2>1
    <3> QED BY <1>4, <2>1, <3>1, <3>2, QueueGrows DEF Before, Pair
  <2>2. CASE ~(m \in outbound[n] /\ Linked(n, m))
    BY <1>3, <1>4, <2>2, QueueStays, OrderStays DEF Before, Pair
  <2> QED BY <2>1, <2>2
<1>7. Between(n, m)
  <2>1. \A p, q \in Node : ~(p = n /\ q = m) => (q \in replaced'[p] <=> q \in replaced[p])
    BY <1>1 DEF TypeOK
  <2>2. SameTables(n, m)
    BY <1>1, <2>1, ConnectedTable DEF SameTables
  <2>3. SameTasks(n, m)
    BY <1>1 DEF SameTasks, Does, Dialling
  <2> QED BY <1>3, <2>2, <2>3, BetweenParts
<1>8. \A s \in {"sync", "back", "mark"} : ~Does(n, m, s) /\ ~Does(n, m, s)'
  BY <1>1, TaskEffect DEF Does
<1>9. m \in outbound[n] \/ n \in outbound[m]
  BY <1>1 DEF Before, Pair, Strangers
<1>10. Dialling(n, m)' <=> Dialling(n, m)
  BY <1>1 DEF Dialling
<1>11. Told(n, m)'
  <2>1. ~Linked(n, m)' => ~Empty(m, n)'
    BY <1>1, <1>4, <1>5, Both DEF Shorter
  <2> QED BY <1>1, <1>8, <2>1 DEF Told
<1>12. Told(m, n)' 
  BY <1>1, <1>2, <1>4, <1>6, <1>7, OtherSide, Both DEF Before, Pair, Told, Longer, SameQueue
<1>13. Strangers(n, m)' /\ Strangers(m, n)'
  BY <1>1, <1>9 DEF Strangers
<1>14. OneSided(n, m)'
  BY <1>1, <1>8, <1>10 DEF Before, Pair, OneSided
<1>15. OneSided(m, n)'
  BY <1>1, <1>2, <1>4, <1>6, <1>7, OtherSide DEF Before, Pair, OneSided, Longer, SameQueue
<1>16. Half(n, m)'
  <2> SUFFICES ASSUME Linked(n, m)
               PROVE  Asked(n, m)' \/ (Covered(n, m)' /\ Done(n, m)')
                      \/ (Unsynced(n, m)' /\ WillConnect(n, m)')
    BY <1>4 DEF Half
  <2>1. Asked(n, m) => Asked(n, m)'
    BY <1>1, <1>5, <1>6 DEF Asked, Shorter, Longer, SameQueue
  <2>2. Done(n, m) => Done(n, m)'
    BY <1>1, <1>2, <1>6, <1>7, <1>8, OtherSide DEF Done, Longer, SameQueue
  <2>3. Unsynced(n, m) => Unsynced(n, m)'
    BY <1>1, <1>2, <1>6, <1>7, <1>8, OtherSide DEF Unsynced, Longer, SameQueue
  <2>4. WillConnect(n, m) => WillConnect(n, m)'
    BY <1>1, <1>2, <1>5, <1>6, <1>7, OtherSide DEF WillConnect, Shorter, Longer, SameQueue
  <2> QED BY <1>4, <2>1, <2>2, <2>3, <2>4 DEF Before, Half, Stays
<1>17. Half(m, n)'
  <2> SUFFICES ASSUME Linked(m, n)
               PROVE  Asked(m, n)' \/ (Covered(m, n)' /\ Done(m, n)')
                      \/ (Unsynced(m, n)' /\ WillConnect(m, n)')
    BY <1>4 DEF Half
  <2>1. Linked(n, m) /\ Waits(m, n, "up")
    BY <1>1, <1>5, Both DEF Shorter
  <2>2. Asked(m, n) => Asked(m, n)'
    BY <1>1, <1>6, <2>1 DEF Asked, Longer, SameQueue
  <2>3. Done(m, n) => Done(m, n)'
    BY <1>1, <1>2, <1>5, <1>7, <2>1, OtherSide DEF Done, Shorter
  <2>4. Unsynced(m, n) => Unsynced(m, n)'
    BY <1>1, <1>2, <1>5, <1>7, <1>8, OtherSide DEF Unsynced, Shorter
  <2>5. WillConnect(m, n) => WillConnect(m, n)'
    BY <1>1, <1>5, <1>6, <2>1 DEF WillConnect, Shorter, Longer, SameQueue
  <2> QED BY <1>4, <2>2, <2>3, <2>4, <2>5 DEF Before, Half, Stays
<1> QED BY <1>5, <1>6, <1>7, <1>11, <1>12, <1>13, <1>14, <1>15, <1>16, <1>17 DEF After, Pair

\* The parts that are alike when n takes a Down, a Connect, a Sync or a Push of m's.
LEMMA TakenPair ==
  ASSUME TypeOK, Entries, NEW n \in Node, NEW m \in Node, Before(n, m),
         ~Empty(m, n), First(m, n) # "up", chan' = Popped(n, m),
         UNCHANGED <<link, finding, outbound, replaced>>,
         \A p, q \in Node : ~(p = n /\ q = m) => state'[p][q] = state[p][q],
         SameTasks(n, m)
  PROVE  /\ Between(n, m) /\ Shorter(m, n) /\ SameQueue(n, m)
         /\ InOrder(n, m)' /\ InOrder(m, n)'
         /\ (Linked(n, m)' <=> Linked(n, m)) /\ (Linked(m, n)' <=> Linked(m, n))
         /\ (Dialling(n, m)' <=> Dialling(n, m))
         /\ Told(m, n)' /\ Strangers(n, m)' /\ Strangers(m, n)' /\ OneSided(m, n)'
         /\ n \notin outbound[m] => state[n][m] # "disconnected" /\ ~Dialling(n, m)
         /\ (Waits(m, n, "up")' <=> Waits(m, n, "up"))
<1>1. Shorter(m, n) /\ InOrder(m, n)' /\ SameQueues(n, m) /\ SameQueue(n, m) /\ InOrder(n, m)'
  BY HandledPair DEF Before, Pair, Empty
<1>2. Between(n, m)
  <2>1. SameTables(n, m)
    BY DEF SameTables
  <2> QED BY <1>1, <2>1, BetweenParts
<1>3. /\ (Linked(n, m)' <=> Linked(n, m)) /\ (Linked(m, n)' <=> Linked(m, n))
      /\ (Dialling(n, m)' <=> Dialling(n, m))
  BY DEF Linked, Dialling
<1>4. m \in outbound[n] \/ n \in outbound[m]
  BY DEF Before, Pair, Strangers
<1>5. Told(m, n)'
  BY <1>1, <1>2, <1>3, OtherSide DEF Before, Pair, Told, SameQueue
<1>6. Strangers(n, m)' /\ Strangers(m, n)'
  BY <1>4 DEF Strangers
<1>7. OneSided(m, n)'
  BY <1>1, <1>2, <1>3, OtherSide DEF Before, Pair, OneSided, SameQueue
<1>8. n \notin outbound[m] => state[n][m] # "disconnected" /\ ~Dialling(n, m)
  BY DEF Before, Pair, OneSided
<1>9. Waits(m, n, "up")' <=> Waits(m, n, "up")
  BY <1>1 DEF Shorter
<1> QED BY <1>1, <1>2, <1>3, <1>5, <1>6, <1>7, <1>8, <1>9

\* Down: the end of an earlier link, or of the last one.
LEMMA DisconnectedPair ==
  ASSUME TypeOK, Entries, NEW n \in Node, NEW m \in Node, HandleDisconnected(n, m), Before(n, m)
  PROVE  After(n, m)
<1>1. /\ ~Empty(m, n) /\ First(m, n) = "down" /\ job[n] = Idle /\ chan' = Popped(n, m)
      /\ UNCHANGED <<link, job, finding, outbound, replaced>>
      /\ state'[n][m] \in {"none", "disconnected"}
      /\ \A p, q \in Node : ~(p = n /\ q = m) => state'[p][q] = state[p][q]
  <2>1. /\ ~Empty(m, n) /\ First(m, n) = "down" /\ job[n] = Idle /\ chan' = Popped(n, m)
        /\ UNCHANGED <<link, job, finding, outbound, replaced>>
    BY DEF HandleDisconnected, Receives, Empty, First, ghostVars
  <2> QED BY <2>1, DisconnectedTable
<1>2. SameTasks(n, m)
  BY <1>1 DEF SameTasks, Does, Dialling
<1>3. /\ Between(n, m) /\ Shorter(m, n) /\ SameQueue(n, m)
      /\ InOrder(n, m)' /\ InOrder(m, n)'
      /\ (Linked(n, m)' <=> Linked(n, m)) /\ (Linked(m, n)' <=> Linked(m, n))
      /\ (Dialling(n, m)' <=> Dialling(n, m))
      /\ Told(m, n)' /\ Strangers(n, m)' /\ Strangers(m, n)' /\ OneSided(m, n)'
      /\ n \notin outbound[m] => state[n][m] # "disconnected" /\ ~Dialling(n, m)
      /\ (Waits(m, n, "up")' <=> Waits(m, n, "up"))
  BY <1>1, <1>2, TakenPair
<1>4. \A s \in {"sync", "back", "mark"} : ~Does(n, m, s) /\ ~Does(n, m, s)'
  BY <1>1, TaskEffect DEF Does
<1>5. Linked(n, m) => Waits(m, n, "up")
  BY <1>1, <1>3, Both DEF Shorter
<1>6. Told(n, m)'
  BY <1>1, <1>3, <1>4, <1>5 DEF Told
<1>7. OneSided(n, m)'
  BY <1>1, <1>3, <1>4, Both DEF OneSided, Shorter
<1>8. Half(n, m)'
  BY <1>1, <1>3, <1>4
     DEF Before, Half, Stays, Asked, Done, Unsynced, WillConnect, SameQueue, Shorter, Between
<1>9. Half(m, n)'
  <2>1. Linked(m, n) => Waits(m, n, "up")
    BY <1>5, Both
  <2> QED BY <1>1, <1>3, <1>4, <2>1
          DEF Before, Half, Stays, Asked, Done, Unsynced, WillConnect, SameQueue, Shorter, Between
<1> QED BY <1>3, <1>6, <1>7, <1>8, <1>9 DEF After, Pair

\* Without an Up in the queue all that is in it was sent on this link.
LEMMA AllRecent ==
  ASSUME NEW n, NEW m, NEW t, Waits(n, m, t), ~Waits(n, m, "up")
  PROVE  Recent(n, m, t)
<1>1. PICK i \in 1 .. Len(chan[n][m]) : chan[n][m][i].type = t
  BY DEF Waits, HasType
<1>2. \A k \in 1 .. Len(chan[n][m]) : chan[n][m][k].type # "up"
  BY DEF Waits, HasType
<1> QED BY <1>1, <1>2 DEF Recent, HasNew

\* A message that leaves the entry as it is: who is not connected will hear of it by a Down.
LEMMA MessagePair ==
  ASSUME TypeOK, Entries, NEW n \in Node, NEW m \in Node, Before(n, m),
         ~Empty(m, n), First(m, n) \notin {"up", "down"}, chan' = Popped(n, m),
         UNCHANGED <<link, finding, outbound, replaced, state>>, SameTasks(n, m)
  PROVE  /\ Between(n, m) /\ Shorter(m, n) /\ SameQueue(n, m)
         /\ Pair(n, m)' /\ Pair(m, n)'
         /\ (Linked(n, m)' <=> Linked(n, m)) /\ (Linked(m, n)' <=> Linked(m, n))
         /\ (Waits(m, n, "up")' <=> Waits(m, n, "up"))
<1>1. /\ Between(n, m) /\ Shorter(m, n) /\ SameQueue(n, m)
      /\ InOrder(n, m)' /\ InOrder(m, n)'
      /\ (Linked(n, m)' <=> Linked(n, m)) /\ (Linked(m, n)' <=> Linked(m, n))
      /\ (Dialling(n, m)' <=> Dialling(n, m))
      /\ Told(m, n)' /\ Strangers(n, m)' /\ Strangers(m, n)' /\ OneSided(m, n)'
      /\ n \notin outbound[m] => state[n][m] # "disconnected" /\ ~Dialling(n, m)
      /\ (Waits(m, n, "up")' <=> Waits(m, n, "up"))
  BY TakenPair
<1>2. ~Linked(n, m)' => ~Empty(m, n)'
  BY <1>1, Both DEF Shorter
<1>3. Told(n, m)'
  BY <1>1, <1>2 DEF Before, Pair, Told
<1>4. OneSided(n, m)'
  BY <1>1 DEF OneSided
<1> QED BY <1>1, <1>3, <1>4 DEF Pair

\* Connect: the answer is a Sync of all that the peer lacks.
LEMMA ConnectPair ==
  ASSUME TypeOK, MeshInv, Entries, NEW n \in Node, NEW m \in Node, HandleConnect(n, m),
         Before(n, m)
  PROVE  After(n, m)
<1>1. /\ ~Empty(m, n) /\ First(m, n) = "connect" /\ job[n] = Idle /\ chan' = Popped(n, m)
      /\ UNCHANGED <<link, finding, outbound, replaced, state>>
  BY DEF HandleConnect, Receives, Empty, First
<1>2. /\ job'[n].step = "sync" /\ job'[n].peer = m /\ job[n].step = "idle"
      /\ \A p \in Node \ {n} : job'[p] = job[p]
  BY ConnectTask, TaskEffect
<1>3. SameTasks(n, m)
  <2>1. \A p, q \in Node : ~(p = n /\ q = m) =>
          \A s \in {"sync", "back", "mark"} : Does(p, q, s)' <=> Does(p, q, s)
    BY <1>2, TaskFrame
  <2> QED BY <1>1, <2>1 DEF SameTasks, Dialling
<1>4. /\ Between(n, m) /\ Shorter(m, n) /\ SameQueue(n, m)
      /\ Pair(n, m)' /\ Pair(m, n)'
      /\ (Linked(n, m)' <=> Linked(n, m)) /\ (Linked(m, n)' <=> Linked(m, n))
      /\ (Waits(m, n, "up")' <=> Waits(m, n, "up"))
  BY <1>1, <1>3, MessagePair
<1>5. /\ Does(n, m, "sync")' /\ ~Does(n, m, "mark")'
      /\ \A s \in {"sync", "back", "mark"} : ~Does(n, m, s)
  BY <1>2 DEF Does
<1>6. Half(n, m)'
  BY <1>5, CoversNow DEF Half, Done
<1>7. Half(m, n)'
  <2> SUFFICES ASSUME Linked(m, n)
               PROVE  Asked(m, n)' \/ (Covered(m, n)' /\ Done(m, n)')
                      \/ (Unsynced(m, n)' /\ WillConnect(m, n)')
    BY <1>4 DEF Half
  <2>1. Asked(m, n) => Asked(m, n)'
    BY <1>1, <1>4 DEF Asked, SameQueue
  <2>2. Done(m, n) => Done(m, n)'
    BY <1>1, <1>4, <1>5, OtherSide DEF Before, Done, Shorter
  <2>3. Unsynced(m, n) => Unsynced(m, n)'
    BY <1>1, <1>4, <1>5, OtherSide DEF Before, Unsynced, Shorter
  <2>4. WillConnect(m, n) => WillConnect(m, n)'
    BY <1>1, <1>4, <1>5 DEF WillConnect, Shorter, SameQueue
  <2> QED BY <1>4, <2>1, <2>2, <2>3, <2>4 DEF Before, Half, Stays
<1> QED BY <1>4, <1>6, <1>7 DEF After

\* Sync: applied, and the peer about to be marked.
LEMMA SyncPair ==
  ASSUME TypeOK, Entries, NEW n \in Node, NEW m \in Node, HandleSync(n, m), Before(n, m)
  PROVE  After(n, m)
<1>1. /\ ~Empty(m, n) /\ First(m, n) = "sync" /\ job[n] = Idle /\ chan' = Popped(n, m)
      /\ UNCHANGED <<link, finding, outbound, replaced, state>>
  BY DEF HandleSync, Receives, Empty, First, tableVars
<1>2. /\ job'[n].step = "mark" /\ job'[n].peer = m /\ job[n].step = "idle"
      /\ \A p \in Node \ {n} : job'[p] = job[p]
  BY TaskEffect
<1>3. SameTasks(n, m)
  <2>1. \A p, q \in Node : ~(p = n /\ q = m) =>
          \A s \in {"sync", "back", "mark"} : Does(p, q, s)' <=> Does(p, q, s)
    BY <1>2, TaskFrame
  <2> QED BY <1>1, <2>1 DEF SameTasks, Dialling
<1>4. Between(n, m) /\ Shorter(m, n) /\ SameQueue(n, m)
      /\ InOrder(n, m)' /\ InOrder(m, n)'
      /\ (Linked(n, m)' <=> Linked(n, m)) /\ (Linked(m, n)' <=> Linked(m, n))
      /\ (Waits(m, n, "up")' <=> Waits(m, n, "up"))
      /\ Pair(n, m)' /\ Pair(m, n)'
  BY <1>1, <1>3, MessagePair DEF Pair
<1>5. /\ Does(n, m, "mark")' /\ ~Does(n, m, "sync")'
      /\ \A s \in {"sync", "back", "mark"} : ~Does(n, m, s)
  BY <1>2 DEF Does
<1>6. Half(n, m)'
  <2> SUFFICES ASSUME Linked(n, m)
               PROVE  Asked(n, m)' \/ (Covered(n, m)' /\ Done(n, m)')
                      \/ (Unsynced(n, m)' /\ WillConnect(n, m)')
    BY <1>4 DEF Half
  <2>1. Asked(n, m) => Asked(n, m)'
    BY <1>1, <1>4 DEF Asked, Shorter, SameQueue
  <2>2. Done(n, m) => Done(n, m)'
    BY <1>1, <1>4, <1>5, OtherSide DEF Before, Done, SameQueue
  <2>3. Unsynced(n, m) => Unsynced(n, m)'
    BY <1>1, <1>4, <1>5, OtherSide DEF Before, Unsynced, SameQueue
  <2>4. WillConnect(n, m) => WillConnect(n, m)'
    BY <1>1, <1>4, OtherSide DEF Before, WillConnect, Shorter, SameQueue
  <2> QED BY <1>4, <2>1, <2>2, <2>3, <2>4 DEF Before, Half, Stays
<1>7. Half(m, n)'
  <2> SUFFICES ASSUME Linked(m, n)
               PROVE  Asked(m, n)' \/ (Covered(m, n)' /\ Done(m, n)')
                      \/ (Unsynced(m, n)' /\ WillConnect(m, n)')
    BY <1>4 DEF Half
  <2>1. Asked(m, n) => Asked(m, n)'
    BY <1>1, <1>4 DEF Asked, SameQueue
  <2>2. Done(m, n) => Done(m, n)'
    BY <1>1, <1>4, <1>5, OtherSide DEF Before, Done, Shorter
  <2>3. ~Recent(m, n, "sync") => Waits(m, n, "up")
    BY <1>1, <1>4, AllRecent DEF Shorter
  <2>4. Unsynced(m, n) => Unsynced(m, n)'
    BY <1>1, <1>4, <1>5, <2>3, OtherSide DEF Before, Unsynced, Shorter
  <2>5. WillConnect(m, n) => WillConnect(m, n)'
    BY <1>1, <1>4, <1>5 DEF WillConnect, Shorter, SameQueue
  <2> QED BY <1>4, <2>1, <2>2, <2>4, <2>5 DEF Before, Half, Stays
<1> QED BY <1>4, <1>6, <1>7 DEF After

\* Push: no part of the handshake.
LEMMA PushPair ==
  ASSUME TypeOK, Entries, NEW n \in Node, NEW m \in Node, HandlePush(n, m), Before(n, m)
  PROVE  After(n, m)
<1>1. /\ ~Empty(m, n) /\ First(m, n) = "push" /\ job[n] = Idle /\ chan' = Popped(n, m)
      /\ UNCHANGED <<link, finding, outbound, replaced, state>>
  BY DEF HandlePush, Receives, Empty, First, tableVars, ghostVars
<1>2. /\ job'[n].step \in {"idle", "relay"} /\ job[n].step = "idle"
      /\ \A p \in Node \ {n} : job'[p] = job[p]
  BY TaskEffect
<1>3. SameTasks(n, m)
  <2>1. \A p, q \in Node : ~(p = n /\ q = m) =>
          \A s \in {"sync", "back", "mark"} : Does(p, q, s)' <=> Does(p, q, s)
    BY <1>2, TaskFrame
  <2> QED BY <1>1, <2>1 DEF SameTasks, Dialling
<1>4. /\ Between(n, m) /\ Shorter(m, n) /\ SameQueue(n, m)
      /\ Pair(n, m)' /\ Pair(m, n)'
      /\ (Linked(n, m)' <=> Linked(n, m)) /\ (Linked(m, n)' <=> Linked(m, n))
      /\ (Waits(m, n, "up")' <=> Waits(m, n, "up"))
  BY <1>1, <1>3, MessagePair
<1>5. \A s \in {"sync", "back", "mark"} : ~Does(n, m, s) /\ ~Does(n, m, s)'
  BY <1>2 DEF Does
<1>6. Half(n, m)'
  BY <1>1, <1>4, <1>5, OtherSide
     DEF Before, Half, Stays, Asked, Done, Unsynced, WillConnect, SameQueue, Shorter
<1>7. Half(m, n)'
  BY <1>1, <1>4, <1>5, OtherSide
     DEF Before, Half, Stays, Asked, Done, Unsynced, WillConnect, SameQueue, Shorter
<1> QED BY <1>4, <1>6, <1>7 DEF After

\* A step of n's that sends e to m on the link, or nothing, and touches no table: nothing
\* but a task can be over.
Sends(n, m, e) ==
  /\ e.type \in {"connect", "sync", "push"}
  /\ \/ Linked(n, m) /\ chan'[n][m] = Append(chan[n][m], e)
     \/ chan'[n][m] = chan[n][m]
  /\ \A p, q \in Node : ~(p = n /\ q = m) => chan'[p][q] = chan[p][q]
  /\ UNCHANGED <<link, finding, outbound, replaced, state>> /\ SameTasks(n, m)
  /\ Does(n, m, "sync")' => Does(n, m, "sync")
  /\ Does(n, m, "mark")' => Does(n, m, "mark")

\* What is said of the pair then, when the message has type t.
Sent(n, m, t) ==
  /\ Between(n, m) /\ Pair(n, m)' /\ Pair(m, n)'
  /\ SameQueue(m, n) /\ (SameQueue(n, m) \/ Longer(n, m, t))
  /\ (Linked(n, m)' <=> Linked(n, m)) /\ (Linked(m, n)' <=> Linked(m, n))

\* A message that is sent leaves the pair in order.
LEMMA SentPair ==
  ASSUME TypeOK, NEW n \in Node, NEW m \in Node, Before(n, m), NEW e \in Message,
         Sends(n, m, e)
  PROVE  Sent(n, m, e.type)
<1>1. /\ e.type \in {"connect", "sync", "push"}
      /\ \/ Linked(n, m) /\ chan'[n][m] = Append(chan[n][m], e)
         \/ chan'[n][m] = chan[n][m]
      /\ \A p, q \in Node : ~(p = n /\ q = m) => chan'[p][q] = chan[p][q]
      /\ UNCHANGED <<link, finding, outbound, replaced, state>> /\ SameTasks(n, m)
      /\ Does(n, m, "sync")' => Does(n, m, "sync")
      /\ Does(n, m, "mark")' => Does(n, m, "mark")
  BY DEF Sends
<1>2. (Linked(n, m)' <=> Linked(n, m)) /\ (Linked(m, n)' <=> Linked(m, n))
  BY <1>1 DEF Linked
<1>3. SameQueue(m, n) /\ InOrder(m, n)'
  BY <1>1, <1>2, QueueStays, OrderStays DEF Before, Pair
<1>4. InOrder(n, m)' /\ (SameQueue(n, m) \/ (Linked(n, m) /\ Longer(n, m, e.type)))
  <2>1. CASE Linked(n, m) /\ chan'[n][m] = Append(chan[n][m], e)
    BY <1>1, <1>2, <2>1, QueueGrows DEF Before, Pair
  <2>2. CASE chan'[n][m] = chan[n][m]
    BY <1>1, <1>2, <2>2, QueueStays, OrderStays DEF Before, Pair
  <2> QED BY <1>1, <2>1, <2>2
<1>5. Between(n, m)
  <2>1. SameTables(n, m)
    BY <1>1 DEF SameTables
  <2>2. SameQueues(n, m)
    BY <1>1 DEF SameQueues, Linked
  <2> QED BY <1>1, <2>1, <2>2, BetweenParts
<1>6. Dialling(n, m)' <=> Dialling(n, m)
  BY <1>1 DEF Dialling
<1>7. Told(n, m)' /\ OneSided(n, m)'
  BY <1>1, <1>2, <1>3, <1>6 DEF Before, Pair, Told, OneSided, SameQueue
<1>8. Told(m, n)'
  BY <1>1, <1>2, <1>4, <1>5, OtherSide, Both DEF Before, Pair, Told, SameQueue, Longer
<1>9. OneSided(m, n)'
  BY <1>1, <1>2, <1>4, <1>5, OtherSide, Both DEF Before, Pair, OneSided, SameQueue, Longer
<1>10. Strangers(n, m)'
  BY <1>1, <1>2, <1>4 DEF Before, Pair, Strangers, SameQueue
<1>11. Strangers(m, n)'
  BY <1>1, <1>2, <1>3, <1>5, OtherSide DEF Before, Pair, Strangers, SameQueue
<1> QED BY <1>2, <1>3, <1>4, <1>5, <1>7, <1>8, <1>9, <1>10, <1>11 DEF Pair, Sent

\* The Sync goes out, or there is no link any more.
LEMMA SendSyncPair ==
  ASSUME TypeOK, NEW n \in Node, NEW m \in Node, m = job[n].peer, SendSync(n), Before(n, m)
  PROVE  After(n, m)
<1> DEFINE e == Event("sync", {}, job[n].changes)
<1>1. /\ job[n].step = "sync" /\ job[n].changes \in SUBSET Change /\ Send(n, m, e)
      /\ UNCHANGED <<link, finding, outbound, replaced, state>>
  BY DEF SendSync, TypeOK, tableVars, ghostVars
<1>2. e \in Message /\ e.type = "sync"
  BY <1>1, MessageTypes
<1> HIDE DEF e
<1>3. /\ Linked(n, m) => chan'[n][m] = Append(chan[n][m], e)
      /\ ~Linked(n, m) => chan'[n][m] = chan[n][m]
      /\ \A p, q \in Node : ~(p = n /\ q = m) => chan'[p][q] = chan[p][q]
  BY <1>1, <1>2, SendEffect
<1>4. /\ IF Linked(n, m) THEN job'[n].step = "back" /\ job'[n].peer = m ELSE job'[n] = Idle
      /\ \A p \in Node \ {n} : job'[p] = job[p]
  BY TaskContinues
<1>5. /\ Does(n, m, "sync") /\ ~Does(n, m, "mark") /\ ~Does(n, m, "sync")' /\ ~Does(n, m, "mark")'
      /\ Linked(n, m) => Does(n, m, "back")'
  BY <1>1, <1>4, TaskEffect DEF Does
<1>6. SameTasks(n, m)
  <2>1. \A p, q \in Node : ~(p = n /\ q = m) =>
          \A s \in {"sync", "back", "mark"} : Does(p, q, s)' <=> Does(p, q, s)
    BY <1>4, TaskEffect, TaskFrame
  <2> QED BY <1>1, <2>1 DEF SameTasks, Dialling
<1>7. /\ Between(n, m) /\ Pair(n, m)' /\ Pair(m, n)' /\ SameQueue(m, n)
      /\ SameQueue(n, m) \/ Longer(n, m, "sync")
      /\ (Linked(n, m)' <=> Linked(n, m)) /\ (Linked(m, n)' <=> Linked(m, n))
  <2>1. \/ Linked(n, m) /\ chan'[n][m] = Append(chan[n][m], e)
        \/ chan'[n][m] = chan[n][m]
    BY <1>3
  <2>2. /\ Does(n, m, "sync")' => Does(n, m, "sync")
        /\ Does(n, m, "mark")' => Does(n, m, "mark")
    BY <1>5
  <2>3. e.type \in {"connect", "sync", "push"}
    BY <1>2
  <2>4. Sends(n, m, e)
    BY <1>1, <1>3, <1>6, <2>1, <2>2, <2>3, Zenon DEF Sends
  <2>5. Sent(n, m, e.type)
    BY <1>2, <2>4, SentPair
  <2> QED BY <1>2, <2>5 DEF Sent
<1>8. Linked(n, m) => Longer(n, m, "sync")
  BY <1>2, <1>3, <1>7, QueueGrows DEF Before, Pair
<1>9. Half(n, m)'
  <2> SUFFICES ASSUME Linked(n, m)
               PROVE  Asked(n, m)' \/ (Covered(n, m)' /\ Done(n, m)')
                      \/ (Unsynced(n, m)' /\ WillConnect(n, m)')
    BY <1>7 DEF Half
  <2>1. Asked(n, m) => Asked(n, m)'
    BY <1>1, <1>7, <1>8 DEF Asked, SameQueue, Longer
  <2>2. Done(n, m)'
    BY <1>8 DEF Done, Longer
  <2>3. ~Unsynced(n, m)
    BY <1>5 DEF Unsynced
  <2> QED BY <1>7, <2>1, <2>2, <2>3 DEF Before, Half, Stays
<1>10. Half(m, n)'
  <2> SUFFICES ASSUME Linked(m, n)
               PROVE  Asked(m, n)' \/ (Covered(m, n)' /\ Done(m, n)')
                      \/ (Unsynced(m, n)' /\ WillConnect(m, n)')
    BY <1>7 DEF Half
  <2>0. Linked(n, m) /\ Longer(n, m, "sync")
    BY <1>8, Both
  <2>1. Asked(m, n) => Asked(m, n)'
    BY <1>1, <1>7, <2>0 DEF Asked, SameQueue, Longer
  <2>2. Done(m, n) => Done(m, n)'
    BY <1>1, <1>5, <1>7, OtherSide DEF Before, Done, SameQueue
  <2>3. Unsynced(m, n) => Unsynced(m, n)'
    BY <1>1, <1>5, <1>7, OtherSide DEF Before, Unsynced, SameQueue
  <2>4. WillConnect(m, n) => WillConnect(m, n)'
    BY <1>1, <1>5, <1>7, <2>0 DEF WillConnect, SameQueue, Longer
  <2> QED BY <1>7, <2>1, <2>2, <2>3, <2>4 DEF Before, Half, Stays
<1> QED BY <1>7, <1>9, <1>10 DEF After

\* The Connect that asks for the other half, unless it is over.
LEMMA ConnectBackPair ==
  ASSUME TypeOK, NEW n \in Node, NEW m \in Node, m = job[n].peer, ConnectBack(n), Before(n, m)
  PROVE  After(n, m)
<1> DEFINE e == ConnectMsg(n)
<1>1. /\ job[n].step = "back"
      /\ IF state[n][m] = "synced" THEN UNCHANGED chan ELSE Send(n, m, e)
      /\ UNCHANGED <<link, finding, outbound, replaced, state>>
  BY DEF ConnectBack, tableVars, ghostVars
<1>2. e \in Message /\ e.type = "connect"
  BY ConnectType
<1> HIDE DEF e
<1>3. /\ IF state[n][m] # "synced" /\ Linked(n, m) THEN chan'[n][m] = Append(chan[n][m], e)
         ELSE chan'[n][m] = chan[n][m]
      /\ \A p, q \in Node : ~(p = n /\ q = m) => chan'[p][q] = chan[p][q]
  <2>1. CASE state[n][m] = "synced"
    BY <1>1, <2>1
  <2>2. CASE state[n][m] # "synced"
    <3>1. Send(n, m, e)
      BY <1>1, <2>2
    <3> QED BY <1>2, <2>2, <3>1, SendEffect
  <2> QED BY <2>1, <2>2
<1>4. job'[n] = Idle /\ \A p \in Node \ {n} : job'[p] = job[p]
  BY TaskContinues
<1>5. /\ Does(n, m, "back") /\ ~Does(n, m, "sync") /\ ~Does(n, m, "mark")
      /\ ~Does(n, m, "sync")' /\ ~Does(n, m, "mark")'
  BY <1>1, <1>4, TaskEffect DEF Does
<1>6. SameTasks(n, m)
  <2>1. \A p, q \in Node : ~(p = n /\ q = m) =>
          \A s \in {"sync", "back", "mark"} : Does(p, q, s)' <=> Does(p, q, s)
    BY <1>4, TaskEffect, TaskFrame
  <2> QED BY <1>1, <2>1 DEF SameTasks, Dialling
<1>7. /\ Between(n, m) /\ Pair(n, m)' /\ Pair(m, n)' /\ SameQueue(m, n)
      /\ SameQueue(n, m) \/ Longer(n, m, "connect")
      /\ (Linked(n, m)' <=> Linked(n, m)) /\ (Linked(m, n)' <=> Linked(m, n))
  <2>1. \/ Linked(n, m) /\ chan'[n][m] = Append(chan[n][m], e)
        \/ chan'[n][m] = chan[n][m]
    BY <1>3
  <2>2. /\ Does(n, m, "sync")' => Does(n, m, "sync")
        /\ Does(n, m, "mark")' => Does(n, m, "mark")
    BY <1>5
  <2>3. e.type \in {"connect", "sync", "push"}
    BY <1>2
  <2>4. Sends(n, m, e)
    BY <1>1, <1>3, <1>6, <2>1, <2>2, <2>3, Zenon DEF Sends
  <2>5. Sent(n, m, e.type)
    BY <1>2, <2>4, SentPair
  <2> QED BY <1>2, <2>5 DEF Sent
<1>8. state[n][m] # "synced" /\ Linked(n, m) => Longer(n, m, "connect")
  BY <1>2, <1>3, <1>7, QueueGrows DEF Before, Pair
<1>9. Half(n, m)'
  <2>1. Asked(n, m) => Asked(n, m)'
    BY <1>1, <1>7 DEF Asked, SameQueue, Longer
  <2>2. Done(n, m) => Done(n, m)'
    BY <1>5, <1>7, OtherSide DEF Before, Done, SameQueue, Longer
  <2>3. Unsynced(n, m) => Unsynced(n, m)'
    BY <1>5, <1>7, OtherSide DEF Before, Unsynced, SameQueue, Longer
  <2>4. WillConnect(n, m) => WillConnect(n, m)'
    BY <1>1, <1>7, OtherSide DEF Before, WillConnect, SameQueue, Longer
  <2> QED BY <1>7, <2>1, <2>2, <2>3, <2>4 DEF Before, Half, Stays
<1>10. Half(m, n)'
  <2> SUFFICES ASSUME Linked(m, n)
               PROVE  Asked(m, n)' \/ (Covered(m, n)' /\ Done(m, n)')
                      \/ (Unsynced(m, n)' /\ WillConnect(m, n)')
    BY <1>7 DEF Half
  <2>1. Asked(m, n) => Asked(m, n)'
    BY <1>1, <1>7 DEF Asked, SameQueue, Longer
  <2>2. Done(m, n) => Done(m, n)'
    BY <1>1, <1>5, <1>7, OtherSide DEF Before, Done, SameQueue
  <2>3. Unsynced(m, n) => Unsynced(m, n)'
    BY <1>1, <1>5, <1>7, OtherSide DEF Before, Unsynced, SameQueue
  <2>4. Unsynced(m, n) /\ WillConnect(m, n) => WillConnect(m, n)' \/ Asked(m, n)'
    <3>1. CASE ~Waits(m, n, "up") /\ Unsynced(m, n)
      <4>1. Longer(n, m, "connect")
        BY <1>8, <3>1, Both DEF Unsynced
      <4> QED BY <4>1 DEF Asked, Longer
    <3>2. CASE Waits(m, n, "up")
      BY <1>1, <1>7, <3>2 DEF WillConnect, SameQueue, Longer
    <3> QED BY <3>1, <3>2
  <2> QED BY <1>7, <2>1, <2>2, <2>3, <2>4 DEF Before, Half, Stays
<1> QED BY <1>7, <1>9, <1>10 DEF After

\* The mark that ends the half of the handshake in which m sent the Sync.
LEMMA MarkSyncedPair ==
  ASSUME TypeOK, Entries, NEW n \in Node, NEW m \in Node, m = job[n].peer, MarkSynced(n),
         Before(n, m)
  PROVE  After(n, m)
<1>1. /\ job[n].step = "mark" /\ UNCHANGED <<chan, link, finding, outbound, replaced>>
      /\ state'[n][m] = IF state[n][m] = "none" THEN "none" ELSE "synced"
      /\ \A p, q \in Node : ~(p = n /\ q = m) => state'[p][q] = state[p][q]
  <2>1. job[n].step = "mark" /\ UNCHANGED <<chan, link, finding, outbound, replaced>>
    BY DEF MarkSynced, netVars, ghostVars
  <2> QED BY <2>1, MarkedTable
<1>2. job'[n] = Idle /\ \A p \in Node \ {n} : job'[p] = job[p]
  BY TaskContinues
<1>3. /\ Does(n, m, "mark") /\ ~Does(n, m, "sync") /\ ~Does(n, m, "back")
      /\ ~Does(n, m, "sync")' /\ ~Does(n, m, "mark")'
  BY <1>1, <1>2, TaskEffect DEF Does
<1>4. SameTasks(n, m)
  <2>1. \A p, q \in Node : ~(p = n /\ q = m) =>
          \A s \in {"sync", "back", "mark"} : Does(p, q, s)' <=> Does(p, q, s)
    BY <1>2, TaskEffect, TaskFrame
  <2> QED BY <1>1, <2>1 DEF SameTasks, Dialling
<1>5. (Linked(n, m)' <=> Linked(n, m)) /\ (Linked(m, n)' <=> Linked(m, n))
      /\ (Dialling(n, m)' <=> Dialling(n, m))
  BY <1>1 DEF Linked, Dialling
<1>6. SameQueue(n, m) /\ SameQueue(m, n) /\ InOrder(n, m)' /\ InOrder(m, n)'
  BY <1>1, <1>5, QueueStays, OrderStays DEF Before, Pair
<1>7. Between(n, m)
  <2>1. SameTables(n, m) /\ SameQueues(n, m)
    BY <1>1 DEF SameTables, SameQueues, Linked
  <2> QED BY <1>4, <2>1, BetweenParts
<1>8. Told(n, m)'
  BY <1>1, <1>3, <1>5, <1>6 DEF Before, Pair, Told, SameQueue
<1>9. OneSided(n, m)'
  BY <1>1, <1>3, <1>5, <1>6 DEF Before, Pair, OneSided, SameQueue
<1>10. Told(m, n)' /\ OneSided(m, n)'
  BY <1>1, <1>5, <1>6, <1>7, OtherSide DEF Before, Pair, Told, OneSided, SameQueue
<1>11. Strangers(n, m)' /\ Strangers(m, n)'
  BY <1>1, <1>3, <1>5, <1>6, <1>7, OtherSide DEF Before, Pair, Strangers, SameQueue
<1>12. Half(n, m)'
  BY <1>1, <1>3, <1>5, <1>6, <1>7, OtherSide
     DEF Before, Half, Stays, Asked, Done, Unsynced, WillConnect, SameQueue
<1>13. Half(m, n)'
  <2> SUFFICES ASSUME Linked(m, n)
               PROVE  Asked(m, n)' \/ (Covered(m, n)' /\ Done(m, n)')
                      \/ (Unsynced(m, n)' /\ WillConnect(m, n)')
    BY <1>5 DEF Half
  <2>1. Asked(m, n) => Asked(m, n)'
    BY <1>1, <1>6 DEF Asked, SameQueue
  <2>2. ~Waits(m, n, "up") => state'[n][m] = "synced"
    BY <1>1, Both DEF Before, Pair, Told
  <2>3. Done(m, n) => Done(m, n)'
    BY <1>6, <1>7, <2>2, OtherSide DEF Before, Done, SameQueue
  <2>4. Unsynced(m, n) => Unsynced(m, n)'
    BY <1>3, <1>6, <1>7, OtherSide DEF Before, Unsynced, SameQueue
  <2>5. WillConnect(m, n) => WillConnect(m, n)'
    BY <1>1, <1>3, <1>6 DEF WillConnect, SameQueue
  <2> QED BY <1>5, <2>1, <2>3, <2>4, <2>5 DEF Before, Half, Stays
<1> QED BY <1>6, <1>7, <1>8, <1>9, <1>10, <1>11, <1>12, <1>13 DEF After, Pair

\* A push to m is no part of the handshake, either.
LEMMA OfferPair ==
  ASSUME TypeOK, NEW n \in Node, NEW m \in Node, Relay(n, m) \/ PushLocal(n, m), Before(n, m)
  PROVE  After(n, m)
<1>1. UNCHANGED <<link, finding, outbound, replaced, state>>
  BY DEF Relay, PushLocal, tableVars
<1>2. PICK S \in SUBSET Change, fresh \in BOOLEAN : Offer(n, m, S, fresh)
  <2>1. job[n].changes \in SUBSET Change /\ job[n].fresh \in BOOLEAN
        /\ pending[n].changes \in SUBSET Change
    BY DEF TypeOK
  <2> QED BY <2>1 DEF Relay, PushLocal
<1> DEFINE e == Event("push", {}, S)
<1>3. e \in Message /\ e.type = "push"
  BY MessageTypes
<1>4. /\ \A p, q \in Node : ~(p = n /\ q = m) => chan'[p][q] = chan[p][q]
      /\ \/ Linked(n, m) /\ chan'[n][m] = Append(chan[n][m], e)
         \/ chan'[n][m] = chan[n][m]
  BY <1>2, OfferEffect
<1> HIDE DEF e
<1>5. \A p, q : \A s \in {"sync", "back", "mark"} : p \in Node => (Does(p, q, s)' <=> Does(p, q, s))
  <2>1. CASE Relay(n, m)
    <3>1. job[n].step = "relay" /\ job'[n].step \in {"relay", "idle"}
          /\ \A p \in Node \ {n} : job'[p] = job[p]
      BY <2>1, TaskContinues, TaskEffect DEF Relay
    <3> QED BY <3>1 DEF Does
  <2>2. CASE PushLocal(n, m)
    BY <2>2 DEF PushLocal, Does
  <2> QED BY <2>1, <2>2
<1>6. SameTasks(n, m)
  BY <1>1, <1>5 DEF SameTasks, Dialling
<1>7. /\ Between(n, m) /\ Pair(n, m)' /\ Pair(m, n)' /\ SameQueue(m, n)
      /\ SameQueue(n, m) \/ Longer(n, m, "push")
      /\ (Linked(n, m)' <=> Linked(n, m)) /\ (Linked(m, n)' <=> Linked(m, n))
  <2>1. Sends(n, m, e)
    BY <1>1, <1>3, <1>4, <1>5, <1>6 DEF Sends
  <2>2. Sent(n, m, e.type)
    BY <1>3, <2>1, SentPair
  <2> QED BY <1>3, <2>2 DEF Sent
<1>8. Half(n, m)'
  BY <1>1, <1>5, <1>7
     DEF Before, Half, Stays, Asked, Done, Unsynced, WillConnect, SameQueue, Longer
<1>9. Half(m, n)'
  BY <1>1, <1>5, <1>7
     DEF Before, Half, Stays, Asked, Done, Unsynced, WillConnect, SameQueue, Longer
<1> QED BY <1>7, <1>8, <1>9 DEF After

-----------------------------------------------------------------------------
(* Every pair, in every step. *)

\* A step that changes nothing the handshakes speak of, except documents and pushes.
LEMMA StillPair ==
  ASSUME NEW n \in Node, NEW m \in Node, Pair(n, m), Half(n, m), Stays(n, m),
         UNCHANGED <<chan, link, state, outbound, replaced, job>>,
         Dialling(n, m)' <=> Dialling(n, m)
  PROVE  Pair(n, m)' /\ Half(n, m)'
<1>1. Linked(n, m)' <=> Linked(n, m)
  BY DEF Linked
<1>2. \A s : (Does(n, m, s)' <=> Does(n, m, s)) /\ (Does(m, n, s)' <=> Does(m, n, s))
  BY DEF Does
<1>3. SameQueue(n, m) /\ SameQueue(m, n) /\ InOrder(n, m)'
  BY <1>1, QueueStays, OrderStays DEF Pair
<1>4. Pair(n, m)'
  BY <1>1, <1>2, <1>3 DEF Pair, Told, Strangers, OneSided, SameQueue
<1>5. Half(n, m)'
  BY <1>1, <1>2, <1>3 DEF Half, Stays, Asked, Done, Unsynced, WillConnect, SameQueue
<1> QED BY <1>4, <1>5

\* The transport loop takes an event, or goes on.
LEMMA LoopPair ==
  ASSUME TypeOK, MeshInv, Entries, NEW n \in Node, NEW m \in Node, Before(n, m),
         \/ Handle(n, m) \/ Relay(n, m)
         \/ m = job[n].peer /\ (SendSync(n) \/ ConnectBack(n) \/ MarkSynced(n))
  PROVE  After(n, m)
<1>1. CASE Handle(n, m)
  BY <1>1, ConnectedPair, DisconnectedPair, ConnectPair, SyncPair, PushPair DEF Handle
<1>2. CASE Relay(n, m)
  BY <1>2, OfferPair
<1>3. CASE m = job[n].peer /\ (SendSync(n) \/ ConnectBack(n) \/ MarkSynced(n))
  BY <1>3, SendSyncPair, ConnectBackPair, MarkSyncedPair
<1> QED BY <1>1, <1>2, <1>3

\* At first there are no entries, queues or tasks.
LEMMA HandshakesInit == Init => Entries /\ OwnChanges /\ Handshakes
<1> SUFFICES ASSUME Init PROVE Entries /\ OwnChanges /\ Handshakes
  OBVIOUS
<1>1. ASSUME NEW n \in Node, NEW m \in Node
      PROVE  /\ chan[n][m] = <<>> /\ state[n][m] = "none" /\ ~Linked(n, m)
             /\ m \notin outbound[n] /\ ~Dialling(n, m)
             /\ \A s \in {"sync", "mark"} : ~Does(n, m, s)
  <2>1. ~Linked(n, m)
    BY DEF Init, Linked
  <2>2. ~Dialling(n, m)
    BY DEF Init, Dialling, Nobody
  <2>3. \A s \in {"sync", "mark"} : ~Does(n, m, s)
    BY DEF Init, Does, Idle
  <2> QED BY <2>1, <2>2, <2>3 DEF Init
<1>2. \A n \in Node : /\ job[n].peer = None /\ job[n].to = {} /\ job[n].changes = {}
                      /\ pending[n].to = {} /\ pending[n].changes = {}
                      /\ finding[n].peer = None
  BY DEF Init, Idle, Push, Nobody
<1>3. Entries
  BY <1>1, <1>2, ConstantsOK DEF Entries
<1>4. OwnChanges
  <2>1. \A n, m \in Node : ToSet(chan[n][m]) = {}
    BY <1>1 DEF ToSet
  <2> QED BY <1>2, <2>1 DEF OwnChanges
<1>5. ASSUME NEW n \in Node, NEW m \in Node PROVE Pair(n, m) /\ Half(n, m)
  <2>1. InOrder(n, m)
    BY <1>1 DEF InOrder, Orderly
  <2>2. Empty(n, m) /\ Empty(m, n)
    BY <1>1 DEF Empty
  <2> QED BY <1>1, <2>1, <2>2 DEF Pair, Told, Strangers, OneSided, Half
<1> QED BY <1>3, <1>4, <1>5 DEF Handshakes

\* Each step concerns one pair, which keeps what is said of it; so do the others.
LEMMA HandshakesStep ==
  ASSUME TypeOK, MeshInv, LinkInv, [Next]_vars
  PROVE  Handshakes'
<1>1. Entries /\ OwnChanges /\ Handshakes
  BY DEF LinkInv
<1>2. \A p, q \in Node : Pair(p, q) /\ Half(p, q) /\ Stays(p, q)
  BY <1>1, StaysStep DEF Handshakes
<1>3. ASSUME NEW n \in Node, NEW m \in Node, After(n, m) PROVE Handshakes'
  <2>1. ASSUME NEW p \in Node, NEW q \in Node PROVE Pair(p, q)' /\ Half(p, q)'
    <3>1. CASE p = n /\ q = m
      BY <1>3, <3>1 DEF After
    <3>2. CASE p = m /\ q = n
      BY <1>3, <3>2 DEF After
    <3>3. CASE ~(p = n /\ q = m) /\ ~(p = m /\ q = n)
      <4>1. Between(n, m)
        BY <1>3 DEF After
      <4> QED BY <1>2, <3>3, <4>1, Elsewhere
    <3> QED BY <3>1, <3>2, <3>3
  <2> QED BY <2>1 DEF Handshakes
<1>4. ASSUME NEW n \in Node, NEW m \in Node, n # m PROVE Before(n, m)
  BY <1>2, <1>4 DEF Before
<1>5. ASSUME UNCHANGED <<chan, link, state, outbound, replaced, job>>,
             \A p, q \in Node : Dialling(p, q)' <=> Dialling(p, q)
      PROVE  Handshakes'
  <2>1. ASSUME NEW p \in Node, NEW q \in Node PROVE Pair(p, q)' /\ Half(p, q)'
    BY <1>2, <1>5, StillPair
  <2> QED BY <2>1 DEF Handshakes
<1>6. CASE UNCHANGED vars
  <2>1. UNCHANGED <<chan, link, state, outbound, replaced, job, finding>>
    BY <1>6 DEF vars, netVars, tableVars, ghostVars
  <2> QED BY <1>5, <2>1 DEF Dialling
<1>7. ASSUME NEW n \in Node, NEW m \in Node, Handle(n, m) PROVE Handshakes'
  <2>1. n # m
    BY <1>7 DEF Handle, HandleConnected, HandleDisconnected, HandleConnect, HandleSync,
                HandlePush, Receives
  <2> QED BY <1>1, <1>3, <1>4, <1>7, <2>1, LoopPair
<1>8. ASSUME NEW n \in Node, SendSync(n) \/ ConnectBack(n) \/ MarkSynced(n) PROVE Handshakes'
  <2>1. PICK m \in Node : m = job[n].peer
    BY <1>8 DEF SendSync, ConnectBack, MarkSynced, TypeOK
  <2>2. n # m
    BY <1>1, <2>1 DEF Entries
  <2> QED BY <1>1, <1>3, <1>4, <1>8, <2>1, <2>2, LoopPair
<1>9. ASSUME NEW n \in Node, NEW m \in Node, Relay(n, m) \/ PushLocal(n, m) PROVE Handshakes'
  <2>1. n # m
    BY <1>1, <1>9 DEF Entries, Relay, PushLocal
  <2> QED BY <1>3, <1>4, <1>9, <2>1, OfferPair
<1>10. ASSUME NEW n \in Node, Track(n) \/ Dial(n) \/ DialFails(n) PROVE Handshakes'
  <2>1. PICK m \in Node : m = finding[n].peer
    BY <1>10 DEF Track, Dial, DialFails, TypeOK
  <2>2. n # m
    BY <1>1, <2>1 DEF Entries
  <2> QED BY <1>1, <1>3, <1>4, <1>10, <2>1, <2>2, TrackPair, DialPair, DialFailsPair
<1>11. ASSUME NEW n \in Node, NEW m \in Node, Reconnect(n, m) \/ LinkDown(n, m) PROVE Handshakes'
  <2>1. n # m
    BY <1>1, <1>11 DEF Entries, Reconnect, LinkUp, LinkDown
  <2> QED BY <1>1, <1>3, <1>4, <1>11, <2>1, ReconnectPair, LinkDownPair
<1>12. ASSUME NEW n \in Node, NEW m \in Node, Discover(n, m) PROVE Handshakes'
  <2>1. /\ UNCHANGED <<chan, link, state, outbound, replaced, job>>
        /\ finding[n] = Nobody
        /\ finding' = [finding EXCEPT ![n] = [peer |-> m, tracked |-> FALSE]]
    BY <1>12 DEF Discover, netVars, tableVars, ghostVars
  <2>2. /\ finding[n].tracked = FALSE /\ finding'[n].tracked = FALSE
        /\ \A p \in Node \ {n} : finding'[p] = finding[p]
    BY <2>1 DEF TypeOK, Nobody
  <2>3. \A p, q \in Node : Dialling(p, q)' <=> Dialling(p, q)
    BY <2>2 DEF Dialling
  <2> QED BY <1>5, <2>1, <2>3
<1>13. ASSUME NEW n \in Node, NEW x \in Change, Write(n, x) PROVE Handshakes'
  <2>1. UNCHANGED <<chan, link, state, outbound, replaced, job, finding>>
    BY <1>13 DEF Write, netVars, tableVars, ghostVars
  <2> QED BY <1>5, <2>1 DEF Dialling
<1> QED BY <1>6, <1>7, <1>8, <1>9, <1>10, <1>11, <1>12, <1>13
        DEF Next, Loop, Continue, Connecting, Pushing

\* The inductive invariant of the handshakes.
THEOREM LinkInvCorrect == Spec => []LinkInv
<1>1. Init => LinkInv
  BY HandshakesInit DEF LinkInv
<1>2. TypeOK /\ MeshInv /\ LinkInv /\ [Next]_vars => LinkInv'
  BY EntriesStep, OwnStep, HandshakesStep DEF LinkInv
<1> QED BY <1>1, <1>2, TypeCorrect, MeshInvCorrect, PTL DEF Spec

\* What is left of the invariant when nothing is under way: no queue, task, push or dial.
LEMMA AtRest ==
  ASSUME TypeOK, LinkInv, Quiet, NEW n \in Node, NEW m \in Node
  PROVE  /\ Empty(n, m) /\ ~Dialling(n, m) /\ \A s \in {"sync", "back", "mark"} : ~Does(n, m, s)
         /\ \A t : ~Waits(n, m, t) /\ ~Recent(n, m, t)
         /\ \A x : ~InQueue(n, m, x) /\ ~InJob(n, m, x) /\ ~InPush(n, m, x)
         /\ state[n][m] = "disconnected" => Linked(n, m)
<1>1. /\ chan[n][m] = <<>> /\ job[n] = Idle /\ finding[n] = Nobody /\ pending[n].to = {}
      /\ state[n][m] = "disconnected" => Linked(n, m)
  BY DEF Quiet
<1>2. Idle.step = "idle"
  BY DEF Idle
<1>3. ~Dialling(n, m)
  BY <1>1 DEF Dialling, Nobody
<1>4. \A s \in {"sync", "back", "mark"} : ~Does(n, m, s)
  BY <1>1, <1>2 DEF Does
<1>5. \A t : ~Waits(n, m, t) /\ ~Recent(n, m, t)
  BY <1>1 DEF Waits, Recent, HasType, HasNew
<1>6. \A x : ~InQueue(n, m, x)
  <2>1. ToSet(chan[n][m]) = {}
    BY <1>1 DEF ToSet
  <2> QED BY <2>1 DEF InQueue
<1>7. \A x : ~InJob(n, m, x) /\ ~InPush(n, m, x)
  BY <1>1, <1>2, <1>4 DEF InJob, InPush
<1> QED BY <1>1, <1>3, <1>4, <1>5, <1>6, <1>7 DEF Empty

\* So each half of the handshake of two connected nodes is over.
LEMMA HalvesOver ==
  ASSUME TypeOK, LinkInv, Quiet, NEW n \in Node, NEW m \in Node, Linked(n, m)
  PROVE  Covered(n, m) /\ (state[m][n] = "synced" \/ n \in replaced[m])
<1>1. Half(n, m)
  BY DEF LinkInv, Handshakes
<1>2. /\ \A t : ~Waits(n, m, t) /\ ~Recent(n, m, t) /\ ~Waits(m, n, t) /\ ~Recent(m, n, t)
      /\ \A s \in {"sync", "back", "mark"} : ~Does(n, m, s) /\ ~Does(m, n, s)
  BY AtRest
<1>3. ~Asked(n, m) /\ ~WillConnect(n, m)
  BY <1>2 DEF Asked, WillConnect
<1>4. Covered(n, m) /\ Done(n, m)
  BY <1>1, <1>3 DEF Half
<1> QED BY <1>2, <1>4 DEF Done

\* When nothing is under way, both ends of a link are synced with each other (or the entry
\* was replaced), and no node takes a peer for connected that is not.
THEOREM RestSynced == Spec => []SyncedAtRest
<1>1. ASSUME TypeOK, LinkInv PROVE SyncedAtRest
  <2> SUFFICES ASSUME Quiet, NEW n \in Node, NEW m \in Node
               PROVE  IF Linked(n, m) THEN state[n][m] = "synced" \/ m \in replaced[n]
                      ELSE state[n][m] = "none"
    BY DEF SyncedAtRest
  <2>1. CASE Linked(n, m)
    <3>1. Linked(m, n)
      BY <2>1, Both
    <3> QED BY <1>1, <2>1, <3>1, HalvesOver
  <2>2. CASE ~Linked(n, m)
    <3>1. Told(n, m)
      BY <1>1 DEF LinkInv, Handshakes, Pair
    <3>2. Empty(m, n) /\ ~Dialling(n, m) /\ state[n][m] # "disconnected"
      BY <1>1, <2>2, AtRest
    <3>3. state[n][m] \in {"none", "connected", "synced", "disconnected"}
      BY <1>1 DEF TypeOK
    <3> QED BY <2>2, <3>1, <3>2, <3>3 DEF Told
  <2> QED BY <2>1, <2>2
<1> QED BY <1>1, TypeCorrect, LinkInvCorrect, PTL

\* When nothing is under way, a node lacks of a linked peer's document only what that peer
\* passed it over with.
THEOREM OnlyUnsentMissing == Spec => []OnlyUnsentIsMissing
<1>1. ASSUME TypeOK, LinkInv PROVE OnlyUnsentIsMissing
  <2> SUFFICES ASSUME Quiet, NEW n \in Node, NEW m \in Node, Linked(n, m)
               PROVE  Applied(db[n]) \subseteq db[m] \cup unsent[n][m]
    BY DEF OnlyUnsentIsMissing
  <2>1. Covered(n, m)
    BY <1>1, HalvesOver
  <2>2. \A x \in db[n] : x \in db[m] \cup unsent[n][m]
    <3>1. \A x : ~InQueue(n, m, x) /\ ~InJob(n, m, x) /\ ~InPush(n, m, x)
      BY <1>1, AtRest
    <3> QED BY <2>1, <3>1 DEF Covered, Held
  <2> QED BY <2>2 DEF Applied
<1> QED BY <1>1, TypeCorrect, LinkInvCorrect, PTL
=============================================================================
