---------------------------- MODULE LanTransport ----------------------------
(***************************************************************************)
(* The LAN transport (swirldb-server: transport/lan.rs): each peer keeps a *)
(* table with one TCP connection per remote peer and one read loop per TCP *)
(* connection, and tells the peer manager who is connected.  Connections   *)
(* are dialled by connect(), accepted by the listener, dropped by          *)
(* disconnect() and shutdown(), replaced when both peers dial each other,  *)
(* and closed when their read loop ends.                                   *)
(*                                                                         *)
(* The tasks of a peer run on several threads and share only the table (a  *)
(* concurrent map), so that one action is one access to the table.         *)
(* Messages, byte counters and UDP are left out: they leave the table and  *)
(* the streams alone.                                                      *)
(***************************************************************************)
EXTENDS Naturals

CONSTANTS
  Peer,        \* peer ids
  Conn,        \* TCP connections ever dialled
  From,        \* From[c]: the peer that dials c
  To,          \* To[c]: the peer that accepts c
  Rank,        \* the order of peer ids, which breaks ties
  MaxTroubles, \* bound: stream ends that fail and calls of disconnect, shutdown
  None         \* no connection

ASSUME ConstantsOK ==
  /\ From \in [Conn -> Peer]
  /\ To \in [Conn -> Peer]
  /\ \A c \in Conn : From[c] # To[c]
  /\ Rank \in [Peer -> Nat]
  /\ \A m, n \in Peer : Rank[m] = Rank[n] => m = n
  /\ None \notin Conn
  /\ MaxTroubles \in Nat

Ends(c) == {From[c], To[c]}

\* Mutant: the task always takes the acceptor for the remote peer.
OtherIsAcceptor(c, m) == To[c]

\* The remote peer, as m's task for c knows it.
Other(c, m) == IF m = From[c] THEN To[c] ELSE From[c]

VARIABLES
  task,      \* task[c][m]: where m's task for c is
  writer,    \* writer[c]: the ends whose write half of c has not been dropped
  table,     \* table[m][n]: m's connection with n (Inner.peers)
  failed,    \* failed[c]: the ends that see an error or a timeout on c
  listening, \* the peers whose accept loop runs
  shut,      \* the peers that were shut down (Inner.shut_down)
  listed,    \* the shut down peers that know which entries to remove
  leaving,   \* leaving[m]: how far m's disconnect() and shutdown() are, by peer
  told,      \* told[m][n]: the last event about n that m sent (event_tx)
  troubles   \* how many ends failed, and disconnects and shutdowns were called

vars == <<task, writer, table, failed, listening, shut, listed, leaving, told,
          troubles>>

-----------------------------------------------------------------------------
(* The table.  An entry owns the write half of its connection: whatever      *)
(* takes it out of the table closes that half.                               *)

Dropped(m, n) ==
  IF table[m][n] = None THEN writer
  ELSE [writer EXCEPT ![table[m][n]] = @ \ {m}]

\* Mutant: the entry stays.
LeaveEntry(m, n) == table' = table /\ writer' = Dropped(m, n)

\* Inner::remove_peer: by peer id, whichever connection the entry holds.
RemovePeer(m, n) ==
  /\ table' = [table EXCEPT ![m][n] = None]
  /\ writer' = Dropped(m, n)

\* Mutant: an entry that is there is kept.
InsertIfAbsent(m, n, c) ==
  /\ table' = IF table[m][n] = None THEN [table EXCEPT ![m][n] = c] ELSE table
  /\ writer' = writer

\* peers.insert: an entry that is there is replaced.
Insert(m, n, c) ==
  /\ table' = [table EXCEPT ![m][n] = c]
  /\ writer' = Dropped(m, n)

At(c, m, phase) == m \in Ends(c) /\ task[c][m] = phase
Goto(c, m, phase) == task' = [task EXCEPT ![c][m] = phase]

-----------------------------------------------------------------------------
(* Dialling. *)

\* connect: refused after shutdown and when the table has the peer.
Connect(c) ==
  /\ At(c, From[c], "none")
  /\ From[c] \notin shut
  /\ table[From[c]][To[c]] = None
  /\ Goto(c, From[c], "dialing")
  /\ UNCHANGED <<writer, table, failed, listening, shut, listed, leaving, told, troubles>>

\* connect_outbound gives up: no answer, or the stream fails in the handshake.
DialFails(c) ==
  /\ At(c, From[c], "dialing")
  /\ From[c] \in failed[c] \/ (To[c] \notin listening /\ task[c][To[c]] = "none")
  /\ Goto(c, From[c], "done")
  /\ writer' = [writer EXCEPT ![c] = @ \ {From[c]}]
  /\ UNCHANGED <<table, failed, listening, shut, listed, leaving, told, troubles>>

\* The acceptor's id has arrived: the connection goes into the table, whatever
\* the table has.
RegisterOutbound(c) ==
  /\ At(c, From[c], "dialing")
  /\ task[c][To[c]] # "none"
  /\ Insert(From[c], To[c], c)
  /\ Goto(c, From[c], "registered")
  /\ UNCHANGED <<failed, listening, shut, listed, leaving, told, troubles>>

-----------------------------------------------------------------------------
(* Accepting. *)

\* handle_inbound reads the dialer's id and writes its own.  The accept loop
\* looks at shut_down before it waits: the next connection is still accepted.
Accept(c) ==
  /\ At(c, To[c], "none")
  /\ To[c] \in listening
  /\ task[c][From[c]] \in {"dialing", "done"}
  /\ \/ /\ Goto(c, To[c], "greeted")
        /\ writer' = writer
     \/ /\ From[c] \notin writer[c]      \* the dialer is gone: the handshake fails
        /\ Goto(c, To[c], "done")
        /\ writer' = [writer EXCEPT ![c] = @ \ {To[c]}]
  /\ listening' = IF To[c] \in shut THEN listening \ {To[c]} ELSE listening
  /\ UNCHANGED <<table, failed, shut, listed, leaving, told, troubles>>

Duplicate(c) == table[To[c]][From[c]] # None

\* The tie-break: the lower peer id keeps the connection it has.
Yields(c) == Rank[To[c]] > Rank[From[c]]

Reject(c) ==
  /\ At(c, To[c], "greeted")
  /\ Duplicate(c) /\ ~Yields(c)
  /\ Goto(c, To[c], "done")
  /\ writer' = [writer EXCEPT ![c] = @ \ {To[c]}]
  /\ UNCHANGED <<table, failed, listening, shut, listed, leaving, told, troubles>>

Admit(c) ==
  /\ At(c, To[c], "greeted")
  /\ Duplicate(c) => Yields(c)
  /\ Goto(c, To[c], IF Duplicate(c) THEN "yielding" ELSE "admitted")
  /\ UNCHANGED <<writer, table, failed, listening, shut, listed, leaving, told, troubles>>

\* The connection that loses the tie-break goes.
Replace(c) ==
  /\ At(c, To[c], "yielding")
  /\ RemovePeer(To[c], From[c])
  /\ Goto(c, To[c], "admitted")
  /\ UNCHANGED <<failed, listening, shut, listed, leaving, told, troubles>>

RegisterInbound(c) ==
  /\ At(c, To[c], "admitted")
  /\ Insert(To[c], From[c], c)
  /\ Goto(c, To[c], "registered")
  /\ UNCHANGED <<failed, listening, shut, listed, leaving, told, troubles>>

-----------------------------------------------------------------------------
(* Events and read loops. *)

Tell(m, n, event) == told' = [told EXCEPT ![m][n] = event]

\* PeerConnected is sent before the read loop starts.
Announce(c, m) ==
  /\ At(c, m, "registered")
  /\ Tell(m, Other(c, m), "connected")
  /\ Goto(c, m, "reading")
  /\ UNCHANGED <<writer, table, failed, listening, shut, listed, leaving, troubles>>

\* Mutant: the end of the stream is not noticed.
OverOnError(c, m) == m \in failed[c]

\* The stream ended, failed or timed out.
Over(c, m) == Other(c, m) \notin writer[c] \/ m \in failed[c]

\* tcp_read_loop ends: the peer is removed, by its id.
ReadEnds(c, m) ==
  /\ At(c, m, "reading")
  /\ Over(c, m)
  /\ RemovePeer(m, Other(c, m))
  /\ Goto(c, m, "removed")
  /\ UNCHANGED <<failed, listening, shut, listed, leaving, told, troubles>>

\* Mutant: no event when a loop ends.
SayNothing(c, m) == told' = told

SayGoodbye(c, m) == Tell(m, Other(c, m), "disconnected")

Farewell(c, m) ==
  /\ At(c, m, "removed")
  /\ SayGoodbye(c, m)
  /\ Goto(c, m, "done")
  /\ UNCHANGED <<writer, table, failed, listening, shut, listed, leaving, troubles>>

Trouble == troubles < MaxTroubles /\ troubles' = troubles + 1

\* An error or a timeout at one end of the stream.
Fail(c, m) ==
  /\ m \in Ends(c) /\ m \notin failed[c]
  /\ task[c][m] \in {"dialing", "reading"}
  /\ Trouble
  /\ failed' = [failed EXCEPT ![c] = @ \cup {m}]
  /\ UNCHANGED <<task, writer, table, listening, shut, listed, leaving, told>>

-----------------------------------------------------------------------------
(* Leaving. *)

\* disconnect: refused when the table does not have the peer.
Disconnect(m, n) ==
  /\ Trouble
  /\ table[m][n] # None
  /\ <<n, "found">> \notin leaving[m] /\ <<n, "removed">> \notin leaving[m]
  /\ leaving' = [leaving EXCEPT ![m] = @ \cup {<<n, "found">>}]
  /\ UNCHANGED <<task, writer, table, failed, listening, shut, listed, told>>

\* disconnect and shutdown remove the peer, by its id ...
Leave(m, n) ==
  /\ \/ /\ <<n, "found">> \in leaving[m]
        /\ leaving' = [leaving EXCEPT ![m] = (@ \ {<<n, "found">>}) \cup {<<n, "removed">>}]
     \/ /\ <<n, "listed">> \in leaving[m]
        /\ leaving' = [leaving EXCEPT ![m] = @ \ {<<n, "listed">>}]
  /\ RemovePeer(m, n)
  /\ UNCHANGED <<task, failed, listening, shut, listed, told, troubles>>

\* ... and disconnect sends the event.
DisconnectNotice(m, n) ==
  /\ <<n, "removed">> \in leaving[m]
  /\ leaving' = [leaving EXCEPT ![m] = @ \ {<<n, "removed">>}]
  /\ Tell(m, n, "disconnected")
  /\ UNCHANGED <<task, writer, table, failed, listening, shut, listed, troubles>>

\* shutdown sets the flag, then lists the entries to remove; no event is sent.
Shutdown(m) ==
  /\ Trouble
  /\ m \notin shut
  /\ shut' = shut \cup {m}
  /\ UNCHANGED <<task, writer, table, failed, listening, listed, leaving, told>>

ListPeers(m) ==
  /\ m \in shut \ listed
  /\ listed' = listed \cup {m}
  /\ leaving' = [leaving EXCEPT ![m] =
                   @ \cup {<<n, "listed">> : n \in {k \in Peer : table[m][k] # None}}]
  /\ UNCHANGED <<task, writer, table, failed, listening, shut, told, troubles>>

-----------------------------------------------------------------------------
Init ==
  /\ task = [c \in Conn |-> [m \in Peer |-> "none"]]
  /\ writer = [c \in Conn |-> Ends(c)]
  /\ table = [m \in Peer |-> [n \in Peer |-> None]]
  /\ failed = [c \in Conn |-> {}]
  /\ listening = Peer
  /\ shut = {}
  /\ listed = {}
  /\ leaving = [m \in Peer |-> {}]
  /\ told = [m \in Peer |-> [n \in Peer |-> "never"]]
  /\ troubles = 0

Task(c, m) ==
  \/ m = From[c] /\ (RegisterOutbound(c) \/ DialFails(c))
  \/ m = To[c] /\ (Accept(c) \/ Reject(c) \/ Admit(c) \/ Replace(c) \/ RegisterInbound(c))
  \/ Announce(c, m) \/ ReadEnds(c, m) \/ Farewell(c, m)

Next ==
  \/ \E c \in Conn, m \in Peer : Task(c, m)
  \/ \E c \in Conn : Connect(c)
  \/ \E m, n \in Peer : Disconnect(m, n) \/ Leave(m, n) \/ DisconnectNotice(m, n)
  \/ \E m \in Peer : Shutdown(m) \/ ListPeers(m)
  \/ \E c \in Conn, m \in Peer : Fail(c, m)

Spec == Init /\ [][Next]_vars

-----------------------------------------------------------------------------
(* What the transport should guarantee. *)

Phase == {"none", "dialing", "greeted", "yielding", "admitted", "registered",
          "reading", "removed", "done"}

Step == {"found", "listed", "removed"}  \* of disconnect() and shutdown()

TypeOK ==
  /\ task \in [Conn -> [Peer -> Phase]]
  /\ writer \in [Conn -> SUBSET Peer]
  /\ table \in [Peer -> [Peer -> Conn \cup {None}]]
  /\ failed \in [Conn -> SUBSET Peer]
  /\ listening \subseteq Peer
  /\ shut \subseteq Peer
  /\ listed \subseteq Peer
  /\ leaving \in [Peer -> SUBSET (Peer \X Step)]
  /\ told \in [Peer -> [Peer -> {"never", "connected", "disconnected"}]]
  /\ \A m \in Peer :
       /\ table[m][m] = None /\ told[m][m] = "never"
       /\ \A n \in Peer, step \in Step : <<n, step>> \in leaving[m] => n # m
  /\ troubles \in 0..MaxTroubles

\* An entry of the table always has a reader: messages of a peer that counts as
\* connected are read, or their end is noticed, although read loops remove
\* entries that are not theirs and registrations overwrite each other.
NoDeadEntry ==
  \A m, n \in Peer : table[m][n] # None =>
    /\ Ends(table[m][n]) = {m, n}
    /\ task[table[m][n]][m] \in {"registered", "reading"}

\* Nobody but the table, or the task that has not registered yet, holds the
\* write half of a connection: no stream is left open by mistake.
Unregistered == {"none", "dialing", "greeted", "yielding", "admitted"}
NoLeakedWriter ==
  \A c \in Conn : \A m \in Ends(c) :
    m \in writer[c] <=> (task[c][m] \in Unregistered \/ table[m][Other(c, m)] = c)

\* A connection is only used once both peers have met.
Handshaken ==
  \A c \in Conn :
    /\ task[c][To[c]] # "none" => task[c][From[c]] # "none"
    /\ task[c][From[c]] \in {"registered", "reading"} => task[c][To[c]] # "none"

\* A peer counts as connected while a read loop for it runs or has just ended.
ToldByReader ==
  \A m, n \in Peer : told[m][n] = "connected" =>
    \E c \in Conn : Ends(c) = {m, n} /\ task[c][m] \in {"reading", "removed"}

\* The inductive invariant of the table.
TableInv == NoDeadEntry /\ NoLeakedWriter /\ Handshaken

\* No task can take a step.
Quiet ==
  /\ \A c \in Conn : \A m \in Ends(c) :
       task[c][m] \in {"none", "done"} \/ (task[c][m] = "reading" /\ ~Over(c, m))
  /\ \A m \in Peer : leaving[m] = {}
  /\ shut \subseteq listed

\* At rest both peers use the same connection, or neither has one.
AgreeAtRest == Quiet => \A m, n \in Peer : table[m][n] = table[n][m]

\* At rest a peer that the peer manager holds for connected is in the table, even
\* after a shutdown, which tells nobody: nothing is sent into the void for ever.
TrackedAtRest ==
  Quiet => \A m, n \in Peer : told[m][n] = "connected" => table[m][n] # None

\* When two peers dial each other, one connection survives the tie-break: at rest,
\* without errors and without anybody leaving, whoever dialled is connected.
TieBreakKeepsOne ==
  Quiet /\ troubles = 0 =>
    \A c \in Conn : task[c][From[c]] # "none" => table[From[c]][To[c]] # None
=============================================================================
