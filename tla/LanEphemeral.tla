---------------------------- MODULE LanEphemeral ----------------------------
(***************************************************************************)
(* Ephemeral messages of the LAN transport (swirldb-server:                *)
(* transport/lan.rs): datagrams to the UDP address that the table has for  *)
(* a peer, or frames on its TCP connection when it has none.  The peer     *)
(* that dials knows an address from discovery and sends a ping to it; the  *)
(* one that accepts learns the dialler's from its first datagram.          *)
(*                                                                         *)
(* Discovery makes both peers dial, so that either may make its entry      *)
(* anew, in place of one that has an address.  Which connection survives   *)
(* is the subject of LanTransport: here each end drops an entry when it    *)
(* likes.  The reverse map udp_addr_to_peer is written and never read.     *)
(***************************************************************************)
EXTENDS Naturals

CONSTANTS
  Node,       \* peer ids
  Rank,       \* their order
  Dials,      \* pairs: who may dial whom
  NoEntry,    \* no connection
  NoAddress,  \* a connection without a UDP address
  MaxStarts,  \* bound: restarts of a node
  MaxPending  \* bound: connections from one node to another that are being accepted

ASSUME EphemeralConstantsOK ==
  /\ Rank \in [Node -> Nat] /\ \A m, n \in Node : Rank[m] = Rank[n] => m = n
  /\ Dials \subseteq {p \in Node \X Node : p[1] # p[2]}
  /\ NoEntry # NoAddress /\ {NoEntry, NoAddress} \cap (Node \X (0..MaxStarts)) = {}
  /\ {MaxStarts, MaxPending} \subseteq Nat

\* A node binds a socket at each start.
Address == Node \X (0..MaxStarts)

VARIABLES
  socket,     \* the sockets bound now
  peers,      \* peers[m][n]: the udp_addr in m's entry for n
  dialing,    \* connect_outbound: <<m, n, to>>, m has n's id and what discovery said
  greeted,    \* greeted[n][m]: the handle_inbound of n that wrote their handshake to m ...
  admitted,   \* ... and those that passed the tie-break
  air,        \* the datagrams under way
  exact,      \* history: pairs <<m, n>>: m's entry is of its dial of n's present address
  taken,      \* history: pairs <<n, m>>: n's entry took a datagram that m sent since it dialled
  unlearned,  \* history: pairs <<n, m>>: the last one was lost, or came before n's entry
  late        \* history: pairs <<n, m>>: n's entry took the last one from an old socket of m

pendingVars == <<dialing, greeted, admitted>>
learnVars == <<exact, taken, unlearned, late>>
ephemeralVars == <<socket, peers, pendingVars, air, learnVars>>

Local(n) == <<n, socket[n]>>

\* build_udp_packet: a datagram says who sent it.
Datagram(m, to) == [to |-> to, id |-> m, src |-> Local(m)]

Connected(m, n) == peers[m][n] # NoEntry

-----------------------------------------------------------------------------
(* Dialling. *)

\* connect, unless there is an entry; connect_outbound up to the handshakes, which n
\* answers in handle_inbound.  What discovery said may be from before a restart.
DialLan(m, n, to) ==
  /\ <<m, n>> \in Dials /\ ~Connected(m, n) /\ greeted[n][m] < MaxPending
  /\ to \in {NoAddress} \cup {a \in Address : a[1] = n /\ a[2] <= socket[n]}
  /\ dialing' = dialing \cup {<<m, n, to>>}
  /\ greeted' = [greeted EXCEPT ![n][m] = @ + 1]
  /\ UNCHANGED <<socket, peers, admitted, air, learnVars>>

\* n's handshake does not arrive.
DialFailsLan(m, n, to) ==
  /\ <<m, n, to>> \in dialing
  /\ dialing' = dialing \ {<<m, n, to>>}
  /\ UNCHANGED <<socket, peers, greeted, admitted, air, learnVars>>

\* An entry of n for m is made; what an earlier one learned is gone with it.
NewEntry(n, m, takenNow, unlearnedNow) ==
  /\ taken' = takenNow \ {<<n, m>>}
  /\ unlearned' = IF <<n, m>> \in takenNow THEN unlearnedNow \cup {<<n, m>>} ELSE unlearnedNow
  /\ late' = late \ {<<n, m>>}

\* Mutant: no ping.
NoPing(m, to) == {}

\* The UDP ping of connect_outbound, if discovery gave an address.
Ping(m, to) == IF to = NoAddress THEN {} ELSE {Datagram(m, to)}

\* The rest of connect_outbound: whatever entry there is by now is replaced.  A ping that
\* waits for the event channel counts as one that is under way.
Enter(m, n, to) ==
  /\ <<m, n, to>> \in dialing
  /\ dialing' = dialing \ {<<m, n, to>>}
  /\ peers' = [peers EXCEPT ![m][n] = to]
  /\ air' = air \cup Ping(m, to)
  /\ exact' = IF to = Local(n) THEN exact \cup {<<m, n>>} ELSE exact \ {<<m, n>>}
  /\ NewEntry(m, n, taken \ {<<n, m>>}, unlearned \ {<<n, m>>})
  /\ UNCHANGED <<socket, greeted, admitted>>

-----------------------------------------------------------------------------
(* Accepting: handle_inbound of n, for a connection from m. *)

\* The tie-break: the lower id keeps the entry it has, the other removes its own.
AdmitLan(n, m) ==
  /\ greeted[n][m] > 0
  /\ greeted' = [greeted EXCEPT ![n][m] = @ - 1]
  /\ IF Connected(n, m) /\ Rank[n] < Rank[m]
     THEN UNCHANGED <<admitted, peers>>
     ELSE /\ admitted[n][m] < MaxPending
          /\ admitted' = [admitted EXCEPT ![n][m] = @ + 1]
          /\ peers' = [peers EXCEPT ![n][m] = NoEntry]
  /\ UNCHANGED <<socket, dialing, air, learnVars>>

\* The new entry has no address, and replaces one that was made meanwhile.
AcceptLan(n, m) ==
  /\ admitted[n][m] > 0
  /\ admitted' = [admitted EXCEPT ![n][m] = @ - 1]
  /\ peers' = [peers EXCEPT ![n][m] = NoAddress]
  /\ exact' = exact \ {<<n, m>>}
  /\ NewEntry(n, m, taken, unlearned)
  /\ UNCHANGED <<socket, dialing, greeted, air>>

-----------------------------------------------------------------------------
(* Leaving. *)

\* A read loop ends, or disconnect is called, and the entry goes, whoever's it is.
DropLan(m, n) ==
  /\ Connected(m, n)
  /\ peers' = [peers EXCEPT ![m][n] = NoEntry]
  /\ UNCHANGED <<socket, pendingVars, air, learnVars>>

\* A node starts again; what was sent to its socket goes nowhere.
RestartLan(n) ==
  /\ socket[n] < MaxStarts
  /\ socket' = [socket EXCEPT ![n] = @ + 1]
  /\ peers' = [peers EXCEPT ![n] = [m \in Node |-> NoEntry]]
  /\ dialing' = {t \in dialing : t[1] # n}
  /\ greeted' = [greeted EXCEPT ![n] = [m \in Node |-> 0]]
  /\ admitted' = [admitted EXCEPT ![n] = [m \in Node |-> 0]]
  /\ exact' = {p \in exact : n \notin {p[1], p[2]}}
  /\ taken' = {p \in taken : p[1] # n}
  /\ unlearned' = {p \in unlearned : p[1] # n}
  /\ late' = {p \in late : p[1] # n}
  /\ UNCHANGED air

-----------------------------------------------------------------------------
(* Datagrams. *)

\* send_ephemeral, and broadcast_ephemeral for one of its peers; without an address a
\* frame goes over TCP, and nothing is learned from it.
SendEphemeral(m, n) ==
  /\ peers[m][n] \in Address
  /\ air' = air \cup {Datagram(m, peers[m][n])}
  /\ UNCHANGED <<socket, peers, pendingVars, learnVars>>

\* udp_recv_loop: the source of a datagram is the peer's address, if it has an entry.
Learn(n, m, src) == peers' = IF Connected(n, m) THEN [peers EXCEPT ![n][m] = src] ELSE peers

ReceiveDatagram(d) == LET n == d.to[1]  m == d.id IN
  /\ d \in air /\ d.to = Local(n)
  /\ air' = air \ {d}
  /\ Learn(n, m, d.src)
  /\ IF Connected(n, m)
     THEN /\ taken' = taken \cup {<<n, m>>} /\ unlearned' = unlearned \ {<<n, m>>}
          /\ late' = IF d.src = Local(m) THEN late \ {<<n, m>>} ELSE late \cup {<<n, m>>}
     ELSE unlearned' = unlearned \cup {<<n, m>>} /\ UNCHANGED <<taken, late>>
  /\ UNCHANGED <<socket, pendingVars, exact>>

\* A datagram is lost; of one from or to an old socket nothing is to be learned.
LoseDatagram(d) == LET n == d.to[1]  m == d.id IN
  /\ d \in air
  /\ air' = air \ {d}
  /\ unlearned' = IF d = Datagram(m, Local(n)) THEN unlearned \cup {<<n, m>>} ELSE unlearned
  /\ UNCHANGED <<socket, peers, pendingVars, exact, taken, late>>

-----------------------------------------------------------------------------

EphemeralInit ==
  /\ socket = [n \in Node |-> 0]
  /\ peers = [m \in Node |-> [n \in Node |-> NoEntry]]
  /\ dialing = {} /\ air = {}
  /\ greeted = [n \in Node |-> [m \in Node |-> 0]] /\ admitted = greeted
  /\ exact = {} /\ taken = {} /\ unlearned = {} /\ late = {}

EphemeralNext ==
  \/ \E m, n \in Node, to \in {NoAddress} \cup Address :
       DialLan(m, n, to) \/ DialFailsLan(m, n, to) \/ Enter(m, n, to)
  \/ \E m, n \in Node : AdmitLan(n, m) \/ AcceptLan(n, m) \/ DropLan(m, n) \/ SendEphemeral(m, n)
  \/ \E n \in Node : RestartLan(n)
  \/ \E d \in air : ReceiveDatagram(d) \/ LoseDatagram(d)

EphemeralSpec == EphemeralInit /\ [][EphemeralNext]_ephemeralVars

-----------------------------------------------------------------------------
(* Properties. *)

\* Once nothing is in the air, two peers of which one dialled the other by its present
\* address send by UDP to where the other listens, although both may dial and either may
\* make its entry anew; but where the dialler's last datagram was lost, or came before the
\* entry that the other has now, or one from before a restart came last.
UdpBothWays ==
  air = {} =>
    \A m, n \in Node :
      Connected(m, n) /\ Connected(n, m) /\ <<m, n>> \in exact =>
        /\ peers[m][n] = Local(n) \/ <<m, n>> \in late
        /\ peers[n][m] = Local(m) \/ <<n, m>> \in late \cup unlearned
=============================================================================
