------------------------------ MODULE Discovery ------------------------------
(***************************************************************************)
(* Discovery of peers by mDNS (swirldb-server: discovery/mdns.rs).  The    *)
(* daemon of the mdns-sd crate, a thread of its own, answers for us and    *)
(* sends what it hears of others, and of ourselves, into the channel of a  *)
(* browse; next_event takes it from there.  The daemon is external.        *)
(*                                                                         *)
(* Peers are named by the peer_id of their TXT record.  A removal gives    *)
(* only the full name of the service, which contains that id; it may       *)
(* contain the ids of others as well (peer-1 is in peer-10).               *)
(***************************************************************************)
EXTENDS Naturals, Sequences, FiniteSets, SequencesExt

CONSTANTS
  Peer,      \* peer ids on the network, ours among them
  Me,        \* our id
  InName,    \* the ids that the full name of each peer contains
  NoId,      \* no id
  MaxMoves   \* bound: how often peers come and go

ASSUME DiscoveryConstantsOK ==
  /\ Me \in Peer /\ NoId \notin Peer
  /\ InName \in [Peer -> SUBSET Peer]
  /\ \A p \in Peer : p \in InName[p]
  /\ MaxMoves \in Nat

VARIABLES
  present,        \* the peers whose service is registered
  local_peer_id,  \* our id while we advertise
  registered_fullname, \* whether there is a name to unregister
  browsing,       \* browse_rx is there
  events,         \* what it holds
  known_peers,
  moves,          \* how often peers came and went
  unheard,        \* history: the peers of whose coming or going nothing reached next_event
  abandoned       \* history: our id was forgotten while our service was still registered

advertVars == <<local_peer_id, registered_fullname, abandoned>>
discoveryVars == <<present, advertVars, browsing, events, known_peers, moves, unheard>>

\* A service with an address; without one it is of no use.
Event(type, p, usable) == [type |-> type, peer |-> p, usable |-> usable]
Hears(type, p, usable) ==
  events' = IF browsing THEN Append(events, Event(type, p, usable)) ELSE events

-----------------------------------------------------------------------------
(* The network, and what the daemon tells of it. *)

Appear(p, usable) ==
  /\ p # Me /\ p \notin present /\ moves < MaxMoves
  /\ moves' = moves + 1
  /\ present' = present \cup {p}
  /\ Hears("resolved", p, usable)
  /\ UNCHANGED <<advertVars, browsing, known_peers, unheard>>

\* It says goodbye, or its records expire.
Vanish(p) ==
  /\ p # Me /\ p \in present /\ moves < MaxMoves
  /\ moves' = moves + 1
  /\ present' = present \ {p}
  /\ Hears("removed", p, TRUE)
  /\ unheard' = IF browsing THEN unheard ELSE unheard \cup {p}
  /\ UNCHANGED <<advertVars, browsing, known_peers>>

-----------------------------------------------------------------------------
(* Advertising. *)

\* advertise, unless it is advertised: the id and the name are stored before the service
\* is registered, which may fail.
Advertise ==
  /\ ~registered_fullname /\ moves < MaxMoves
  /\ moves' = moves + 1
  /\ local_peer_id' = Me /\ registered_fullname' = TRUE
  /\ \/ present' = present \cup {Me} /\ Hears("resolved", Me, TRUE)
     \/ UNCHANGED <<present, events>>
  /\ UNCHANGED <<abandoned, browsing, known_peers, unheard>>

\* The service, if it is there, is no longer, and the id is forgotten, whatever the channel
\* still holds.
Unregister ==
  /\ registered_fullname
  /\ local_peer_id' = NoId /\ abandoned' = FALSE
  /\ present' = present \ {Me}
  /\ IF Me \in present THEN Hears("removed", Me, TRUE) ELSE UNCHANGED events
  /\ unheard' = IF browsing \/ Me \notin present THEN unheard ELSE unheard \cup {Me}

\* unregister fails: the id is kept, but the name is gone.
UnregisterFails ==
  /\ registered_fullname
  /\ UNCHANGED <<local_peer_id, abandoned, present, events, unheard>>

\* Without a name only the id is forgotten, although the service may be there.
Forget ==
  /\ ~registered_fullname
  /\ local_peer_id' = NoId /\ abandoned' = (abandoned \/ Me \in present)
  /\ UNCHANGED <<present, events, unheard>>

\* stop_advertising
StopAdvertising ==
  /\ local_peer_id = Me /\ moves < MaxMoves
  /\ moves' = moves + 1
  /\ registered_fullname' = FALSE
  /\ Unregister \/ UnregisterFails \/ Forget
  /\ UNCHANGED <<browsing, known_peers>>

-----------------------------------------------------------------------------
(* Browsing. *)

\* start_discovery: the daemon tells of everyone who is there, in any order.
StartDiscovery ==
  /\ ~browsing /\ moves < MaxMoves
  /\ moves' = moves + 1
  /\ browsing' = TRUE
  /\ \E order \in SetToSeqs(present) :
       events' = [i \in DOMAIN order |-> Event("resolved", order[i], TRUE)]
  /\ UNCHANGED <<present, advertVars, known_peers, unheard>>

\* stop_discovery: the receiver is dropped with what it holds; known_peers is kept.
StopDiscovery ==
  /\ browsing /\ moves < MaxMoves
  /\ moves' = moves + 1
  /\ browsing' = FALSE
  /\ events' = <<>>
  /\ unheard' = unheard \cup {e.peer : e \in ToSet(events)}
  /\ UNCHANGED <<present, advertVars, known_peers>>

\* next_event takes an event.
Receive(type) ==
  /\ events # <<>> /\ Head(events).type = type
  /\ events' = Tail(events)
  /\ UNCHANGED <<present, advertVars, browsing, moves>>

IsOurs(p) == local_peer_id = p

\* ServiceResolved: PeerDiscovered, unless it is our own or has no address.
ServiceResolved == LET e == Head(events)
                       heard == e.usable /\ ~IsOurs(e.peer) IN
  /\ Receive("resolved")
  /\ known_peers' = IF heard THEN known_peers \cup {e.peer} ELSE known_peers
  /\ unheard' = IF heard THEN unheard \ {e.peer}
                ELSE IF e.usable THEN unheard ELSE unheard \cup {e.peer}

\* Mutant: the full name is compared with the ids.
NamedExactly(p) == {NoId}

\* The ids in the full name; the keys of a HashMap come in any order.
Named(p) == IF known_peers \cap InName[p] = {} THEN {NoId} ELSE known_peers \cap InName[p]

\* ServiceRemoved: PeerLost for the first id found in the full name.
ServiceRemoved == LET e == Head(events) IN
  /\ Receive("removed")
  /\ \E id \in Named(e.peer) : known_peers' = known_peers \ {id}
  /\ unheard' = unheard \ {e.peer}

-----------------------------------------------------------------------------

DiscoveryInit ==
  /\ present = {} /\ local_peer_id = NoId /\ registered_fullname = FALSE
  /\ browsing = FALSE /\ events = <<>>
  /\ known_peers = {}
  /\ moves = 0 /\ unheard = {} /\ abandoned = FALSE

DiscoveryNext ==
  \/ \E p \in Peer, usable \in BOOLEAN : Appear(p, usable)
  \/ \E p \in Peer : Vanish(p)
  \/ Advertise \/ StopAdvertising
  \/ StartDiscovery \/ StopDiscovery
  \/ ServiceResolved \/ ServiceRemoved

DiscoverySpec == DiscoveryInit /\ [][DiscoveryNext]_discoveryVars

-----------------------------------------------------------------------------
(* Properties. *)

Nested(p) == \E q \in Peer \ {p} : p \in InName[q] \/ q \in InName[p]

\* Once all events are taken, exactly the others who are there are known, whoever came,
\* went, advertised or restarted a browse meanwhile; but one whose id is part of another
\* name may have been removed in its place, and stay for it, what happened while nobody
\* browsed is not made up for, and we take ourselves for another once our id is forgotten
\* while our service, which could not be unregistered, is still there.
KnowsWhoIsThere ==
  browsing /\ events = <<>> =>
    \A p \in Peer : \/ p \in known_peers <=> p \in present \ {Me}
                    \/ Nested(p)
                    \/ p \in unheard
                    \/ p = Me /\ abandoned
=============================================================================
