------------------------- MODULE LanTransportProofs -------------------------
(***************************************************************************)
(* The table of the LAN transport holds live connections only, no stream   *)
(* stays open by mistake, and at rest both peers use the same connection:  *)
(* for every set of peers and connections and every order of ids.          *)
(***************************************************************************)
EXTENDS LanTransport, TLAPS

\* The other end is the other end.
LEMMA OtherEnd ==
  ASSUME NEW c \in Conn, NEW m \in Ends(c)
  PROVE  /\ m \in Peer /\ Other(c, m) \in Ends(c) /\ Other(c, m) \in Peer
         /\ Other(c, m) # m /\ Ends(c) = {m, Other(c, m)}
         /\ Other(c, Other(c, m)) = m
         /\ \A n : Ends(c) = {m, n} => n = Other(c, m)
BY ConstantsOK DEF Ends, Other

\* What the updates of the state do, entry by entry.
LEMMA Going ==
  ASSUME TypeOK, NEW c \in Conn, NEW m \in Peer, NEW phase \in Phase, Goto(c, m, phase)
  PROVE  /\ task' \in [Conn -> [Peer -> Phase]]
         /\ \A d \in Conn, p \in Peer :
              task'[d][p] = IF d = c /\ p = m THEN phase ELSE task[d][p]
BY DEF TypeOK, Goto

\* What dropping an entry leaves open: all write halves but that of the dropped connection.
LEMMA Dropping ==
  ASSUME TypeOK, NEW m \in Peer, NEW n \in Peer
  PROVE  /\ Dropped(m, n) \in [Conn -> SUBSET Peer]
         /\ \A d \in Conn, p \in Peer :
              p \in Dropped(m, n)[d] <=> p \in writer[d] /\ ~(p = m /\ table[m][n] = d)
<1>1. CASE table[m][n] = None
  BY <1>1, ConstantsOK DEF TypeOK, Dropped
<1>2. CASE table[m][n] # None
  <2>1. table[m][n] \in Conn
    BY <1>2 DEF TypeOK
  <2>2. Dropped(m, n) = [writer EXCEPT ![table[m][n]] = @ \ {m}]
    BY <1>2 DEF Dropped
  <2> QED BY <2>1, <2>2 DEF TypeOK
<1> QED BY <1>1, <1>2

\* remove_peer empties one entry and closes one write half.
LEMMA Removing ==
  ASSUME TypeOK, NEW m \in Peer, NEW n \in Peer, RemovePeer(m, n)
  PROVE  /\ table' \in [Peer -> [Peer -> Conn \cup {None}]]
         /\ writer' \in [Conn -> SUBSET Peer]
         /\ \A p, q \in Peer :
              table'[p][q] = IF p = m /\ q = n THEN None ELSE table[p][q]
         /\ \A d \in Conn, p \in Peer :
              p \in writer'[d] <=> p \in writer[d] /\ ~(p = m /\ table[m][n] = d)
<1>1. writer' = Dropped(m, n) /\ table' = [table EXCEPT ![m][n] = None]
  BY DEF RemovePeer
<1> QED BY <1>1, Dropping DEF TypeOK

\* peers.insert fills one entry and closes the write half of the entry it replaces.
LEMMA Inserting ==
  ASSUME TypeOK, NEW m \in Peer, NEW n \in Peer, NEW c \in Conn, Insert(m, n, c)
  PROVE  /\ table' \in [Peer -> [Peer -> Conn \cup {None}]]
         /\ writer' \in [Conn -> SUBSET Peer]
         /\ \A p, q \in Peer :
              table'[p][q] = IF p = m /\ q = n THEN c ELSE table[p][q]
         /\ \A d \in Conn, p \in Peer :
              p \in writer'[d] <=> p \in writer[d] /\ ~(p = m /\ table[m][n] = d)
<1>1. writer' = Dropped(m, n) /\ table' = [table EXCEPT ![m][n] = c]
  BY DEF Insert
<1> QED BY <1>1, Dropping DEF TypeOK

\* An event about another peer keeps the types; nobody is told about itself.
LEMMA Telling ==
  ASSUME TypeOK, NEW m \in Peer, NEW n \in Peer, m # n,
         NEW event \in {"connected", "disconnected"}, Tell(m, n, event)
  PROVE  /\ told' \in [Peer -> [Peer -> {"never", "connected", "disconnected"}]]
         /\ \A p \in Peer : told'[p][p] = "never"
BY DEF TypeOK, Tell

\* Every variable keeps its type: in particular no peer is ever connected to
\* itself (lan.rs: the remote peer of a task is the one it met).
THEOREM TypeCorrect == Spec => []TypeOK
<1>1. Init => TypeOK
  BY ConstantsOK DEF Init, TypeOK, Ends, Phase, Step
<1>2. TypeOK /\ [Next]_vars => TypeOK'
  <2> SUFFICES ASSUME TypeOK, [Next]_vars PROVE TypeOK'
    OBVIOUS
  <2>1. ASSUME NEW c \in Conn, NEW m \in Peer, Task(c, m) PROVE TypeOK'
    <3> USE <2>1
    <3>0. From[c] \in Peer /\ To[c] \in Peer /\ From[c] # To[c]
      BY ConstantsOK
    <3>1. CASE RegisterOutbound(c)
      <4>1. \A p \in Peer : table'[p][p] = None
        <5>1. \A p, q \in Peer : table'[p][q] =
                IF p = From[c] /\ q = To[c] THEN c ELSE table[p][q]
          BY <3>0, <3>1, Inserting DEF RegisterOutbound
        <5> QED BY <3>0, <5>1 DEF TypeOK
      <4> QED BY <3>0, <3>1, <4>1, Inserting, Going DEF RegisterOutbound, TypeOK, Phase
    <3>2. CASE DialFails(c)
      BY <3>0, <3>2 DEF DialFails, Goto, TypeOK, Phase
    <3>3. CASE Accept(c)
      <4>1. CASE Goto(c, To[c], "greeted") /\ writer' = writer
        BY <3>0, <3>3, <4>1, Going DEF Accept, TypeOK, Phase
      <4>2. CASE /\ Goto(c, To[c], "done")
                 /\ writer' = [writer EXCEPT ![c] = @ \ {To[c]}]
        BY <3>0, <3>3, <4>2, Going DEF Accept, TypeOK, Phase
      <4> QED BY <3>3, <4>1, <4>2 DEF Accept
    <3>4. CASE Reject(c)
      BY <3>0, <3>4 DEF Reject, Goto, TypeOK, Phase
    <3>5. CASE Admit(c)
      BY <3>0, <3>5, Going DEF Admit, TypeOK, Phase
    <3>6. CASE Replace(c)
      BY <3>0, <3>6, Removing, Going DEF Replace, TypeOK, Phase
    <3>7. CASE RegisterInbound(c)
      <4>1. \A p \in Peer : table'[p][p] = None
        <5>1. \A p, q \in Peer : table'[p][q] =
                IF p = To[c] /\ q = From[c] THEN c ELSE table[p][q]
          BY <3>0, <3>7, Inserting DEF RegisterInbound
        <5> QED BY <3>0, <5>1 DEF TypeOK
      <4> QED BY <3>0, <3>7, <4>1, Inserting, Going DEF RegisterInbound, TypeOK, Phase
    <3>8. CASE Announce(c, m)
      BY <3>8, OtherEnd, Telling, Going DEF Announce, At, TypeOK, Phase
    <3>9. CASE ReadEnds(c, m)
      BY <3>9, OtherEnd, Removing, Going DEF ReadEnds, At, TypeOK, Phase
    <3>10. CASE Farewell(c, m)
      BY <3>10, OtherEnd, Telling, Going DEF Farewell, SayGoodbye, At, TypeOK, Phase
    <3> QED BY <3>1, <3>2, <3>3, <3>4, <3>5, <3>6, <3>7, <3>8, <3>9, <3>10 DEF Task
  <2>2. ASSUME NEW c \in Conn, Connect(c) PROVE TypeOK'
    <3>1. From[c] \in Peer
      BY ConstantsOK
    <3> QED BY <2>2, <3>1, Going DEF Connect, TypeOK, Phase
  <2>3. ASSUME NEW m \in Peer, NEW n \in Peer, Disconnect(m, n) PROVE TypeOK'
    <3>1. m # n
      BY <2>3 DEF Disconnect, TypeOK
    <3>2. \A p, q \in Peer, step \in Step :
             <<q, step>> \in leaving'[p] =>
               <<q, step>> \in leaving[p] \/ (p = m /\ q = n)
      BY <2>3 DEF Disconnect, TypeOK
    <3>3. leaving' \in [Peer -> SUBSET (Peer \X Step)]
      BY <2>3 DEF Disconnect, TypeOK, Step
    <3>4. \A p, q \in Peer, step \in Step : <<q, step>> \in leaving'[p] => q # p
      BY <3>1, <3>2 DEF TypeOK
    <3> QED BY <2>3, <3>3, <3>4, ConstantsOK DEF Disconnect, Trouble, TypeOK
  <2>4. ASSUME NEW m \in Peer, NEW n \in Peer, Leave(m, n) PROVE TypeOK'
    <3>1. /\ leaving' \in [Peer -> SUBSET (Peer \X Step)]
          /\ \A p, q \in Peer, step \in Step :
               <<q, step>> \in leaving'[p] => q # p
      <4>1. CASE /\ <<n, "found">> \in leaving[m]
                 /\ leaving' = [leaving EXCEPT ![m] =
                                  (@ \ {<<n, "found">>}) \cup {<<n, "removed">>}]
        <5>1. n # m
          BY <4>1 DEF TypeOK, Step
        <5> QED BY <4>1, <5>1 DEF TypeOK, Step
      <4>2. CASE leaving' = [leaving EXCEPT ![m] = @ \ {<<n, "listed">>}]
        BY <4>2 DEF TypeOK
      <4> QED BY <2>4, <4>1, <4>2 DEF Leave
    <3>2. \A p \in Peer : table'[p][p] = None
      BY <2>4, Removing DEF Leave, TypeOK
    <3> QED BY <2>4, <3>1, <3>2, Removing DEF Leave, TypeOK
  <2>5. ASSUME NEW m \in Peer, NEW n \in Peer, DisconnectNotice(m, n) PROVE TypeOK'
    <3>1. m # n
      BY <2>5 DEF DisconnectNotice, TypeOK, Step
    <3> QED BY <2>5, <3>1, Telling DEF DisconnectNotice, TypeOK
  <2>6. ASSUME NEW m \in Peer, Shutdown(m) PROVE TypeOK'
    BY <2>6, ConstantsOK DEF Shutdown, Trouble, TypeOK
  <2>7. ASSUME NEW m \in Peer, ListPeers(m) PROVE TypeOK'
    <3>1. /\ leaving' \in [Peer -> SUBSET (Peer \X Step)]
          /\ \A p, q \in Peer, step \in Step :
               <<q, step>> \in leaving'[p] => q # p
      BY <2>7 DEF ListPeers, TypeOK, Step
    <3> QED BY <2>7, <3>1 DEF ListPeers, TypeOK
  <2>8. ASSUME NEW c \in Conn, NEW m \in Peer, Fail(c, m) PROVE TypeOK'
    BY <2>8, ConstantsOK DEF Fail, Trouble, TypeOK
  <2>9. CASE UNCHANGED vars
    BY <2>9 DEF vars, TypeOK
  <2> QED BY <2>1, <2>2, <2>3, <2>4, <2>5, <2>6, <2>7, <2>8, <2>9 DEF Next
<1> QED BY <1>1, <1>2, PTL DEF Spec

-----------------------------------------------------------------------------
(* How a task's step changes what TableInv speaks of.                        *)

\* A connection that enters the table as its task gets there keeps TableInv:
\* the entry it replaces is the only writer dropped.
LEMMA InsertKeeps ==
  ASSUME TypeOK, TableInv, NEW c \in Conn, NEW m \in Ends(c),
         task[c][m] \in Unregistered \ {"none"},
         m = From[c] => task[c][To[c]] # "none",
         Insert(m, Other(c, m), c), Goto(c, m, "registered")
  PROVE  TableInv'
<1> DEFINE n == Other(c, m)
<1>1. /\ m \in Peer /\ n \in Peer /\ n # m /\ Ends(c) = {m, n}
      /\ \A k : Ends(c) = {m, k} => k = n
  BY OtherEnd
<1>2. /\ \A p, q \in Peer :
           table'[p][q] = IF p = m /\ q = n THEN c ELSE table[p][q]
      /\ \A d \in Conn, p \in Peer :
           p \in writer'[d] <=> p \in writer[d] /\ ~(p = m /\ table[m][n] = d)
  BY <1>1, Inserting
<1>3. \A d \in Conn, p \in Peer :
        task'[d][p] = IF d = c /\ p = m THEN "registered" ELSE task[d][p]
  BY <1>1, Going DEF Phase
<1>4. \A p, q \in Peer : table[p][q] \in Conn \cup {None} /\ None \notin Conn
  BY ConstantsOK DEF TypeOK
<1>5. \A k \in Peer : table[m][k] # c
  BY <1>1, <1>4, ConstantsOK DEF TableInv, NoDeadEntry, Unregistered
<1>6. NoDeadEntry'
  <2> SUFFICES ASSUME NEW p \in Peer, NEW q \in Peer, table'[p][q] # None
               PROVE  /\ Ends(table'[p][q]) = {p, q}
                      /\ task'[table'[p][q]][p] \in {"registered", "reading"}
    BY DEF NoDeadEntry, Ends
  <2>1. CASE p = m /\ q = n
    BY <1>1, <1>2, <1>3, <2>1
  <2>2. CASE ~(p = m /\ q = n)
    <3>1. table'[p][q] = table[p][q] /\ table[p][q] \in Conn
      BY <1>2, <1>4, <2>2
    <3>2. /\ Ends(table[p][q]) = {p, q}
          /\ task[table[p][q]][p] \in {"registered", "reading"}
      BY <3>1 DEF TableInv, NoDeadEntry
    <3> QED BY <1>3, <3>1, <3>2
  <2> QED BY <2>1, <2>2
<1>7. NoLeakedWriter'
  <2> SUFFICES ASSUME NEW d \in Conn, NEW p \in Ends(d)
               PROVE  p \in writer'[d] <=> ( \/ task'[d][p] \in Unregistered
                                           \/ table'[p][Other(d, p)] = d )
    BY DEF NoLeakedWriter, Other, Ends
  <2>1. p \in Peer /\ Other(d, p) \in Peer
    BY OtherEnd
  <2>2. p \in writer[d] <=> (task[d][p] \in Unregistered \/ table[p][Other(d, p)] = d)
    BY DEF TableInv, NoLeakedWriter
  <2>3. CASE d = c /\ p = m
    BY <1>1, <1>2, <1>5, <2>2, <2>3 DEF Unregistered
  <2>4. CASE p = m /\ d # c /\ table[m][n] = d
    <3>1. Ends(d) = {m, n} /\ task[d][m] \notin Unregistered
      BY <1>1, <1>4, <2>4 DEF TableInv, NoDeadEntry, Unregistered
    <3>2. Other(d, m) = n
      BY <2>4, <3>1, OtherEnd
    <3> QED BY <1>1, <1>2, <1>3, <2>4, <3>1, <3>2
  <2>5. CASE p = m /\ d # c /\ table[m][n] # d
    <3>1. p \in writer'[d] <=> p \in writer[d]
      BY <1>2, <2>1, <2>5
    <3>2. task'[d][p] = task[d][p]
      BY <1>3, <2>1, <2>5
    <3>3. table'[p][Other(d, p)] = d <=> table[p][Other(d, p)] = d
      BY <1>2, <2>1, <2>5
    <3> QED BY <2>2, <3>1, <3>2, <3>3
  <2>6. CASE p # m
    BY <1>2, <1>3, <2>1, <2>2, <2>6
  <2> QED BY <2>3, <2>4, <2>5, <2>6
<1>8. Handshaken'
  BY <1>1, <1>3, ConstantsOK DEF TableInv, Handshaken, Ends, Unregistered, Other
<1> QED BY <1>6, <1>7, <1>8 DEF TableInv

\* So does removing a peer, if the tasks that hold the entry go where an entry
\* is not needed, and no other entry is theirs.
LEMMA RemoveKeeps ==
  ASSUME TypeOK, NoDeadEntry, NoLeakedWriter,
         NEW m \in Peer, NEW n \in Peer, RemovePeer(m, n),
         NEW c \in Conn, NEW k \in Ends(c),
         task' = task \/ \E phase \in Phase :
                           /\ Goto(c, k, phase)
                           /\ phase \in Unregistered <=> task[c][k] \in Unregistered
                           /\ \/ task[c][k] \in Unregistered
                              \/ k = m /\ n = Other(c, m)
  PROVE  NoDeadEntry' /\ NoLeakedWriter'
<1>1. /\ \A p, q \in Peer :
           table'[p][q] = IF p = m /\ q = n THEN None ELSE table[p][q]
      /\ \A d \in Conn, p \in Peer :
           p \in writer'[d] <=> p \in writer[d] /\ ~(p = m /\ table[m][n] = d)
  BY Removing
<1>2. k \in Peer
  BY OtherEnd
<1>3. \A d \in Conn, p \in Peer :
        /\ task'[d][p] \in Unregistered <=> task[d][p] \in Unregistered
        /\ \/ task'[d][p] = task[d][p]
           \/ d = c /\ p = k /\ task[d][p] \in Unregistered
           \/ d = c /\ p = m /\ n = Other(d, m) /\ p \in Ends(d)
  BY <1>2, Going
<1>4. \A p, q \in Peer : table[p][q] \in Conn \cup {None} /\ None \notin Conn
  BY ConstantsOK DEF TypeOK
<1>5. NoDeadEntry'
  <2> SUFFICES ASSUME NEW p \in Peer, NEW q \in Peer, table'[p][q] # None
               PROVE  /\ Ends(table'[p][q]) = {p, q}
                      /\ task'[table'[p][q]][p] \in {"registered", "reading"}
    BY DEF NoDeadEntry, Ends
  <2>1. table'[p][q] = table[p][q] /\ ~(p = m /\ q = n)
    BY <1>1
  <2>2. /\ table[p][q] \in Conn /\ Ends(table[p][q]) = {p, q}
        /\ task[table[p][q]][p] \in {"registered", "reading"}
    BY <1>4, <2>1 DEF NoDeadEntry
  <2>3. p = m => n # Other(table[p][q], m)
    BY <2>1, <2>2, OtherEnd
  <2> QED BY <1>3, <2>1, <2>2, <2>3 DEF Unregistered
<1>6. NoLeakedWriter'
  <2> SUFFICES ASSUME NEW d \in Conn, NEW p \in Ends(d)
               PROVE  p \in writer'[d] <=> ( \/ task'[d][p] \in Unregistered
                                           \/ table'[p][Other(d, p)] = d )
    BY DEF NoLeakedWriter, Other, Ends
  <2>1. p \in Peer /\ Other(d, p) \in Peer
    BY OtherEnd
  <2>2. p \in writer[d] <=> (task[d][p] \in Unregistered \/ table[p][Other(d, p)] = d)
    BY DEF NoLeakedWriter
  <2>3. CASE p = m /\ table[m][n] = d
    <3>1. Ends(d) = {m, n} /\ task[d][m] \notin Unregistered
      BY <1>4, <2>3 DEF NoDeadEntry, Unregistered
    <3>2. Other(d, m) = n
      BY <2>3, <3>1, OtherEnd
    <3>3. d # None
      BY ConstantsOK
    <3> QED BY <1>1, <1>3, <2>1, <2>3, <3>1, <3>2, <3>3
  <2>4. CASE ~(p = m /\ table[m][n] = d)
    <3>1. p \in writer'[d] <=> p \in writer[d]
      BY <1>1, <2>1, <2>4
    <3>2. table'[p][Other(d, p)] = d <=> table[p][Other(d, p)] = d
      BY <1>1, <2>1, <2>4, ConstantsOK
    <3> QED BY <1>3, <2>1, <2>2, <3>1, <3>2
  <2> QED BY <2>3, <2>4
<1> QED BY <1>5, <1>6

\* So does a step of a task that leaves the table alone, and drops its write half
\* if it is done before it has registered.
LEMMA MoveKeeps ==
  ASSUME TypeOK, NoDeadEntry, NoLeakedWriter, table' = table,
         NEW c \in Conn, NEW m \in Ends(c), NEW phase \in Phase, Goto(c, m, phase),
         \/ /\ writer' = writer
            /\ phase \in Unregistered <=> task[c][m] \in Unregistered
            /\ task[c][m] \in {"registered", "reading"} => phase \in {"registered", "reading"}
         \/ /\ writer' = [writer EXCEPT ![c] = @ \ {m}]
            /\ task[c][m] \in Unregistered /\ phase = "done"
  PROVE  NoDeadEntry' /\ NoLeakedWriter'
<1>1. m \in Peer
  BY OtherEnd
<1>2. \A d \in Conn, p \in Peer :
        task'[d][p] = IF d = c /\ p = m THEN phase ELSE task[d][p]
  BY <1>1, Going
<1>3. \A p, q \in Peer : table[p][q] \in Conn \cup {None} /\ None \notin Conn
  BY ConstantsOK DEF TypeOK
<1>4. task[c][m] \in Unregistered => \A k \in Peer : table[m][k] # c
  BY <1>1, <1>3, ConstantsOK DEF NoDeadEntry, Unregistered
<1>5. NoDeadEntry'
  <2> SUFFICES ASSUME NEW p \in Peer, NEW q \in Peer, table[p][q] # None
               PROVE  /\ Ends(table[p][q]) = {p, q}
                      /\ task'[table[p][q]][p] \in {"registered", "reading"}
    BY DEF NoDeadEntry, Ends
  <2>1. /\ table[p][q] \in Conn /\ Ends(table[p][q]) = {p, q}
        /\ task[table[p][q]][p] \in {"registered", "reading"}
    BY <1>3 DEF NoDeadEntry
  <2> QED BY <1>2, <1>4, <2>1
<1>6. NoLeakedWriter'
  <2> SUFFICES ASSUME NEW d \in Conn, NEW p \in Ends(d)
               PROVE  p \in writer'[d] <=> ( \/ task'[d][p] \in Unregistered
                                           \/ table[p][Other(d, p)] = d )
    BY DEF NoLeakedWriter, Other, Ends
  <2>1. p \in Peer /\ Other(d, p) \in Peer
    BY OtherEnd
  <2>2. p \in writer[d] <=> (task[d][p] \in Unregistered \/ table[p][Other(d, p)] = d)
    BY DEF NoLeakedWriter
  <2>3. CASE writer' = writer /\ (phase \in Unregistered <=> task[c][m] \in Unregistered)
    BY <1>2, <2>1, <2>2, <2>3, <1>4 DEF Unregistered
  <2>4. CASE /\ writer' = [writer EXCEPT ![c] = @ \ {m}]
             /\ task[c][m] \in Unregistered /\ phase = "done"
    <3>1. p \in writer'[d] <=> p \in writer[d] /\ ~(d = c /\ p = m)
      BY <2>4 DEF TypeOK
    <3> QED BY <1>2, <1>4, <2>1, <2>2, <2>4, <3>1 DEF Unregistered
  <2> QED BY <2>3, <2>4
<1> QED BY <1>5, <1>6

\* Every step keeps the entries, the writers and the handshakes in order.
LEMMA TableStep ==
  ASSUME TypeOK, TableInv, [Next]_vars
  PROVE  TableInv'
<1>1. ASSUME NEW c \in Conn, NEW m \in Peer, Task(c, m) PROVE TableInv'
  <2> USE <1>1
  <2>0. /\ From[c] \in Ends(c) /\ To[c] \in Ends(c) /\ From[c] # To[c]
        /\ From[c] \in Peer /\ To[c] \in Peer
        /\ Other(c, From[c]) = To[c] /\ Other(c, To[c]) = From[c]
    BY ConstantsOK DEF Ends, Other
  <2>1. CASE RegisterOutbound(c)
    BY <2>0, <2>1, InsertKeeps DEF RegisterOutbound, At, Unregistered
  <2>2. CASE RegisterInbound(c)
    BY <2>0, <2>2, InsertKeeps DEF RegisterInbound, At, Unregistered
  <2>3. CASE DialFails(c)
    <3>1. NoDeadEntry' /\ NoLeakedWriter'
      BY <2>0, <2>3, MoveKeeps DEF DialFails, At, TableInv, Unregistered, Phase
    <3>2. \A d \in Conn, p \in Peer :
            task'[d][p] = IF d = c /\ p = From[c] THEN "done" ELSE task[d][p]
      BY <2>0, <2>3, Going DEF DialFails, Phase
    <3>3. Handshaken'
      BY <2>0, <3>2, ConstantsOK DEF TableInv, Handshaken
    <3> QED BY <3>1, <3>3 DEF TableInv
  <2>4. CASE Accept(c)
    <3>0. PICK phase \in {"greeted", "done"} : Goto(c, To[c], phase)
      BY <2>4 DEF Accept
    <3>1. NoDeadEntry' /\ NoLeakedWriter'
      <4>1. CASE Goto(c, To[c], "greeted") /\ writer' = writer
        BY <2>0, <2>4, <4>1, MoveKeeps DEF Accept, At, TableInv, Unregistered, Phase
      <4>2. CASE /\ Goto(c, To[c], "done")
                 /\ writer' = [writer EXCEPT ![c] = @ \ {To[c]}]
        BY <2>0, <2>4, <4>2, MoveKeeps DEF Accept, At, TableInv, Unregistered, Phase
      <4> QED BY <2>4, <4>1, <4>2 DEF Accept
    <3>2. \A d \in Conn, p \in Peer :
            task'[d][p] = IF d = c /\ p = To[c] THEN phase ELSE task[d][p]
      BY <2>0, <3>0, Going DEF Phase
    <3>3. task[c][From[c]] # "none"
      BY <2>4 DEF Accept
    <3>4. Handshaken'
      BY <2>0, <3>2, <3>3, ConstantsOK DEF TableInv, Handshaken
    <3> QED BY <3>1, <3>4 DEF TableInv
  <2>5. CASE Reject(c)
    <3>1. NoDeadEntry' /\ NoLeakedWriter'
      BY <2>0, <2>5, MoveKeeps DEF Reject, At, TableInv, Unregistered, Phase
    <3>2. \A d \in Conn, p \in Peer :
            task'[d][p] = IF d = c /\ p = To[c] THEN "done" ELSE task[d][p]
      BY <2>0, <2>5, Going DEF Reject, Phase
    <3>3. Handshaken'
      BY <2>0, <2>5, <3>2, ConstantsOK DEF TableInv, Handshaken, Reject, At
    <3> QED BY <3>1, <3>3 DEF TableInv
  <2>6. CASE Admit(c)
    <3>0. PICK phase \in {"yielding", "admitted"} : Goto(c, To[c], phase)
      BY <2>6 DEF Admit
    <3>1. NoDeadEntry' /\ NoLeakedWriter'
      BY <2>0, <2>6, <3>0, MoveKeeps DEF Admit, At, TableInv, Unregistered, Phase
    <3>2. \A d \in Conn, p \in Peer :
            task'[d][p] = IF d = c /\ p = To[c] THEN phase ELSE task[d][p]
      BY <2>0, <3>0, Going DEF Phase
    <3>3. Handshaken'
      BY <2>0, <2>6, <3>2, ConstantsOK DEF TableInv, Handshaken, Admit, At
    <3> QED BY <3>1, <3>3 DEF TableInv
  <2>7. CASE Replace(c)
    <3>1. NoDeadEntry' /\ NoLeakedWriter'
      <4>1. /\ Goto(c, To[c], "admitted")
            /\ "admitted" \in Phase /\ "admitted" \in Unregistered
            /\ task[c][To[c]] \in Unregistered
        BY <2>7 DEF Replace, At, Phase, Unregistered
      <4> QED BY <2>0, <2>7, <4>1, RemoveKeeps DEF Replace, TableInv
    <3>2. \A d \in Conn, p \in Peer :
            task'[d][p] = IF d = c /\ p = To[c] THEN "admitted" ELSE task[d][p]
      BY <2>0, <2>7, Going DEF Replace, Phase
    <3>3. Handshaken'
      BY <2>0, <2>7, <3>2, ConstantsOK DEF TableInv, Handshaken, Replace, At
    <3> QED BY <3>1, <3>3 DEF TableInv
  <2>8. CASE Announce(c, m)
    <3>1. NoDeadEntry' /\ NoLeakedWriter'
      BY <2>8, MoveKeeps DEF Announce, At, TableInv, Unregistered, Phase
    <3>2. \A d \in Conn, p \in Peer :
            task'[d][p] = IF d = c /\ p = m THEN "reading" ELSE task[d][p]
      BY <2>8, Going DEF Announce, Phase
    <3>3. Handshaken'
      BY <2>0, <2>8, <3>2, ConstantsOK DEF TableInv, Handshaken, Announce, At
    <3> QED BY <3>1, <3>3 DEF TableInv
  <2>9. CASE ReadEnds(c, m)
    <3>1. NoDeadEntry' /\ NoLeakedWriter'
      <4>1. /\ m \in Ends(c) /\ Goto(c, m, "removed") /\ RemovePeer(m, Other(c, m))
            /\ "removed" \in Phase /\ "removed" \notin Unregistered
            /\ task[c][m] \notin Unregistered
        BY <2>9 DEF ReadEnds, At, Phase, Unregistered
      <4> QED BY <4>1, OtherEnd, RemoveKeeps DEF TableInv
    <3>2. \A d \in Conn, p \in Peer :
            task'[d][p] = IF d = c /\ p = m THEN "removed" ELSE task[d][p]
      BY <2>9, Going DEF ReadEnds, Phase
    <3>3. Handshaken'
      BY <2>0, <2>9, <3>2, ConstantsOK DEF TableInv, Handshaken, ReadEnds, At
    <3> QED BY <3>1, <3>3 DEF TableInv
  <2>10. CASE Farewell(c, m)
    <3>1. NoDeadEntry' /\ NoLeakedWriter'
      BY <2>10, MoveKeeps DEF Farewell, At, TableInv, Unregistered, Phase
    <3>2. \A d \in Conn, p \in Peer :
            task'[d][p] = IF d = c /\ p = m THEN "done" ELSE task[d][p]
      BY <2>10, Going DEF Farewell, Phase
    <3>3. Handshaken'
      BY <2>0, <2>10, <3>2, ConstantsOK DEF TableInv, Handshaken, Farewell, At
    <3> QED BY <3>1, <3>3 DEF TableInv
  <2> QED BY <2>1, <2>2, <2>3, <2>4, <2>5, <2>6, <2>7, <2>8, <2>9, <2>10 DEF Task
<1>2. ASSUME NEW c \in Conn, Connect(c) PROVE TableInv'
  <2>0. From[c] \in Ends(c) /\ From[c] # To[c] /\ From[c] \in Peer /\ To[c] \in Peer
    BY ConstantsOK DEF Ends
  <2>1. NoDeadEntry' /\ NoLeakedWriter'
    BY <1>2, <2>0, MoveKeeps DEF Connect, At, TableInv, Unregistered, Phase
  <2>2. \A d \in Conn, p \in Peer :
          task'[d][p] = IF d = c /\ p = From[c] THEN "dialing" ELSE task[d][p]
    BY <1>2, <2>0, Going DEF Connect, Phase
  <2>3. Handshaken'
    BY <2>0, <2>2, ConstantsOK DEF TableInv, Handshaken
  <2> QED BY <2>1, <2>3 DEF TableInv
<1>3. ASSUME NEW m \in Peer, NEW n \in Peer, Leave(m, n) PROVE TableInv'
  <2>1. RemovePeer(m, n) /\ task' = task
    BY <1>3 DEF Leave
  <2>2. CASE \E c \in Conn : TRUE
    <3>1. PICK c \in Conn : TRUE
      BY <2>2
    <3>2. From[c] \in Ends(c)
      BY DEF Ends
    <3> QED BY <2>1, <3>1, <3>2, RemoveKeeps DEF TableInv, Handshaken
  <2>3. CASE Conn = {}
    BY <2>1, <2>3, Removing DEF TableInv, Handshaken, NoDeadEntry, NoLeakedWriter
  <2> QED BY <2>2, <2>3
<1>4. CASE UNCHANGED <<task, writer, table>>
  BY <1>4 DEF TableInv, Handshaken, NoDeadEntry, NoLeakedWriter, Ends, Other
<1> QED
  BY <1>1, <1>2, <1>3, <1>4
  DEF Next, vars, Disconnect, DisconnectNotice, Shutdown, ListPeers, Fail

\* Whatever connect(), disconnect(), shutdown(), the accept loop and the read loops
\* do to the table in any order, its entries have a reader (lan.rs: inserts come
\* before the read loop, removals are by id) and no write half is left open.
THEOREM TableSound == Spec => [](NoDeadEntry /\ NoLeakedWriter)
<1>1. Init => TableInv
  BY ConstantsOK DEF Init, TableInv, Handshaken, NoDeadEntry, NoLeakedWriter,
                     Ends, Other, Unregistered
<1>2. TypeOK /\ TableInv /\ [Next]_vars => TableInv'
  BY TableStep
<1>3. TableInv => NoDeadEntry /\ NoLeakedWriter
  BY DEF TableInv
<1> QED BY <1>1, <1>2, <1>3, TypeCorrect, PTL DEF Spec

\* Nobody but the table, or a task that has yet to register it, holds the write half of a
\* connection, whatever is dialled, replaced, closed or shut down (lan.rs: connect, the
\* accept loop, the removals by id).
THEOREM WritersKept == Spec => []NoLeakedWriter
BY TableSound, PTL

\* An entry whose read loop waits is an entry of the other peer too.
LEMMA EntryShared ==
  ASSUME TypeOK, TableInv, Quiet,
         NEW m \in Peer, NEW n \in Peer, table[m][n] # None
  PROVE  table[n][m] = table[m][n]
<1> DEFINE c == table[m][n]
<1>1. c \in Conn /\ Ends(c) = {m, n} /\ task[c][m] \in {"registered", "reading"}
  <2>1. c \in Conn
    BY DEF TypeOK
  <2>2. Ends(c) = {m, n} /\ task[c][m] \in {"registered", "reading"}
    BY DEF TableInv, NoDeadEntry
  <2> QED BY <2>1, <2>2
<1>2. m \in Ends(c) /\ n \in Ends(c) /\ Other(c, m) = n /\ Other(c, n) = m
  BY <1>1, OtherEnd
<1>3. task[c][m] = "reading" /\ ~Over(c, m)
  BY <1>1, <1>2 DEF Quiet
<1>4. n \in writer[c]
  BY <1>2, <1>3 DEF Over
<1>5. task[c][n] \in Unregistered \/ table[n][m] = c
  BY <1>1, <1>2, <1>4 DEF TableInv, NoLeakedWriter
<1>6. task[c][n] \in {"none", "done", "reading"}
  BY <1>1, <1>2 DEF Quiet
<1>7. task[c][n] # "none"
  BY <1>1, <1>2, <1>3, ConstantsOK DEF TableInv, Handshaken, Ends
<1> QED BY <1>5, <1>6, <1>7 DEF Unregistered

\* When nothing is left to do, both peers use the same connection or neither has
\* one: no peer keeps talking to one that has dropped it.
THEOREM RestAgreed == Spec => []AgreeAtRest
<1>1. TypeOK /\ TableInv => AgreeAtRest
  BY EntryShared DEF AgreeAtRest, TypeOK
<1>2. Init => TableInv
  BY ConstantsOK DEF Init, TableInv, Handshaken, NoDeadEntry, NoLeakedWriter,
                     Ends, Other, Unregistered
<1>3. TypeOK /\ TableInv /\ [Next]_vars => TableInv'
  BY TableStep
<1> QED BY <1>1, <1>2, <1>3, TypeCorrect, PTL DEF Spec

\* The event that says a peer is connected comes before its read loop, the other
\* event after it, whoever else sends one meanwhile.
LEMMA ToldStep ==
  ASSUME TypeOK, ToldByReader, [Next]_vars
  PROVE  ToldByReader'
<1> SUFFICES ASSUME NEW m \in Peer, NEW n \in Peer, told'[m][n] = "connected"
             PROVE  \E c \in Conn : /\ Ends(c) = {m, n}
                                    /\ task'[c][m] \in {"reading", "removed"}
  BY DEF ToldByReader, Ends
<1>1. ASSUME NEW d \in Conn, NEW k \in Peer, NEW phase \in Phase,
             Goto(d, k, phase), told' = told,
             task[d][k] \in {"reading", "removed"} => phase = "removed"
      PROVE  \E c \in Conn : Ends(c) = {m, n} /\ task'[c][m] \in {"reading", "removed"}
  <2>1. PICK c \in Conn : Ends(c) = {m, n} /\ task[c][m] \in {"reading", "removed"}
    BY <1>1 DEF ToldByReader
  <2>2. task'[c][m] = IF c = d /\ m = k THEN phase ELSE task[c][m]
    BY <1>1, Going
  <2> QED BY <1>1, <2>1, <2>2
<1>2. ASSUME NEW d \in Conn, NEW k \in Peer, Task(d, k)
      PROVE  \E c \in Conn : Ends(c) = {m, n} /\ task'[c][m] \in {"reading", "removed"}
  <2> USE <1>2
  <2>0. From[d] \in Peer /\ To[d] \in Peer
    BY ConstantsOK
  <2>1. CASE Announce(d, k)
    <3>1. /\ k \in Ends(d) /\ Goto(d, k, "reading") /\ task[d][k] = "registered"
          /\ told' = [told EXCEPT ![k][Other(d, k)] = "connected"]
      BY <2>1 DEF Announce, At, Tell
    <3>2. \A c \in Conn, p \in Peer :
            task'[c][p] = IF c = d /\ p = k THEN "reading" ELSE task[c][p]
      BY <3>1, Going DEF Phase
    <3>3. CASE m = k /\ n = Other(d, k)
      BY <3>1, <3>2, <3>3, OtherEnd
    <3>4. CASE ~(m = k /\ n = Other(d, k))
      <4>1. told[m][n] = "connected"
        BY <3>1, <3>4, OtherEnd DEF TypeOK
      <4>2. PICK c \in Conn : Ends(c) = {m, n} /\ task[c][m] \in {"reading", "removed"}
        BY <4>1 DEF ToldByReader
      <4> QED BY <3>1, <3>2, <4>2
    <3> QED BY <3>3, <3>4
  <2>2. CASE Farewell(d, k)
    <3>1. /\ k \in Ends(d) /\ Goto(d, k, "done")
          /\ told' = [told EXCEPT ![k][Other(d, k)] = "disconnected"]
      BY <2>2 DEF Farewell, SayGoodbye, At, Tell
    <3>2. \A c \in Conn, p \in Peer :
            task'[c][p] = IF c = d /\ p = k THEN "done" ELSE task[c][p]
      BY <3>1, Going DEF Phase
    <3>3. told[m][n] = "connected" /\ ~(m = k /\ n = Other(d, k))
      BY <3>1, OtherEnd DEF TypeOK
    <3>4. PICK c \in Conn : Ends(c) = {m, n} /\ task[c][m] \in {"reading", "removed"}
      BY <3>3 DEF ToldByReader
    <3>5. ~(c = d /\ m = k)
      BY <3>1, <3>3, <3>4, OtherEnd
    <3> QED BY <3>2, <3>4, <3>5
  <2>3. CASE ReadEnds(d, k)
    BY <1>1, <2>3 DEF ReadEnds, At, Phase
  <2>4. CASE Accept(d)
    BY <1>1, <2>0, <2>4 DEF Accept, At, Phase
  <2>5. CASE RegisterOutbound(d) \/ DialFails(d)
    BY <1>1, <2>0, <2>5 DEF RegisterOutbound, DialFails, At, Phase
  <2>6. CASE Reject(d) \/ Admit(d)
    BY <1>1, <2>0, <2>6 DEF Reject, Admit, At, Phase
  <2>7. CASE Replace(d) \/ RegisterInbound(d)
    BY <1>1, <2>0, <2>7 DEF Replace, RegisterInbound, At, Phase
  <2> QED BY <2>1, <2>2, <2>3, <2>4, <2>5, <2>6, <2>7 DEF Task
<1>3. ASSUME NEW d \in Conn, Connect(d)
      PROVE  \E c \in Conn : Ends(c) = {m, n} /\ task'[c][m] \in {"reading", "removed"}
  BY <1>1, <1>3, ConstantsOK DEF Connect, At, Phase
<1>4. ASSUME task' = task, told[m][n] = "connected"
      PROVE  \E c \in Conn : Ends(c) = {m, n} /\ task'[c][m] \in {"reading", "removed"}
  BY <1>4 DEF ToldByReader
<1>5. ASSUME NEW p \in Peer, NEW q \in Peer, DisconnectNotice(p, q)
      PROVE  task' = task /\ told[m][n] = "connected"
  BY <1>5 DEF DisconnectNotice, Tell, TypeOK
<1> QED
  BY <1>2, <1>3, <1>4, <1>5
  DEF Next, vars, Disconnect, Leave, Shutdown, ListPeers, Fail

\* When nothing is left to do, a peer that the transport reported as connected is in
\* the table, after any mixture of disconnects, shutdowns and replaced connections.
THEOREM RestTracked == Spec => []TrackedAtRest
<1>1. Init => TableInv /\ ToldByReader
  BY ConstantsOK DEF Init, TableInv, Handshaken, NoDeadEntry, NoLeakedWriter,
                     ToldByReader, Ends, Other, Unregistered
<1>2. TypeOK /\ TableInv /\ ToldByReader /\ [Next]_vars => (TableInv /\ ToldByReader)'
  BY TableStep, ToldStep
<1>3. TypeOK /\ TableInv /\ ToldByReader => TrackedAtRest
  <2> SUFFICES ASSUME TypeOK, TableInv, ToldByReader, Quiet,
                      NEW m \in Peer, NEW n \in Peer, told[m][n] = "connected"
               PROVE  table[m][n] # None
    BY DEF TrackedAtRest
  <2>1. PICK c \in Conn : Ends(c) = {m, n} /\ task[c][m] \in {"reading", "removed"}
    BY DEF ToldByReader
  <2>2. m \in Ends(c) /\ n \in Ends(c) /\ Other(c, m) = n /\ Other(c, n) = m
    BY <2>1, OtherEnd
  <2>3. task[c][m] = "reading" /\ ~Over(c, m) /\ task[c][n] \in {"none", "done", "reading"}
    BY <2>1, <2>2 DEF Quiet
  <2>4. task[c][n] # "none"
    BY <2>1, <2>2, <2>3, ConstantsOK DEF TableInv, Handshaken, Ends
  <2>5. table[n][m] = c
    BY <2>2, <2>3, <2>4 DEF Over, TableInv, NoLeakedWriter, Unregistered
  <2>6. c # None
    BY ConstantsOK
  <2> QED BY <2>5, <2>6, EntryShared
<1> QED BY <1>1, <1>2, <1>3, TypeCorrect, PTL DEF Spec
=============================================================================
