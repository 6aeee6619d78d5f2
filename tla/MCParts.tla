------------------------------- MODULE MCParts -------------------------------
(***************************************************************************)
(* Instances for TLC of the parts that run on their own: of swirldb-core,  *)
(* policy and subscriptions, the document, arrays of records and the       *)
(* codec; of the browser, its observers; of the server, discovery and the  *)
(* datagrams of the LAN transport.  They share no state; each is explored  *)
(* with the others at their beginning.                                     *)
(***************************************************************************)
EXTENDS Subscriptions, Document, RecordArrays, WireCodec, BrowserObservers, Discovery, LanEphemeral, TLC

CONSTANTS
  u, v, box, boxa, boxes, me, p1, p10, p2, old, new, anon, n1, n2,
  MaxWrites,  \* bound: items written by all assignments
  MaxUnder    \* bound: dials and datagrams under way, and connections being accepted

\* Policies of one rule with any pattern, or of several with short ones.
Make == MakePolicy /\ (Len(rules') = 1 \/ Used' <= 2)

\* What clients ask for, and the policies they are served under.
MCWanted == {<<u>>, <<Deep>>}
Serve == Len(rules) <= 1 /\ Used <= 1 /\ SubscriptionNext

\* Up to two changes wait for another.
BrowseFew == BrowserNext /\ Cardinality(held') <= 2

\* A scalar in a map, and one whose path begins with the map's without being in it.
MCUnder == (boxa :> {box}) @@ (boxes :> {})
MCBegins == (box :> {box}) @@ (boxa :> {box, boxa}) @@ (boxes :> {box, boxes})

\* Two peers, one's id the beginning of the other's, and two that are not nested.
MCInName == (me :> {me}) @@ (p1 :> {p1}) @@ (p2 :> {p2}) @@ (p10 :> {p10, p1})

\* Two versions of an item, the newer with a timestamp, and one without id, whose key comes
\* from the clock.
MCTime == (old :> 0) @@ (new :> 1) @@ (anon :> 0)
MCKeysOf == (old :> {2}) @@ (new :> {2}) @@ (anon :> {1, 3})
AssignFew ==
  ArrayNext /\ Cardinality({o \in UNION {seen'[r] : r \in Replica} : o.body \in Item}) <= MaxWrites

\* Two nodes that dial each other; the one that gives way in a tie-break may restart.
MCRank == (n1 :> 1) @@ (n2 :> 2)
MCDials == {<<n1, n2>>, <<n2, n1>>}
Accepting(n, m) == greeted[n][m] + admitted[n][m]
DialFew ==
  /\ EphemeralNext
  /\ Cardinality(dialing') + Cardinality(air') <= MaxUnder
  /\ Accepting(n1, n2)' + Accepting(n2, n1)' <= MaxUnder
  /\ socket'[n1] = 0

policyVars == <<rules, subscriptionVars>>

VARIABLE part  \* the one that moves

\* What does not belong to the part that moves stays as it began.
OthersStay ==
  /\ IF part = "policy" THEN TRUE ELSE UNCHANGED policyVars
  /\ IF part = "document" THEN TRUE ELSE UNCHANGED documentVars
  /\ IF part = "array" THEN TRUE ELSE UNCHANGED arrayVars
  /\ IF part = "wire" THEN TRUE ELSE UNCHANGED wireVars
  /\ IF part = "browser" THEN TRUE ELSE UNCHANGED browserVars
  /\ IF part = "discovery" THEN TRUE ELSE UNCHANGED discoveryVars
  /\ IF part = "datagram" THEN TRUE ELSE UNCHANGED ephemeralVars
  /\ UNCHANGED part

MCInit ==
  /\ Init /\ SubscriptionInit /\ DocumentInit /\ ArrayInit /\ WireInit
  /\ BrowserInit /\ DiscoveryInit /\ EphemeralInit
  /\ part \in {"policy", "document", "array", "wire", "browser", "discovery", "datagram"}
  /\ part = "policy" \/ enforced

MCNext ==
  /\ OthersStay
  /\ \/ part = "policy" /\ (Make \/ Serve)
     \/ part = "document" /\ DocumentNext
     \/ part = "array" /\ AssignFew
     \/ part = "wire" /\ WireNext
     \/ part = "browser" /\ BrowseFew
     \/ part = "discovery" /\ DiscoveryNext
     \/ part = "datagram" /\ DialFew

MCVars == <<policyVars, documentVars, arrayVars, wireVars, browserVars, discoveryVars, ephemeralVars, part>>

MCSpec == MCInit /\ [][MCNext]_MCVars
=============================================================================
