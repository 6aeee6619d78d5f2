---------------------------- MODULE MCServerLinks ----------------------------
(* Instances of ServerLinks for TLC. *)
EXTENDS ServerLinks

CONSTANTS a, b, c, l1, l2, f

Join(p, q) == [l \in Link |-> IF l = l1 THEN p ELSE q]
Mutual == Join(<<a, b>>, <<b, a>>)
Chain == Join(<<a, b>>, <<b, c>>)
Twice == Join(<<a, b>>, <<a, b>>)

\* One change goes over both links of a pair and back; a chain is for two changes,
\* one of which may depend on the other.  Ephemeral frames only where they come to an
\* end: those of a mutual pair are the subject of LoopLoad.
MCLoad == (Mutual :> {1}) @@ (Chain :> {1, 2, f}) @@ (Twice :> {1, f})
MCTopologies == DOMAIN MCLoad

\* A frame between two servers that dial each other.
LoopLoad == Mutual :> {f}
LoopTopologies == DOMAIN LoopLoad
=============================================================================
