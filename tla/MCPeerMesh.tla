----------------------------- MODULE MCPeerMesh -----------------------------
(* Instances of PeerMesh for TLC. *)
EXTENDS PeerMesh, TLC

CONSTANTS a, b, c

MCMutual == {<<a, b>>, <<b, a>>}
MCTriangle == {<<a, b>>, <<a, c>>, <<b, c>>}

\* Both peers discover each other, and no change differs from another.
Same == Permutations({a, b}) \cup Permutations(Change)
=============================================================================
