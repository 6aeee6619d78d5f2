---------------------------- MODULE MCSyncServer ----------------------------
(* Instances of SyncServer for TLC. *)
EXTENDS SyncServer

CONSTANTS a, b, k1, k2, k3, x, y, z, p, q

MCClientOf == [k \in Conn |-> IF k = k2 THEN b ELSE a]
MCPatterns == [k \in Conn |-> IF k = k2 THEN {p, q, Root} ELSE {p}]
MCPathOf == [c \in Change |-> IF c = z THEN q ELSE p]

\* x and y write the same path.
SameChanges == Permutations({x, y})
=============================================================================
