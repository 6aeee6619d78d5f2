--------------------------- MODULE MCLanTransport ---------------------------
(* Instances of LanTransport for TLC: a low and a high peer id. *)
EXTENDS LanTransport, TLC

CONSTANTS low, high, c1, c2, c3

MCFrom == [c \in Conn |-> IF c = c2 THEN high ELSE low]
MCTo == [c \in Conn |-> IF c = c2 THEN low ELSE high]
SameConns == Permutations({c1, c3})
MCRank == [m \in Peer |-> IF m = low THEN 0 ELSE 1]
=============================================================================
