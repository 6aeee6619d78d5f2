--------------------------- MODULE MCPeerStorage ---------------------------
(* The instance of PeerStorage that TLC checks. *)
EXTENDS PeerStorage
=============================================================================
