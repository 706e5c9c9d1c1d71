---------------------------- MODULE MCAuthority ----------------------------
(* The holder `gw create` made, a node that joined, and one only offered to. *)
EXTENDS Authority

CONSTANTS a, b, c

MCPair == {a, b}
=============================================================================
