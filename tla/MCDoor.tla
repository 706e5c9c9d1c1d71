------------------------------- MODULE MCDoor -------------------------------
(* Instances of Door for TLC. *)
EXTENDS Door
CONSTANTS s1, s2, s3, node, web
=============================================================================
