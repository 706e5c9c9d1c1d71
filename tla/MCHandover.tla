----------------------------- MODULE MCHandover -----------------------------
(* One transfer after the other between two hosts, with one or two members. *)
EXTENDS Handover
=============================================================================
