---------------------------- MODULE MCMembership ----------------------------
(***************************************************************************)
(* Small instances of Membership.  The holder A was created by `gw create` *)
(* and dials its own loopback address first; every other replica joined    *)
(* through A and dials it first.                                           *)
(***************************************************************************)
EXTENDS Membership, TLC

CONSTANTS A, B, n1, n2, x, y, basic, admin

SeedIsA == [r \in Replica |-> A]

\* Neither the code nor the properties tell two members or two names apart.
Symmetry == Permutations(Node) \cup Permutations(Name)
=============================================================================
