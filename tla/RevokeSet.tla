----------------------------- MODULE RevokeSet -----------------------------
(***************************************************************************)
(* What the replicated revoke statements promise, with no clocks, files or *)
(* messages: a set of identities the operator decided to exclude, and at   *)
(* every member a set of the exclusions that member's daemon knows.  A     *)
(* member knows only what was decided, and what it knows never shrinks,    *)
(* across restarts too.                                                    *)
(***************************************************************************)

CONSTANTS Member,   \* every daemon that keeps a statement log
          Subject   \* the identities a decision can be about

VARIABLES decided,  \* identities some operator revoked
          seen      \* member -> identities its daemon knows are revoked

vars == <<decided, seen>>

Init == /\ decided = {}
        /\ seen = [m \in Member |-> {}]

\* An operator revokes an identity at some holder.
Decide(n) == /\ decided' = decided \cup {n}
             /\ UNCHANGED seen

\* A member learns some of the decisions made so far.
Learn(m) == \E S \in SUBSET decided :
               /\ seen' = [seen EXCEPT ![m] = @ \cup S]
               /\ UNCHANGED decided

Next == \/ \E n \in Subject : Decide(n)
        \/ \E m \in Member : Learn(m)

Spec == Init /\ [][Next]_vars
=============================================================================
