---------------------------- MODULE PolicyStore ----------------------------
(***************************************************************************)
(* The signed grant table on every node: the copy the daemon runs with,    *)
(* the file policy.json, and the ways a table gets into them.  A holder of *)
(* the CA key writes the file with `gw policy apply`; its daemon reloads a *)
(* changed file; every daemon is offered the table of the holder it syncs  *)
(* from.  An offer is taken into memory under the lock, and written to the *)
(* file after the lock is released, by whichever thread made it.  The      *)
(* holder that `gw create` made syncs from itself.                         *)
(*                                                                         *)
(* The operators also move the mesh to a new CA key, as the runbook says:  *)
(* promote a member, trust both keys, then drop the old one.               *)
(***************************************************************************)
EXTENDS Naturals

CONSTANTS Node,
          OldHolders,  \* the holders of the old CA key
          Root,        \* the holder that a node's root_url names
          Rank,        \* the order in which the other holders are tried
          Home,        \* the holder at which operators apply, if they care
          GrantSets,   \* the grants an operator may apply
          Old, New,    \* the CA keys
          NoKey, Unset,
          Waits,       \* operators apply at one holder, when its daemon has
                       \* taken up their last table, and promote a node that
                       \* has it: nothing in the code asks this of them
          Resigns,     \* and only under the new key once there is one, before
                       \* the old one is dropped
          MaxSeq,      \* bound: sequence numbers
          MaxStops,    \* bound: daemons stopped, with or without a crash
          MaxFaults    \* bound: failed reads and writes of policy.json

ASSUME PolicyAssumption ==
    /\ OldHolders \subseteq Node /\ Home \in OldHolders
    /\ Root \in [Node -> OldHolders]
    /\ Rank \in [Node -> Nat] /\ \A m, n \in Node : Rank[m] = Rank[n] => m = n
    /\ NoKey \notin {Old, New} /\ Old # New
    /\ Waits \in BOOLEAN /\ Resigns \in BOOLEAN
    /\ GrantSets # {} /\ MaxSeq \in Nat \ {0} /\ MaxStops \in Nat /\ MaxFaults \in Nat

Threads == {"sync", "reconcile"}

Table == [seq : 1..MaxSeq, grants : GrantSets, ca : {Old, New}]
NoTable == [seq |-> 0, grants |-> Unset, ca |-> NoKey]
NoApply == [old |-> NoTable, grants |-> Unset]

VARIABLES
    mem,      \* GrantPolicy._table
    file,     \* policy.json
    seen,     \* the file's mtime is the one last looked at
    writing,  \* what a thread has adopted and not yet written
    trust,    \* the trusted CA keys, as the daemon read them at its start
    key,      \* the CA key a node holds
    apply,    \* `gw policy apply` between its read and its write
    down,     \* the nodes whose daemon is not running
    lost,     \* the nodes that failed to read or write their file
    stops, faults

vars == <<mem, file, seen, writing, trust, key, apply, down, lost, stops, faults>>

Idle == [t \in Threads |-> NoTable]

Holders == {n \in Node : key[n] # NoKey}

\* What root_url names: for a created holder its own loopback, for another node
\* the holder that let it in.  A node that is told of the new key is repointed,
\* while the promoted node keeps its root_url.
AtRoot(n, h) ==
    IF New \in trust[n] /\ key[n] # New THEN key[h] = New ELSE h = Root[n]

\* The holders a node syncs from: the root, then every other one it discovers,
\* whose credential is of a CA it trusts.
Seeds(n) == {h \in Holders : AtRoot(n, h) \/ (h # n /\ key[h] \in trust[n])}

Earlier(n, h, s) == AtRoot(n, h) \/ (~AtRoot(n, s) /\ Rank[h] <= Rank[s])

\* It is read and verified; a table with an untrusted signature is no table.
Valid(n, t) == t.seq > 0 /\ t.ca \in trust[n]

First == [seq |-> 1, grants |-> CHOOSE g \in GrantSets : TRUE, ca |-> Old]

\* `gw create` signs the first table, a join brings it along.
Init ==
    /\ file = [n \in Node |-> First] /\ mem = file
    /\ seen = [n \in Node |-> TRUE]
    /\ writing = [n \in Node |-> Idle]
    /\ trust = [n \in Node |-> {Old}]
    /\ key = [n \in Node |-> IF n \in OldHolders THEN Old ELSE NoKey]
    /\ apply = [n \in Node |-> NoApply]
    /\ down = {} /\ lost = {} /\ stops = 0 /\ faults = 0

-----------------------------------------------------------------------------
(* The daemon.                                                              *)

\* Mutant: the newest offer is taken, whatever its number.
AnyNumber(n, thread, t) ==
    IF Valid(n, t) /\ t # mem[n]
    THEN /\ mem' = [mem EXCEPT ![n] = t]
         /\ writing' = [writing EXCEPT ![n][thread] = t]
    ELSE UNCHANGED <<mem, writing>>

\* Under the lock: a valid table with a higher number is adopted.
Offer(n, thread, t) ==
    IF Valid(n, t) /\ t.seq > mem[n].seq
    THEN /\ mem' = [mem EXCEPT ![n] = t]
         /\ writing' = [writing EXCEPT ![n][thread] = t]
    ELSE UNCHANGED <<mem, writing>>

Free(n, thread) == n \notin down /\ writing[n][thread] = NoTable

Fault(n) == faults < MaxFaults /\ faults' = faults + 1 /\ lost' = lost \cup {n}

\* Mutant: the table is not kept.
Forget(n, thread) ==
    /\ ~Free(n, thread) /\ n \notin down
    /\ writing' = [writing EXCEPT ![n][thread] = NoTable]
    /\ UNCHANGED <<file, seen, lost, faults, mem, trust, key, apply, down, stops>>

\* After the lock: the file gets the table this thread has adopted.
Persist(n, thread) ==
    /\ ~Free(n, thread) /\ n \notin down
    /\ writing' = [writing EXCEPT ![n][thread] = NoTable]
    /\ \/ /\ file' = [file EXCEPT ![n] = writing[n][thread]]
          /\ seen' = [seen EXCEPT ![n] = FALSE]
          /\ UNCHANGED <<lost, faults>>
       \/ Fault(n) /\ UNCHANGED <<file, seen>>
    /\ UNCHANGED <<mem, trust, key, apply, down, stops>>

\* Once in a tick of the reconcile loop: the mtime is noted before the file is
\* read, so a read that fails is not tried again.
Refresh(n) ==
    /\ Free(n, "reconcile") /\ ~seen[n]
    /\ seen' = [seen EXCEPT ![n] = TRUE]
    /\ \/ Offer(n, "reconcile", file[n]) /\ UNCHANGED <<lost, faults>>
       \/ Fault(n) /\ UNCHANGED <<mem, writing>>
    /\ UNCHANGED <<file, trust, key, apply, down, stops>>

\* The sync loop pulls from the first seed that answers, which serves its file.
Pull(n, h) ==
    /\ Free(n, "sync") /\ h \in Seeds(n) \ down
    /\ \A s \in Seeds(n) \ down : Earlier(n, h, s)
    /\ Offer(n, "sync", file[h])
    /\ UNCHANGED <<file, seen, trust, key, apply, down, lost, stops, faults>>

Stop(n) ==
    /\ n \notin down /\ stops < MaxStops /\ stops' = stops + 1
    /\ down' = down \cup {n} /\ writing' = [writing EXCEPT ![n] = Idle]
    /\ UNCHANGED <<mem, file, seen, trust, key, apply, lost, faults>>

\* Mutant: the daemon starts without the file.
StartEmpty(n) ==
    /\ n \in down /\ down' = down \ {n}
    /\ mem' = [mem EXCEPT ![n] = NoTable] /\ seen' = [seen EXCEPT ![n] = FALSE]
    /\ UNCHANGED <<file, writing, trust, key, apply, lost, stops, faults>>

\* A file that does not verify is ignored.
Start(n) ==
    /\ n \in down /\ down' = down \ {n}
    /\ mem' = [mem EXCEPT ![n] = IF Valid(n, file[n]) THEN file[n] ELSE NoTable]
    /\ seen' = [seen EXCEPT ![n] = FALSE]
    /\ UNCHANGED <<file, writing, trust, key, apply, lost, stops, faults>>

-----------------------------------------------------------------------------
(* The operators.                                                           *)

\* Where operators that care apply: at Home, and once there is a new key, there.
Desk(h) == IF \E n \in Node : key[n] = New THEN key[h] = New ELSE h = Home

TakenUp(h) == mem[h] = file[h] /\ writing[h] = Idle

\* The command reads the file for its number and its preview, and then asks.
ApplyReads(h, g) ==
    /\ h \in Holders /\ apply[h] = NoApply /\ file[h].seq < MaxSeq
    /\ Waits => Desk(h) /\ TakenUp(h)
    /\ Resigns => key[h] = New \/ \A n \in Holders : key[n] = Old
    /\ apply' = [apply EXCEPT ![h] = [old |-> file[h], grants |-> g]]
    /\ UNCHANGED <<mem, file, seen, writing, trust, key, down, lost, stops, faults>>

Declined(h) ==
    /\ apply[h] # NoApply /\ apply' = [apply EXCEPT ![h] = NoApply]
    /\ UNCHANGED <<mem, file, seen, writing, trust, key, down, lost, stops, faults>>

\* Mutant: the table is written without its signature.
Unsigned(h) == [seq |-> apply[h].old.seq + 1, grants |-> apply[h].grants, ca |-> NoKey]

\* Mutant: the number stays.
SameNumber(h) == [seq |-> apply[h].old.seq, grants |-> apply[h].grants, ca |-> key[h]]

Signed(h) == [seq |-> apply[h].old.seq + 1, grants |-> apply[h].grants, ca |-> key[h]]

\* It signs and writes what it announced, over whatever the file is by now.
ApplyWrites(h) ==
    /\ apply[h] # NoApply
    /\ file' = [file EXCEPT ![h] = Signed(h)]
    /\ seen' = [seen EXCEPT ![h] = FALSE]
    /\ apply' = [apply EXCEPT ![h] = NoApply]
    /\ UNCHANGED <<mem, writing, trust, key, down, lost, stops, faults>>

\* `gw anchor-promote`, and the restart it asks for.
Promote(n) ==
    /\ n \in down \ Holders /\ \A h \in Holders : key[h] = Old
    /\ Waits => apply[Home] = NoApply /\ file[n] = file[Home]
    /\ key' = [key EXCEPT ![n] = New] /\ trust' = [trust EXCEPT ![n] = @ \cup {New}]
    /\ UNCHANGED <<mem, file, seen, writing, apply, down, lost, stops, faults>>

\* [ca] trusted_pubs is edited and the daemon restarted.
TrustNew(n) ==
    /\ n \in down /\ \E h \in Holders : key[h] = New
    /\ trust' = [trust EXCEPT ![n] = @ \cup {New}]
    /\ UNCHANGED <<mem, file, seen, writing, key, apply, down, lost, stops, faults>>

\* Once every node trusts the new key; its old holders are decommissioned.
DropOld(n) ==
    /\ n \in down /\ apply[n] = NoApply /\ \A m \in Node : New \in trust[m]
    /\ Resigns => file[n].ca = New
    /\ trust' = [trust EXCEPT ![n] = {New}]
    /\ key' = [key EXCEPT ![n] = IF @ = Old THEN NoKey ELSE @]
    /\ UNCHANGED <<mem, file, seen, writing, apply, down, lost, stops, faults>>

-----------------------------------------------------------------------------
Daemon(n) == \/ Refresh(n) \/ Start(n)
             \/ \E h \in Node : Pull(n, h)
             \/ \E t \in Threads : Persist(n, t)

Operator(n) == \/ \E g \in GrantSets : ApplyReads(n, g)
               \/ Declined(n) \/ ApplyWrites(n)
               \/ Promote(n) \/ TrustNew(n) \/ DropOld(n) \/ Stop(n)

Next == \E n \in Node : Daemon(n) \/ Operator(n)

Spec == Init /\ [][Next]_vars

\* Both loops run, and the service manager starts a stopped daemon again.
Fairness ==
    \A n \in Node :
        /\ WF_vars(Refresh(n)) /\ WF_vars(Start(n))
        /\ WF_vars(\E h \in Node : Pull(n, h))
        /\ \A t \in Threads : WF_vars(Persist(n, t))
        /\ WF_vars(Declined(n) \/ ApplyWrites(n))

FairSpec == Spec /\ Fairness

-----------------------------------------------------------------------------
(* Properties.                                                              *)

Tables == Table \cup {NoTable}

PolicyTypeOK ==
    /\ mem \in [Node -> Tables] /\ file \in [Node -> Tables]
    /\ seen \in [Node -> BOOLEAN] /\ writing \in [Node -> [Threads -> Tables]]
    /\ trust \in [Node -> SUBSET {Old, New}]
    /\ key \in [Node -> {Old, New, NoKey}]
    /\ apply \in [Node -> [old : Tables, grants : GrantSets \cup {Unset}]]
    /\ down \subseteq Node /\ lost \subseteq Node
    /\ stops \in 0..MaxStops /\ faults \in 0..MaxFaults

Live == {mem[n] : n \in Node} \cup {file[n] : n \in Node}

\* When operators wait for their own holder, a number names one table: no two nodes
\* hold different grants under the same number, which no later sync would mend,
\* however far the nodes lag, and across a promotion.
OneTablePerNumber == \A t, u \in Live : t.seq = u.seq => t = u

\* A member's file is never behind what it runs with, so a restart brings the
\* last table back; unless the thread that adopted it is still about to write,
\* or the write failed.
FileFollows ==
    \A n \in (Node \ Holders) \ (down \cup lost) :
        mem[n].seq > file[n].seq => \E t \in Threads : writing[n][t] = mem[n]

\* A node that has had a table never runs without one, which would open it to
\* every member: "a reboot doesn't regress to the flat mesh".
NeverFlat == \A n \in Node : mem[n] # NoTable

Newest(n) == \A m \in Node : file[m].ca \in trust[n] => file[m].seq <= mem[n].seq

\* In the end every node runs with the newest table there is, if operators apply
\* where the mesh pulls from; but for a node that failed to read or write its own
\* file: a member then lags alone, and a holder takes along the nodes it serves.
Converges ==
    <>[](lost \cap Holders = {} => \A n \in Node \ lost : Newest(n) /\ n \notin down)
=============================================================================
