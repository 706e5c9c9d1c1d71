---------------------------- MODULE PolicyProofs ----------------------------
(***************************************************************************)
(* Theorems about PolicyStore, for every set of nodes and grants, every    *)
(* choice of roots, and every number of tables, stops and faults.          *)
(***************************************************************************)
EXTENDS PolicyStore, TLAPS

Apply == [old : Tables, grants : GrantSets \cup {Unset}]

\* A command under way runs at a holder and has a number left to sign.
ApplyOK == \A h \in Node : apply[h] # NoApply =>
              key[h] # NoKey /\ apply[h].old.seq < MaxSeq /\ apply[h].grants \in GrantSets

\* All copies of a table that a node may still run with or write.
Copies == Live \cup {writing[n]["sync"] : n \in Node}
               \cup {writing[n]["reconcile"] : n \in Node}

Distinct == \A t, u \in Copies : t.seq = u.seq => t = u

\* What the daemon of d would take if it were offered.
Above(d, t) == Valid(d, t) /\ t.seq > mem[d].seq

\* Every copy was made from the file of the desk, whose daemon writes nothing
\* else to it, and can be offered nothing newer than its file.
DeskTop(d) == file[d] # NoTable /\ \A t \in Copies : t.seq <= file[d].seq

DeskDaemon(d) ==
    /\ \A t \in Threads : writing[d][t] \in {NoTable, file[d]}
    /\ d \notin down => \A t \in Copies : Above(d, t) => t = file[d]

\* A command that waits for its answer still has the number of the file.
DeskPending(d) ==
    apply[d] # NoApply =>
        /\ apply[d].old = file[d] /\ writing[d] = Idle
        /\ d \notin down => \A t \in Copies : ~Above(d, t)

DeskOK == \A d \in Node : Desk(d) => DeskTop(d) /\ DeskDaemon(d) /\ DeskPending(d)

AtDesk == \A h \in Node : apply[h] # NoApply => Desk(h)

\* The new key has one holder, and its tables come from there.
KeysOK ==
    /\ \A m, n \in Node : key[m] = New /\ key[n] = New => m = n
    /\ \A n \in Node : key[n] = New => New \in trust[n]
    /\ (\A n \in Node : key[n] # New) => key[Home] = Old /\ \A n \in Node : trust[n] = {Old}

NewTables == \A t \in Copies : t.ca = New => \E d \in Node : key[d] = New /\ file[d].ca = New

DeskInv == Distinct /\ KeysOK /\ NewTables /\ AtDesk /\ DeskOK

\* The file of a member is either no newer than what it runs with or useless to
\* it, and what its sync thread is about to write is what it runs with.
MemberOK(n) ==
    /\ Valid(n, file[n]) => file[n].seq <= mem[n].seq
    /\ writing[n]["reconcile"] = NoTable
    /\ writing[n]["sync"] # NoTable => writing[n]["sync"] = mem[n]
    /\ mem[n].seq > file[n].seq /\ n \notin lost => writing[n]["sync"] = mem[n]

MembersOK == \A n \in Node : key[n] = NoKey /\ n \notin down => MemberOK(n)

\* A stopped daemon writes nothing.
DownOK == \A n \in down : writing[n] = Idle

PolicyInv == PolicyTypeOK /\ ApplyOK /\ DownOK

USE PolicyAssumption

LEMMA NumbersAreNat == \A t \in Tables : t.seq \in Nat /\ (t.seq = 0 => t = NoTable)
BY DEF Tables, Table, NoTable

LEMMA InitType == Init => PolicyInv
<1> SUFFICES ASSUME Init PROVE PolicyInv
  OBVIOUS
<1>1. First \in Tables
  BY DEF First, Tables, Table
<1>2. Idle \in [Threads -> Tables] /\ NoApply \in Apply
  BY DEF Idle, Tables, NoApply, Apply
<1> QED
  BY <1>1, <1>2 DEF Init, PolicyInv, PolicyTypeOK, ApplyOK, DownOK, Apply

\* What an offer leaves behind.
LEMMA OfferKeeps ==
  ASSUME PolicyInv, NEW n \in Node, NEW thread \in Threads, NEW t \in Tables,
         Offer(n, thread, t)
  PROVE  /\ mem' \in [Node -> Tables] /\ writing' \in [Node -> [Threads -> Tables]]
         /\ \A m \in Node \ {n} : mem'[m] = mem[m] /\ writing'[m] = writing[m]
         /\ \A u \in Threads \ {thread} : writing'[n][u] = writing[n][u]
         /\ \/ mem'[n] = mem[n] /\ writing'[n][thread] = writing[n][thread]
               /\ ~(Valid(n, t) /\ t.seq > mem[n].seq)
            \/ /\ mem'[n] = t /\ writing'[n][thread] = t
               /\ Valid(n, t) /\ t.seq > mem[n].seq
<1>1. writing[n] \in [Threads -> Tables]
  BY DEF PolicyInv, PolicyTypeOK
<1>2. CASE Valid(n, t) /\ t.seq > mem[n].seq
  <2>1. /\ mem' = [mem EXCEPT ![n] = t]
        /\ writing' = [writing EXCEPT ![n] = [writing[n] EXCEPT ![thread] = t]]
    BY <1>2 DEF Offer
  <2>2. [writing[n] EXCEPT ![thread] = t] \in [Threads -> Tables]
    BY <1>1
  <2> QED
    BY <1>1, <1>2, <2>1, <2>2 DEF PolicyInv, PolicyTypeOK
<1>3. CASE ~(Valid(n, t) /\ t.seq > mem[n].seq)
  BY <1>3 DEF Offer, PolicyInv, PolicyTypeOK
<1> QED
  BY <1>2, <1>3

-----------------------------------------------------------------------------
(* The types.                                                               *)

LEMMA DaemonType ==
  ASSUME PolicyInv, NEW n \in Node, Daemon(n)
  PROVE  PolicyInv'
<1>1. UNCHANGED <<trust, key, apply, stops>>
  BY DEF Daemon, Refresh, Start, Pull, Persist
<1>2. ApplyOK'
  BY <1>1 DEF PolicyInv, ApplyOK
<1>3. CASE Refresh(n)
  <2>1. CASE Offer(n, "reconcile", file[n]) /\ UNCHANGED <<lost, faults>>
    <3>1. file[n] \in Tables /\ n \notin down
      BY <1>3 DEF PolicyInv, PolicyTypeOK, Refresh, Free
    <3>2. /\ mem' \in [Node -> Tables] /\ writing' \in [Node -> [Threads -> Tables]]
          /\ \A m \in Node \ {n} : writing'[m] = writing[m]
      BY <2>1, <3>1, OfferKeeps DEF Threads
    <3> QED
      BY <1>1, <1>2, <1>3, <2>1, <3>1, <3>2 DEF Refresh, PolicyInv, PolicyTypeOK, DownOK
  <2>2. CASE Fault(n) /\ UNCHANGED <<mem, writing>>
    BY <1>1, <1>2, <1>3, <2>2 DEF Refresh, Fault, PolicyInv, PolicyTypeOK, DownOK
  <2> QED
    BY <1>3, <2>1, <2>2 DEF Refresh
<1>4. CASE Start(n)
  BY <1>1, <1>2, <1>4 DEF Start, PolicyInv, PolicyTypeOK, DownOK, Tables
<1>5. ASSUME NEW h \in Node, Pull(n, h) PROVE PolicyInv'
  <2>1. file[h] \in Tables /\ n \notin down
    BY <1>5 DEF PolicyInv, PolicyTypeOK, Pull, Free
  <2> QED
    BY <1>1, <1>2, <1>5, <2>1, OfferKeeps
       DEF Pull, PolicyInv, PolicyTypeOK, DownOK, Threads
<1>6. ASSUME NEW t \in Threads, Persist(n, t) PROVE PolicyInv'
  <2>1. writing[n][t] \in Tables /\ NoTable \in Tables
    BY DEF PolicyInv, PolicyTypeOK, Tables
  <2>2. writing' \in [Node -> [Threads -> Tables]]
    BY <1>6, <2>1 DEF Persist, PolicyInv, PolicyTypeOK
  <2>3. DownOK'
    BY <1>6 DEF Persist, PolicyInv, PolicyTypeOK, DownOK
  <2>4. PolicyTypeOK'
    <3>1. file' \in [Node -> Tables] /\ seen' \in [Node -> BOOLEAN]
      BY <1>6, <2>1 DEF Persist, PolicyInv, PolicyTypeOK
    <3>2. lost' \subseteq Node /\ faults' \in 0..MaxFaults
      BY <1>6 DEF Persist, Fault, PolicyInv, PolicyTypeOK
    <3> QED
      BY <1>6, <2>2, <3>1, <3>2 DEF Persist, PolicyInv, PolicyTypeOK
  <2> QED
    BY <1>2, <2>3, <2>4 DEF PolicyInv
<1> QED
  BY <1>3, <1>4, <1>5, <1>6 DEF Daemon

LEMMA OperatorType ==
  ASSUME PolicyInv, NEW n \in Node, Operator(n)
  PROVE  PolicyInv'
<1>0. /\ NoTable \in Tables /\ Idle \in [Threads -> Tables]
      /\ NoApply \in [old : Tables, grants : GrantSets \cup {Unset}]
  BY DEF Tables, Idle, NoApply
<1>1. ASSUME NEW g \in GrantSets, ApplyReads(n, g) PROVE PolicyInv'
  <2>1. file[n] \in Tables /\ key[n] # NoKey /\ file[n].seq < MaxSeq
    BY <1>1 DEF ApplyReads, Holders, PolicyInv, PolicyTypeOK
  <2> DEFINE a == [old |-> file[n], grants |-> g]
  <2>2. a \in Apply /\ a.old = file[n] /\ a.grants = g /\ apply' = [apply EXCEPT ![n] = a]
    BY <1>1, <2>1 DEF ApplyReads, Apply
  <2> HIDE DEF a
  <2> QED
    BY <1>1, <2>1, <2>2 DEF ApplyReads, PolicyInv, PolicyTypeOK, ApplyOK, DownOK, Apply
<1>2. CASE Declined(n)
  BY <1>0, <1>2 DEF Declined, PolicyInv, PolicyTypeOK, ApplyOK, DownOK
<1>3. CASE ApplyWrites(n)
  <2>1. Signed(n) \in Tables
    <3>1. apply[n] \in Apply /\ apply[n].old.seq \in Nat /\ apply[n].old.seq < MaxSeq
          /\ key[n] \in {Old, New}
      BY <1>3, NumbersAreNat DEF ApplyWrites, PolicyInv, PolicyTypeOK, ApplyOK, Apply
    <3>2. apply[n].old.seq + 1 \in 1..MaxSeq
      BY <3>1
    <3>3. apply[n].grants \in GrantSets
      BY <1>3 DEF ApplyWrites, PolicyInv, ApplyOK
    <3> QED
      BY <3>1, <3>2, <3>3 DEF Signed, Tables, Table
  <2> QED
    BY <1>0, <1>3, <2>1 DEF ApplyWrites, PolicyInv, PolicyTypeOK, ApplyOK, DownOK
<1>4. CASE Promote(n)
  BY <1>4 DEF Promote, PolicyInv, PolicyTypeOK, ApplyOK, DownOK
<1>5. CASE TrustNew(n)
  BY <1>5 DEF TrustNew, PolicyInv, PolicyTypeOK, ApplyOK, DownOK
<1>6. CASE DropOld(n)
  BY <1>6 DEF DropOld, PolicyInv, PolicyTypeOK, ApplyOK, DownOK
<1>7. CASE Stop(n)
  BY <1>0, <1>7 DEF Stop, PolicyInv, PolicyTypeOK, ApplyOK, DownOK
<1> QED
  BY <1>1, <1>2, <1>3, <1>4, <1>5, <1>6, <1>7 DEF Operator

LEMMA TypeHolds == Spec => []PolicyInv
<1>1. PolicyInv /\ [Next]_vars => PolicyInv'
  <2> SUFFICES ASSUME PolicyInv, [Next]_vars PROVE PolicyInv'
    OBVIOUS
  <2>1. CASE UNCHANGED vars
    BY <2>1 DEF vars, PolicyInv, PolicyTypeOK, ApplyOK, DownOK
  <2> QED
    BY <2>1, DaemonType, OperatorType DEF Next
<1> QED
  BY InitType, <1>1, PTL DEF Spec

\* Every variable keeps its type: in particular a table is never without a
\* signature, and the number of a table stays within the bound.
THEOREM PolicyTypeCorrect == Spec => []PolicyTypeOK
<1>1. PolicyInv => PolicyTypeOK
  BY DEF PolicyInv
<1> QED
  BY <1>1, TypeHolds, PTL

-----------------------------------------------------------------------------
(* One table per number.                                                    *)

LEMMA AllCopies ==
  \A m \in Node : /\ mem[m] \in Copies /\ file[m] \in Copies
                  /\ \A t \in Threads : writing[m][t] \in Copies
<1> SUFFICES ASSUME NEW m \in Node
             PROVE  /\ mem[m] \in Copies /\ file[m] \in Copies
                    /\ \A t \in Threads : writing[m][t] \in Copies
  OBVIOUS
<1>1. mem[m] \in Live
  BY Zenon DEF Live
<1>2. file[m] \in Live
  BY Zenon DEF Live
<1>3. writing[m]["sync"] \in Copies /\ writing[m]["reconcile"] \in Copies
  BY Zenon DEF Copies
<1> QED
  BY <1>1, <1>2, <1>3 DEF Copies, Threads

LEMMA CopiesWithin ==
  ASSUME NEW S, \A m \in Node : /\ mem[m] \in S /\ file[m] \in S
                               /\ \A t \in Threads : writing[m][t] \in S
  PROVE  Copies \subseteq S
<1>1. \A m \in Node : writing[m]["sync"] \in S /\ writing[m]["reconcile"] \in S
  BY DEF Threads
<1>2. Live \subseteq S
  BY Zenon DEF Live
<1>3. /\ {writing[n]["sync"] : n \in Node} \subseteq S
      /\ {writing[n]["reconcile"] : n \in Node} \subseteq S
  BY <1>1, Zenon
<1> QED
  BY <1>2, <1>3 DEF Copies

LEMMA NextCopiesWithin ==
  ASSUME NEW S, \A m \in Node : /\ mem'[m] \in S /\ file'[m] \in S
                               /\ \A t \in Threads : writing'[m][t] \in S
  PROVE  Copies' \subseteq S
<1>1. \A m \in Node : writing'[m]["sync"] \in S /\ writing'[m]["reconcile"] \in S
  BY DEF Threads
<1>2. Live' \subseteq S
  BY Zenon DEF Live
<1>3. /\ {writing'[n]["sync"] : n \in Node} \subseteq S
      /\ {writing'[n]["reconcile"] : n \in Node} \subseteq S
  BY <1>1, Zenon
<1> QED
  BY <1>2, <1>3 DEF Copies

LEMMA CopiesAreTables == PolicyInv => Copies \subseteq Tables
<1> SUFFICES ASSUME PolicyInv PROVE Copies \subseteq Tables
  OBVIOUS
<1> QED
  BY CopiesWithin DEF PolicyInv, PolicyTypeOK

LEMMA OneDesk ==
  ASSUME KeysOK, NEW d \in Node, NEW e \in Node, Desk(d), Desk(e)
  PROVE  d = e
BY DEF KeysOK, Desk

\* If the desk can verify a table at all, it can verify its own.
LEMMA DeskVerifies ==
  ASSUME PolicyInv, DeskInv, NEW d \in Node, Desk(d), NEW t \in Copies, Valid(d, t)
  PROVE  Valid(d, file[d])
<1>1. t \in Table /\ file[d] \in Table
  BY CopiesAreTables DEF PolicyInv, PolicyTypeOK, Tables, DeskInv, DeskOK, DeskTop, Valid, NoTable
<1>2. file[d].seq > 0 /\ t.ca \in {Old, New} /\ file[d].ca \in {Old, New}
  BY <1>1 DEF Table
<1>3. file[d] \in Copies
  BY AllCopies
<1>4. CASE \E n \in Node : key[n] = New
  <2>1. key[d] = New /\ New \in trust[d]
    BY <1>4 DEF Desk, DeskInv, KeysOK
  <2>2. file[d].ca = Old => t.ca = Old
    BY <1>2, <2>1 DEF DeskInv, NewTables, KeysOK
  <2> QED
    BY <1>2, <2>1, <2>2 DEF Valid
<1>5. CASE \A n \in Node : key[n] # New
  BY <1>2, <1>3, <1>5 DEF Valid, DeskInv, NewTables, KeysOK
<1> QED
  BY <1>4, <1>5

\* What a step has to leave alone, if it makes no new table.
LEMMA NothingNew ==
  ASSUME PolicyInv, DeskInv, UNCHANGED <<key, trust>>,
         \A m \in Node : /\ mem'[m] \in Copies \cup {NoTable}
                        /\ file'[m] \in Copies \cup {NoTable}
                        /\ \A t \in Threads : writing'[m][t] \in Copies \cup {NoTable},
         \A h \in Node : apply'[h] \in {apply[h], NoApply},
         \A d \in Node : Desk(d) =>
            /\ file'[d] = file[d]
            /\ \A t \in Threads : writing'[d][t] \in {NoTable, file[d]}
            /\ d \notin down' =>
                  \A t \in Copies : Valid(d, t) /\ t.seq > mem'[d].seq => t = file[d]
            /\ apply'[d] # NoApply =>
                  /\ writing'[d] = Idle
                  /\ d \notin down' =>
                        \A t \in Copies : ~(Valid(d, t) /\ t.seq > mem'[d].seq)
  PROVE  DeskInv'
<1>1. Copies \subseteq Tables
  BY CopiesAreTables
<1>2. Copies' \subseteq Copies \cup {NoTable}
  BY NextCopiesWithin
<1>3. Distinct'
  BY <1>1, <1>2, NumbersAreNat DEF DeskInv, Distinct, NoTable
<1>4. KeysOK' /\ AtDesk' /\ \A d \in Node : Desk(d)' <=> Desk(d)
  BY DEF DeskInv, KeysOK, AtDesk, Desk
<1>5. NewTables'
  <2> SUFFICES ASSUME NEW t \in Copies', t.ca = New
               PROVE  \E d \in Node : key[d] = New /\ file'[d].ca = New
    BY DEF NewTables
  <2>1. t \in Copies
    BY <1>2 DEF NoTable
  <2>2. PICK d \in Node : key[d] = New /\ file[d].ca = New
    BY <2>1 DEF DeskInv, NewTables
  <2> QED
    BY <2>2 DEF Desk
<1>6. ASSUME NEW d \in Node, Desk(d)
      PROVE  DeskTop(d)' /\ DeskDaemon(d)' /\ DeskPending(d)'
  <2>1. DeskTop(d) /\ DeskPending(d) /\ file'[d] = file[d]
    BY <1>6 DEF DeskInv, DeskOK
  <2>2. file[d].seq \in Nat
    BY NumbersAreNat DEF PolicyInv, PolicyTypeOK
  <2>3. DeskTop(d)'
    BY <1>2, <2>1, <2>2 DEF DeskTop, NoTable
  <2>4. \A t \in Copies' : Valid(d, t) => t \in Copies
    BY <1>2 DEF Valid, NoTable
  <2>5. DeskDaemon(d)'
    BY <1>6, <2>1, <2>4 DEF DeskDaemon, Above, Valid
  <2>6. DeskPending(d)'
    BY <1>6, <2>1, <2>4 DEF DeskPending, Above, Valid
  <2> QED
    BY <2>3, <2>5, <2>6
<1> QED
  BY <1>3, <1>4, <1>5, <1>6 DEF DeskInv, DeskOK

\* A step of one daemon, seen from the desk.
LEMMA DaemonDesk ==
  ASSUME PolicyInv, DeskInv, NEW n \in Node, Daemon(n)
  PROVE  DeskInv'
<1>1. UNCHANGED <<apply, key, trust>>
  BY DEF Daemon, Refresh, Start, Pull, Persist
<1>2. \A m \in Node : /\ mem[m] \in Copies /\ file[m] \in Copies
                      /\ \A t \in Threads : writing[m][t] \in Copies
  BY AllCopies
<1>3. \A d \in Node : Desk(d) => DeskTop(d) /\ DeskDaemon(d) /\ DeskPending(d)
  BY DEF DeskInv, DeskOK
<1>4. \A m \in Node : mem[m].seq \in Nat /\ file[m].seq \in Nat
  BY NumbersAreNat DEF PolicyInv, PolicyTypeOK
<1>5. ASSUME NEW t \in Threads, NEW h \in Node, Offer(n, t, file[h]), n \notin down,
             UNCHANGED <<file, down>>
      PROVE  DeskInv'
  <2>1. file[h] \in Tables
    BY DEF PolicyInv, PolicyTypeOK
  <2>2. /\ \A m \in Node \ {n} : mem'[m] = mem[m] /\ writing'[m] = writing[m]
        /\ \A u \in Threads \ {t} : writing'[n][u] = writing[n][u]
        /\ \/ mem'[n] = mem[n] /\ writing'[n][t] = writing[n][t]
           \/ mem'[n] = file[h] /\ writing'[n][t] = file[h] /\ Above(n, file[h])
    BY <1>5, <2>1, OfferKeeps DEF Above
  <2>3. writing[n] \in [Threads -> Tables] /\ writing'[n] \in [Threads -> Tables]
    BY <1>5, <2>1, OfferKeeps DEF PolicyInv, PolicyTypeOK
  <2>4. \A m \in Node : /\ mem'[m] \in Copies \cup {NoTable}
                        /\ file'[m] \in Copies \cup {NoTable}
                        /\ \A u \in Threads : writing'[m][u] \in Copies \cup {NoTable}
    BY <1>2, <1>5, <2>2
  <2>5. CASE mem'[n] = mem[n] /\ writing'[n][t] = writing[n][t]
    <3>1. \A m \in Node : mem'[m] = mem[m] /\ writing'[m] = writing[m]
      BY <2>2, <2>3, <2>5
    <3> QED
      BY <1>1, <1>3, <1>5, <2>4, <3>1, NothingNew DEF DeskDaemon, DeskPending, Above
  <2>6. CASE mem'[n] = file[h] /\ writing'[n][t] = file[h] /\ Above(n, file[h])
    <3>1. Desk(n) => file[h] = file[n] /\ apply[n] = NoApply
      BY <1>2, <1>3, <1>5, <2>6 DEF DeskDaemon, DeskPending
    <3>2. Desk(n) => \A u \in Copies : ~(u.seq > mem'[n].seq)
      BY <1>3, <1>4, <2>6, <3>1, CopiesAreTables, NumbersAreNat DEF DeskTop
    <3>3. Desk(n) => \A u \in Threads : writing'[n][u] \in {NoTable, file[n]}
      BY <1>3, <2>2, <2>6, <3>1 DEF DeskDaemon
    <3> QED
      BY <1>1, <1>3, <1>5, <2>2, <2>4, <3>1, <3>2, <3>3, NothingNew
         DEF DeskDaemon, DeskPending, Above
  <2> QED
    BY <2>2, <2>5, <2>6
<1>6. CASE Refresh(n)
  <2>1. CASE UNCHANGED <<mem, writing>>
    BY <1>1, <1>2, <1>3, <1>6, <2>1, NothingNew
       DEF Refresh, DeskDaemon, DeskPending, Above
  <2> QED
    BY <1>5, <1>6, <2>1 DEF Refresh, Threads, Free
<1>7. CASE Start(n)
  <2>1. /\ UNCHANGED <<file, writing>> /\ down' = down \ {n}
        /\ \A m \in Node \ {n} : mem'[m] = mem[m]
        /\ mem'[n] = IF Valid(n, file[n]) THEN file[n] ELSE NoTable
        /\ writing[n] = Idle
    BY <1>7 DEF Start, PolicyInv, PolicyTypeOK, DownOK
  <2>2. Desk(n) => \A t \in Copies : ~(Valid(n, t) /\ t.seq > mem'[n].seq)
    BY <1>3, <1>4, <2>1, DeskVerifies, CopiesAreTables, NumbersAreNat DEF DeskTop
  <2> QED
    BY <1>1, <1>2, <1>3, <2>1, <2>2, NothingNew DEF DeskDaemon, DeskPending, Above
<1>8. ASSUME NEW h \in Node, Pull(n, h) PROVE DeskInv'
  BY <1>5, <1>8 DEF Pull, Threads, Free
<1>9. ASSUME NEW t \in Threads, Persist(n, t) PROVE DeskInv'
  <2>1. /\ UNCHANGED <<mem, down>> /\ writing[n][t] # NoTable
        /\ \A m \in Node \ {n} : file'[m] = file[m] /\ writing'[m] = writing[m]
        /\ \A u \in Threads : writing'[n][u] \in {writing[n][u], NoTable}
        /\ file'[n] \in {file[n], writing[n][t]}
    BY <1>9 DEF Persist, Free, PolicyInv, PolicyTypeOK
  <2>2. Desk(n) => file'[n] = file[n] /\ apply[n] = NoApply
    BY <1>3, <2>1 DEF DeskDaemon, DeskPending, Idle
  <2>3. \A m \in Node : /\ mem'[m] \in Copies \cup {NoTable}
                        /\ file'[m] \in Copies \cup {NoTable}
                        /\ \A u \in Threads : writing'[m][u] \in Copies \cup {NoTable}
    BY <1>2, <2>1
  <2> QED
    BY <1>1, <1>3, <2>1, <2>2, <2>3, NothingNew DEF DeskDaemon, DeskPending, Above
<1> QED
  BY <1>6, <1>7, <1>8, <1>9 DEF Daemon

LEMMA ApplyReadsDesk ==
  ASSUME Waits, PolicyInv, DeskInv, NEW n \in Node, NEW g \in GrantSets, ApplyReads(n, g)
  PROVE  DeskInv'
<1>1. Desk(n) /\ TakenUp(n) /\ UNCHANGED <<mem, file, writing, trust, key, down>>
  BY DEF ApplyReads
<1>2. /\ apply'[n].old = file[n]
      /\ \A h \in Node \ {n} : apply'[h] = apply[h]
  BY DEF ApplyReads, PolicyInv, PolicyTypeOK
<1>3. Copies' = Copies
  BY <1>1 DEF Copies, Live
<1>4. Distinct' /\ KeysOK' /\ NewTables' /\ \A d \in Node : Desk(d)' <=> Desk(d)
  BY <1>1, <1>3 DEF DeskInv, Distinct, KeysOK, NewTables, Desk
<1>5. AtDesk'
  BY <1>1, <1>2, <1>4 DEF DeskInv, AtDesk
<1>6. ASSUME NEW d \in Node, Desk(d) PROVE DeskTop(d)' /\ DeskDaemon(d)' /\ DeskPending(d)'
  <2>1. d = n /\ DeskTop(d) /\ DeskDaemon(d)
    BY <1>1, <1>6, OneDesk DEF DeskInv, DeskOK
  <2>2. DeskTop(d)'
    BY <1>1, <1>3, <2>1 DEF DeskTop
  <2>3. DeskDaemon(d)'
    BY <1>1, <1>3, <2>1 DEF DeskDaemon, Above, Valid
  <2>4. \A t \in Copies : ~(t.seq > mem[d].seq)
    <3>1. mem[d] = file[d] /\ mem[d].seq \in Nat
      BY <1>1, <2>1, NumbersAreNat DEF TakenUp, PolicyInv, PolicyTypeOK
    <3> QED
      BY <2>1, <3>1, CopiesAreTables, NumbersAreNat DEF DeskTop
  <2>5. DeskPending(d)'
    BY <1>1, <1>2, <1>3, <2>1, <2>4 DEF DeskPending, Above, Valid, TakenUp
  <2> QED
    BY <2>2, <2>3, <2>5
<1> QED
  BY <1>4, <1>5, <1>6 DEF DeskInv, DeskOK

LEMMA ApplyWritesDesk ==
  ASSUME PolicyInv, DeskInv, NEW n \in Node, ApplyWrites(n)
  PROVE  DeskInv'
<1> DEFINE new == Signed(n)
<1>1. /\ UNCHANGED <<mem, writing, trust, key, down>>
      /\ file'[n] = new /\ \A m \in Node \ {n} : file'[m] = file[m]
      /\ apply'[n] = NoApply /\ \A h \in Node \ {n} : apply'[h] = apply[h]
  BY DEF ApplyWrites, PolicyInv, PolicyTypeOK
<1>2. Desk(n) /\ DeskTop(n) /\ DeskDaemon(n) /\ DeskPending(n) /\ apply[n] # NoApply
  BY DEF ApplyWrites, DeskInv, AtDesk, DeskOK
<1>3. /\ file[n].seq \in Nat /\ new.seq = file[n].seq + 1 /\ new.ca = key[n]
      /\ new \in [seq : Nat, grants : GrantSets \cup {Unset}, ca : {Old, New, NoKey}]
  <2>1. apply[n].old = file[n] /\ file[n].seq \in Nat
    BY <1>2, NumbersAreNat DEF DeskPending, PolicyInv, PolicyTypeOK
  <2>2. apply[n].grants \in GrantSets \cup {Unset} /\ key[n] \in {Old, New, NoKey}
    BY DEF PolicyInv, PolicyTypeOK
  <2> QED
    BY <2>1, <2>2 DEF Signed
<1> HIDE DEF new
<1>4. Copies' \subseteq Copies \cup {new}
  <2> DEFINE S == Copies \cup {new}
  <2>1. \A m \in Node : /\ mem'[m] \in S /\ file'[m] \in S
                        /\ \A t \in Threads : writing'[m][t] \in S
    BY <1>1, AllCopies
  <2> HIDE DEF S
  <2>2. Copies' \subseteq S
    BY <2>1, NextCopiesWithin
  <2> QED
    BY <2>2 DEF S
<1>5. \A t \in Copies : t.seq \in Nat /\ t.seq <= file[n].seq
  BY <1>2, NumbersAreNat, CopiesAreTables DEF DeskTop
<1>6. Distinct'
  BY <1>3, <1>4, <1>5 DEF DeskInv, Distinct
<1>7. KeysOK' /\ \A d \in Node : Desk(d)' <=> Desk(d)
  BY <1>1 DEF DeskInv, KeysOK, Desk
<1>8. AtDesk'
  BY <1>1, <1>7 DEF DeskInv, AtDesk
<1>9. NewTables'
  <2> SUFFICES ASSUME NEW t \in Copies', t.ca = New
               PROVE  \E d \in Node : key[d] = New /\ file'[d].ca = New
    BY <1>1 DEF NewTables
  <2>1. CASE t = new
    BY <1>1, <1>3, <2>1
  <2>2. CASE t \in Copies
    <3>1. PICK d \in Node : key[d] = New /\ file[d].ca = New
      BY <2>2 DEF DeskInv, NewTables
    <3>2. d = n
      BY <1>2, <3>1, OneDesk DEF Desk, DeskInv
    <3> QED
      BY <1>1, <1>3, <3>1, <3>2
  <2> QED
    BY <1>4, <2>1, <2>2
<1>10. ASSUME NEW d \in Node, Desk(d)
       PROVE  DeskTop(d)' /\ DeskDaemon(d)' /\ DeskPending(d)'
  <2>1. d = n
    BY <1>2, <1>10, OneDesk DEF DeskInv
  <2>2. DeskTop(d)'
    BY <1>1, <1>3, <1>4, <1>5, <2>1 DEF DeskTop, NoTable
  <2>3. writing[n] = Idle /\ (n \notin down => \A t \in Copies : ~Above(n, t))
    BY <1>2 DEF DeskPending
  <2>4. DeskDaemon(d)'
    <3>1. \A t \in Threads : writing'[n][t] = NoTable
      BY <1>1, <2>3 DEF Idle
    <3>2. n \notin down => \A t \in Copies' : Valid(n, t) /\ t.seq > mem[n].seq => t = new
      BY <1>4, <2>3 DEF Above
    <3> QED
      BY <1>1, <2>1, <3>1, <3>2 DEF DeskDaemon, Above, Valid
  <2>5. DeskPending(d)'
    BY <1>1, <2>1 DEF DeskPending
  <2> QED
    BY <2>2, <2>4, <2>5
<1> QED
  BY <1>6, <1>7, <1>8, <1>9, <1>10 DEF DeskInv, DeskOK

LEMMA PromoteDesk ==
  ASSUME Waits, PolicyInv, DeskInv, NEW n \in Node, Promote(n)
  PROVE  DeskInv'
<1>1. /\ UNCHANGED <<mem, file, writing, apply, down>> /\ n \in down
      /\ key[n] = NoKey /\ apply[Home] = NoApply /\ file[n] = file[Home]
      /\ \A h \in Node : key[h] # New
  BY DEF Promote, Holders
<1>2. /\ key'[n] = New /\ \A m \in Node \ {n} : key'[m] = key[m]
      /\ New \in trust'[n] /\ \A m \in Node \ {n} : trust'[m] = trust[m]
  BY DEF Promote, PolicyInv, PolicyTypeOK
<1>3. Copies' = Copies
  BY <1>1 DEF Copies, Live
<1>4. Desk(Home) /\ Home \in Node /\ \A h \in Node : Desk(h) => h = Home
  BY <1>1 DEF Desk
<1>5. \A h \in Node : apply[h] = NoApply
  BY <1>1, <1>4 DEF DeskInv, AtDesk
<1>6. Distinct' /\ AtDesk'
  BY <1>1, <1>3, <1>5 DEF DeskInv, Distinct, AtDesk
<1>7. KeysOK'
  BY <1>1, <1>2 DEF KeysOK
<1>8. NewTables'
  BY <1>1, <1>3 DEF DeskInv, NewTables
<1>9. ASSUME NEW d \in Node, Desk(d)' PROVE DeskTop(d)' /\ DeskDaemon(d)' /\ DeskPending(d)'
  <2>1. d = n
    BY <1>1, <1>2, <1>9 DEF Desk
  <2>2. DeskTop(d)'
    BY <1>1, <1>3, <1>4, <2>1 DEF DeskInv, DeskOK, DeskTop
  <2>3. writing[n] = Idle
    BY <1>1 DEF PolicyInv, DownOK
  <2>4. DeskDaemon(d)' /\ DeskPending(d)'
    BY <1>1, <1>5, <2>1, <2>3 DEF DeskDaemon, DeskPending, Idle
  <2> QED
    BY <2>2, <2>4
<1> QED
  BY <1>6, <1>7, <1>8, <1>9 DEF DeskInv, DeskOK

\* The keys that a stopped node trusts, or the key it gives up.
LEMMA TrustDesk ==
  ASSUME PolicyInv, DeskInv, NEW n \in Node, TrustNew(n) \/ DropOld(n)
  PROVE  DeskInv'
<1>1. UNCHANGED <<mem, file, writing, apply, down>> /\ n \in down
  BY DEF TrustNew, DropOld
<1>2. PICK h \in Node : key[h] = New
  <2>1. CASE TrustNew(n)
    BY <2>1 DEF TrustNew, Holders
  <2>2. CASE DropOld(n)
    <3>1. \A m \in Node : New \in trust[m]
      BY <2>2 DEF DropOld
    <3> QED
      BY <3>1 DEF DeskInv, KeysOK
  <2> QED
    BY <2>1, <2>2
<1>3. /\ \A m \in Node : key'[m] = New <=> key[m] = New
      /\ \A m \in Node \ {n} : trust'[m] = trust[m]
      /\ New \in trust'[n] \/ trust'[n] = trust[n]
  BY DEF TrustNew, DropOld, PolicyInv, PolicyTypeOK
<1>4. Copies' = Copies
  BY <1>1 DEF Copies, Live
<1>5. \A d \in Node : Desk(d)' <=> Desk(d)
  BY <1>2, <1>3 DEF Desk
<1>6. Distinct' /\ AtDesk' /\ NewTables'
  BY <1>1, <1>3, <1>4, <1>5 DEF DeskInv, Distinct, AtDesk, NewTables
<1>7. KeysOK'
  BY <1>2, <1>3 DEF DeskInv, KeysOK
<1>8. ASSUME NEW d \in Node, Desk(d) PROVE DeskTop(d)' /\ DeskDaemon(d)' /\ DeskPending(d)'
  <2>1. DeskTop(d) /\ DeskDaemon(d) /\ DeskPending(d)
    BY <1>8 DEF DeskInv, DeskOK
  <2>2. DeskTop(d)'
    BY <1>1, <1>4, <2>1 DEF DeskTop
  <2>3. d \notin down => \A t : Above(d, t)' <=> Above(d, t)
    BY <1>1, <1>3 DEF Above, Valid
  <2>4. DeskDaemon(d)'
    BY <1>1, <1>4, <2>1, <2>3 DEF DeskDaemon
  <2>5. DeskPending(d)'
    BY <1>1, <1>4, <2>1, <2>3 DEF DeskPending
  <2> QED
    BY <2>2, <2>4, <2>5
<1> QED
  BY <1>5, <1>6, <1>7, <1>8 DEF DeskInv, DeskOK

LEMMA OperatorDesk ==
  ASSUME Waits, PolicyInv, DeskInv, NEW n \in Node, Operator(n)
  PROVE  DeskInv'
<1>1. \A m \in Node : /\ mem[m] \in Copies /\ file[m] \in Copies
                      /\ \A t \in Threads : writing[m][t] \in Copies
  BY AllCopies
<1>2. \A d \in Node : Desk(d) => DeskTop(d) /\ DeskDaemon(d) /\ DeskPending(d)
  BY DEF DeskInv, DeskOK
<1>3. CASE Declined(n)
  <2>1. \A h \in Node : apply'[h] \in {apply[h], NoApply}
    BY <1>3 DEF Declined, PolicyInv, PolicyTypeOK
  <2> QED
    BY <1>1, <1>2, <1>3, <2>1, NothingNew DEF Declined, DeskDaemon, DeskPending, Above
<1>4. CASE Stop(n)
  <2>1. /\ UNCHANGED <<mem, file, apply, key, trust>> /\ down' = down \cup {n}
        /\ writing'[n] = Idle /\ \A m \in Node \ {n} : writing'[m] = writing[m]
    BY <1>4 DEF Stop, PolicyInv, PolicyTypeOK
  <2>2. \A t \in Threads : writing'[n][t] = NoTable
    BY <2>1 DEF Idle
  <2> QED
    BY <1>1, <1>2, <2>1, <2>2, NothingNew DEF DeskDaemon, DeskPending, Above
<1> QED
  BY <1>3, <1>4, ApplyReadsDesk, ApplyWritesDesk, PromoteDesk, TrustDesk DEF Operator

\* While operators keep to one holder, and move on with it, no number is given to
\* two tables, whichever daemon crashes, misses a pull or fails to write, and
\* across a move to a new CA key (`gw policy apply`, GrantPolicy.offer).  That they
\* do is the premise Waits, which nothing in the code enforces.
THEOREM NumbersNameTables == Spec => [](Waits => OneTablePerNumber)
<1> DEFINE I == Waits => DeskInv
<1>1. Init => I
  <2> SUFFICES ASSUME Init PROVE DeskInv
    OBVIOUS
  <2>1. \A m \in Node : /\ mem[m] = First /\ file[m] = First
                        /\ \A t \in Threads : writing[m][t] = NoTable
    BY DEF Init, Idle
  <2>2. Copies \subseteq {First, NoTable}
    <3> DEFINE S == {First, NoTable}
    <3>1. \A m \in Node : /\ mem[m] \in S /\ file[m] \in S
                          /\ \A t \in Threads : writing[m][t] \in S
      BY <2>1
    <3> HIDE DEF S
    <3>2. Copies \subseteq S
      BY <3>1, CopiesWithin
    <3> QED
      BY <3>2 DEF S
  <2>3. First.seq = 1 /\ NoTable.seq = 0 /\ First.ca = Old /\ NoTable.ca = NoKey
    BY DEF First, NoTable
  <2>4. Distinct /\ NewTables
    BY <2>2, <2>3 DEF Distinct, NewTables
  <2>5. KeysOK /\ AtDesk
    BY DEF Init, KeysOK, AtDesk
  <2>6. \A d \in Node : DeskTop(d) /\ DeskDaemon(d) /\ DeskPending(d)
    BY <2>1, <2>2, <2>3 DEF Init, DeskTop, DeskDaemon, DeskPending, Above
  <2> QED
    BY <2>4, <2>5, <2>6 DEF DeskInv, DeskOK
<1>2. PolicyInv /\ I /\ [Next]_vars => I'
  <2> SUFFICES ASSUME PolicyInv, Waits, DeskInv, [Next]_vars PROVE DeskInv'
    OBVIOUS
  <2>1. CASE UNCHANGED vars
    <3>1. Copies' = Copies
      BY <2>1 DEF vars, Copies, Live
    <3>2. Distinct' /\ KeysOK' /\ NewTables' /\ AtDesk'
      BY <2>1, <3>1 DEF vars, DeskInv, Distinct, KeysOK, NewTables, AtDesk, Desk
    <3>3. DeskOK'
      BY <2>1, <3>1 DEF vars, DeskInv, DeskOK, Desk, DeskTop, DeskDaemon, DeskPending,
                        Above, Valid
    <3> QED
      BY <3>2, <3>3 DEF DeskInv
  <2> QED
    BY <2>1, DaemonDesk, OperatorDesk DEF Next
<1>3. I => (Waits => OneTablePerNumber)
  BY DEF DeskInv, Distinct, OneTablePerNumber, Copies
<1> HIDE DEF I
<1> QED
  BY <1>1, <1>2, <1>3, TypeHolds, PTL DEF Spec

-----------------------------------------------------------------------------
(* The file of a member.                                                    *)

\* A step that touches one node keeps the others as they are.
LEMMA OthersKeep ==
  ASSUME PolicyInv, MembersOK, NEW n \in Node,
         \A m \in Node \ {n} : /\ mem'[m] = mem[m] /\ file'[m] = file[m]
                              /\ writing'[m] = writing[m] /\ trust'[m] = trust[m]
                              /\ key'[m] = key[m] /\ (m \in down' <=> m \in down)
                              /\ (m \in lost' <=> m \in lost),
         key'[n] = NoKey /\ n \notin down' => MemberOK(n)'
  PROVE  MembersOK'
<1> SUFFICES ASSUME NEW m \in Node, m # n, key'[m] = NoKey, m \notin down'
             PROVE  MemberOK(m)'
  BY DEF MembersOK
<1>1. MemberOK(m)
  BY DEF MembersOK
<1> QED
  BY <1>1 DEF MemberOK, Valid

LEMMA DaemonFollows ==
  ASSUME PolicyInv, MembersOK, NEW n \in Node, Daemon(n)
  PROVE  MembersOK'
<1>0. /\ mem[n] \in Tables /\ file[n] \in Tables /\ writing[n] \in [Threads -> Tables]
      /\ mem[n].seq \in Nat /\ file[n].seq \in Nat
  BY NumbersAreNat DEF PolicyInv, PolicyTypeOK
<1>1. UNCHANGED <<trust, key>>
  BY DEF Daemon, Refresh, Start, Pull, Persist
<1>2. CASE Refresh(n)
  <2>1. key[n] = NoKey => MemberOK(n) /\ n \notin down
    BY <1>2 DEF MembersOK, Refresh, Free
  <2>2. CASE Offer(n, "reconcile", file[n]) /\ UNCHANGED <<lost, faults>>
    <3>1. /\ \A m \in Node \ {n} : mem'[m] = mem[m] /\ writing'[m] = writing[m]
          /\ key[n] = NoKey => UNCHANGED <<mem, writing>>
      BY <1>0, <2>1, <2>2, OfferKeeps DEF Threads, MemberOK, Offer
    <3>2. key[n] = NoKey => MemberOK(n)'
      BY <1>1, <1>2, <2>1, <2>2, <3>1 DEF Refresh, MemberOK, Valid
    <3> QED
      BY <1>1, <1>2, <2>2, <3>1, <3>2, OthersKeep DEF Refresh
  <2>3. CASE Fault(n) /\ UNCHANGED <<mem, writing>>
    <3>1. key[n] = NoKey => MemberOK(n)'
      BY <1>1, <1>2, <2>1, <2>3 DEF Refresh, Fault, MemberOK, Valid
    <3> QED
      BY <1>1, <1>2, <2>3, <3>1, OthersKeep DEF Refresh, Fault
  <2> QED
    BY <1>2, <2>2, <2>3 DEF Refresh
<1>3. CASE Start(n)
  <2>1. writing[n] = Idle
    BY <1>3 DEF Start, PolicyInv, DownOK
  <2>2. /\ mem'[n] = IF Valid(n, file[n]) THEN file[n] ELSE NoTable
        /\ file' = file /\ writing' = writing
    BY <1>3 DEF Start, PolicyInv, PolicyTypeOK
  <2>3. MemberOK(n)'
    BY <1>0, <1>1, <2>1, <2>2 DEF MemberOK, Valid, Idle, Threads, NoTable
  <2> QED
    BY <1>1, <1>3, <2>3, OthersKeep DEF Start, PolicyInv, PolicyTypeOK
<1>4. ASSUME NEW h \in Node, Pull(n, h) PROVE MembersOK'
  <2>1. file[h] \in Tables /\ file[h].seq \in Nat /\ Offer(n, "sync", file[h])
        /\ UNCHANGED <<file, down, lost>> /\ n \notin down
    BY <1>4, NumbersAreNat DEF Pull, Free, PolicyInv, PolicyTypeOK
  <2>2. /\ \A m \in Node \ {n} : mem'[m] = mem[m] /\ writing'[m] = writing[m]
        /\ writing'[n]["reconcile"] = writing[n]["reconcile"]
        /\ \/ mem'[n] = mem[n] /\ writing'[n]["sync"] = writing[n]["sync"]
           \/ /\ mem'[n] = file[h] /\ writing'[n]["sync"] = file[h]
              /\ file[h].seq > mem[n].seq
    BY <2>1, OfferKeeps DEF Threads
  <2>3. key[n] = NoKey => MemberOK(n)'
    BY <1>0, <1>1, <2>1, <2>2 DEF MembersOK, MemberOK, Valid
  <2> QED
    BY <1>1, <2>1, <2>2, <2>3, OthersKeep
<1>5. ASSUME NEW t \in Threads, Persist(n, t) PROVE MembersOK'
  <2>1. n \notin down /\ writing[n][t] # NoTable /\ UNCHANGED <<mem, down>>
    BY <1>5 DEF Persist, Free
  <2>2. \A m \in Node \ {n} : /\ file'[m] = file[m] /\ writing'[m] = writing[m]
                             /\ (m \in lost' <=> m \in lost)
    BY <1>5 DEF Persist, Fault, PolicyInv, PolicyTypeOK
  <2>3. /\ writing'[n] = [writing[n] EXCEPT ![t] = NoTable]
        /\ \/ file'[n] = writing[n][t] /\ lost' = lost
           \/ file' = file /\ n \in lost'
    BY <1>5 DEF Persist, Fault, PolicyInv, PolicyTypeOK
  <2>4. ASSUME key[n] = NoKey PROVE MemberOK(n)'
    <3>1. MemberOK(n)
      BY <2>1, <2>4 DEF MembersOK
    <3>2. t = "sync" /\ writing[n]["sync"] = mem[n]
      BY <2>1, <3>1 DEF MemberOK, Threads
    <3>3. writing'[n]["sync"] = NoTable /\ writing'[n]["reconcile"] = NoTable
      BY <1>0, <2>3, <3>1, <3>2 DEF MemberOK, Threads
    <3> QED
      BY <1>0, <1>1, <2>1, <2>3, <3>1, <3>2, <3>3 DEF MemberOK, Valid
  <2> QED
    BY <1>1, <2>1, <2>2, <2>4, OthersKeep
<1> QED
  BY <1>2, <1>3, <1>4, <1>5 DEF Daemon

LEMMA OperatorFollows ==
  ASSUME PolicyInv, MembersOK, NEW n \in Node, Operator(n)
  PROVE  MembersOK'
<1>1. ASSUME \/ \E g \in GrantSets : ApplyReads(n, g)
             \/ Declined(n)
      PROVE  MembersOK'
  <2>1. UNCHANGED <<mem, file, writing, trust, key, down, lost>>
    BY <1>1 DEF ApplyReads, Declined
  <2> QED
    BY <2>1 DEF MembersOK, MemberOK, Valid
<1>2. CASE ApplyWrites(n)
  <2>1. key[n] # NoKey
    BY <1>2 DEF ApplyWrites, PolicyInv, ApplyOK
  <2> QED
    BY <1>2, <2>1, OthersKeep DEF ApplyWrites, PolicyInv, PolicyTypeOK
<1>3. CASE Promote(n) \/ TrustNew(n) \/ DropOld(n)
  <2>1. n \in down /\ UNCHANGED <<mem, file, writing, down, lost>>
    BY <1>3 DEF Promote, TrustNew, DropOld
  <2>2. \A m \in Node \ {n} : trust'[m] = trust[m] /\ key'[m] = key[m]
    BY <1>3 DEF Promote, TrustNew, DropOld, PolicyInv, PolicyTypeOK
  <2> QED
    BY <2>1, <2>2, OthersKeep
<1>4. CASE Stop(n)
  BY <1>4, OthersKeep DEF Stop, PolicyInv, PolicyTypeOK
<1> QED
  BY <1>1, <1>2, <1>3, <1>4 DEF Operator

\* Memory is never ahead of policy.json for good, although offers are persisted
\* outside the lock: no other thread of a member's daemon can write an older
\* table in between (GrantPolicy.offer, policy.py).
THEOREM MemberFileFollows == Spec => []FileFollows
<1>1. Init => MembersOK
  BY DEF Init, MembersOK, MemberOK, Idle, First, Threads, NoTable, Valid
<1>2. PolicyInv /\ MembersOK /\ [Next]_vars => MembersOK'
  <2> SUFFICES ASSUME PolicyInv, MembersOK, [Next]_vars PROVE MembersOK'
    OBVIOUS
  <2>1. CASE UNCHANGED vars
    BY <2>1 DEF vars, MembersOK, MemberOK, Valid
  <2> QED
    BY <2>1, DaemonFollows, OperatorFollows DEF Next
<1>3. MembersOK => FileFollows
  BY DEF MembersOK, MemberOK, FileFollows, Holders, Threads
<1> QED
  BY <1>1, <1>2, <1>3, TypeHolds, PTL DEF Spec
=============================================================================
