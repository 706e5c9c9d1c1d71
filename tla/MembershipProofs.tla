-------------------------- MODULE MembershipProofs --------------------------
(***************************************************************************)
(* What holds of Membership for every set of holders, members, names and   *)
(* capability sets, for every TTL and grace, and whatever may go wrong;    *)
(* then what one holder with a reliable daemon knows of its members.       *)
(***************************************************************************)
EXTENDS Membership, TLAPS

Directory == [Node -> Record \cup {None}]
Credentials == [Node -> Cred \cup {None}]

-----------------------------------------------------------------------------
(* The operators the actions are built from keep the types *)

LEMMA MergeRecordType ==
  ASSUME NEW old \in Record \cup {None}, NEW r \in Record \cup {None}
  PROVE  MergeRecord(old, r) \in Record \cup {None}
BY DEF MergeRecord

LEMMA DirectoryTypes ==
  ASSUME NEW d \in Directory, NEW e \in Directory, NEW l, NEW own
  PROVE  /\ PruneStale(d) \in Directory
         /\ MergeDir(d, e) \in Directory
         /\ DropDead(d, l, own) \in Directory
<1>1. PruneStale(d) \in Directory
  BY DEF PruneStale, Directory
<1>2. MergeDir(d, e) \in Directory
  BY MergeRecordType DEF MergeDir, Directory
<1>3. DropDead(d, l, own) \in Directory
  BY DEF DropDead, Directory
<1>4. QED
  BY <1>1, <1>2, <1>3

LEMMA NoSetCapsType == NoSetCaps \in SetCapsStmt
BY CapsNonEmpty DEF NoSetCaps, SetCapsStmt

LEMMA LogTypes ==
  ASSUME NEW l \in Log, NEW k \in Log
  PROVE  /\ EmptyLog \in Log
         /\ MergeLog(l, k) \in Log
         /\ PruneLog(l) \in Log
<1>1. EmptyLog \in Log
  BY NoSetCapsType DEF EmptyLog, Log
<1>2. MergeLog(l, k) \in Log
  BY DEF MergeLog, Log
<1>3. PruneLog(l) \in Log
  BY NoSetCapsType DEF PruneLog, Log
<1>4. QED
  BY <1>1, <1>2, <1>3

LEMMA MintTypes ==
  ASSUME NEW l \in Log, NEW n \in Node, NEW c \in Caps, now \in Nat \ {0}
  PROVE  /\ AddTombstone(l, n) \in Log
         /\ AddRevoke(l, n) \in Log
         /\ AddSetCaps(l, n, c) \in Log
<1>1. AddTombstone(l, n) \in Log
  BY DEF AddTombstone, Log
<1>2. AddRevoke(l, n) \in Log
  BY DEF AddRevoke, Log
<1>3. AddSetCaps(l, n, c) \in Log
  BY DEF AddSetCaps, Log, SetCapsStmt
<1>4. QED
  BY <1>1, <1>2, <1>3

LEMMA ViewTypes ==
  ASSUME TypeOK, NEW h \in Holder, NEW n \in Node
  PROVE  /\ Overlay(h) \in Credentials
         /\ Known(h, n) \in Cred \cup {None}
<1>1. Overlay(h) \in Credentials
  BY DEF TypeOK, Overlay, Credentials
<1>2. LiveRecord(h, n) => dir[h][n].cred \in Cred
  BY DEF TypeOK, LiveRecord, Record, Replica
<1>3. Known(h, n) \in Cred \cup {None}
  BY <1>1, <1>2 DEF Known, Credentials
<1>4. QED
  BY <1>1, <1>3

LEMMA IssueTypes ==
  ASSUME TypeOK, NEW h \in Holder, NEW n \in Node, NEW c \in Cred \cup {None}
  PROVE  Issued(h, n, c) \in [Holder -> [Node -> Cred \cup {None}]]
BY ViewTypes DEF Issued, TypeOK, Credentials

LEMMA OwnRecordType ==
  ASSUME TypeOK, NEW n \in Node, NEW c \in Cred
  PROVE  OwnRecord(n, c) \in Record
<1>1. dir[n][n] \in Record \cup {None}
  BY DEF TypeOK, Replica
<1>2. NextSeq(n) \in Nat \ {0}
  BY <1>1 DEF NextSeq, Record
<1>3. QED
  BY <1>2 DEF OwnRecord, Record

LEMMA NewCredType ==
  ASSUME TypeOK, NEW name \in Name, NEW caps \in Caps
  PROVE  NewCred(name, caps) \in Cred
BY DEF TypeOK, NewCred, Cred

LEMMA RenewedCredType ==
  ASSUME TypeOK, NEW h \in Holder, NEW n \in Node, NEW name \in Name,
         Renewable(h, n, name)
  PROVE  RenewedCred(h, n, name) \in Cred
<1>1. Known(h, n) \in Cred
  BY ViewTypes DEF Renewable
<1>2. log[h].setcaps[n] \in SetCapsStmt
  BY DEF TypeOK, Log, Replica
<1>3. CapsFor(log[h], n, Known(h, n)) \in Caps
  BY <1>1, <1>2 DEF CapsFor, Cred, SetCapsStmt
<1>4. QED
  BY <1>3, NewCredType DEF RenewedCred

-----------------------------------------------------------------------------
(* Type correctness *)

LEMMA TypeInit == Init => TypeOK
BY LogTypes, NoSetCapsType DEF Init, TypeOK, EmptyLog, Log

LEMMA TypeDoor ==
  ASSUME TypeOK, NEW h \in Holder, NEW n \in Node, DoorStep(h, n)
  PROVE  TypeOK'
<1>1. PICK name \in Name, caps \in Caps :
         \/ \E landed \in BOOLEAN : Enroll(h, n, name, caps, landed)
         \/ EnrollLost(h, n, name, caps)
         \/ EnrollRefused(h, n, name, caps)
  BY DEF DoorStep
<1> DEFINE c == NewCred(name, caps)
<1>2. c \in Cred
  BY NewCredType
<1>3. last' = [last EXCEPT ![n] = now] => last' \in [Node -> Nat]
  BY DEF TypeOK
<1>4. CASE \E landed \in BOOLEAN : Enroll(h, n, name, caps, landed)
  <2>1. PICK landed \in BOOLEAN : Enroll(h, n, name, caps, landed)
    BY <1>4
  <2>2. recent' \in [Holder -> [Node -> Cred \cup {None}]]
    BY <2>1, <1>2, IssueTypes DEF Enroll
  <2>3. OwnRecord(n, c) \in Record
    BY <1>2, OwnRecordType
  <2>4. MergeRecord(dir[h][n], OwnRecord(n, c)) \in Record \cup {None}
    <3>1. dir[h][n] \in Record \cup {None}
      BY DEF TypeOK, Replica
    <3>2. OwnRecord(n, c) \in Record \cup {None}
      BY <2>3
    <3>3. QED
      BY <3>1, <3>2, MergeRecordType
  <2>5. dir' \in [Replica -> [Node -> Record \cup {None}]]
    <3>1. CASE landed
      <4>1. h # n
        BY Disjoint
      <4>2. dir' = [dir EXCEPT ![n][n] = OwnRecord(n, c),
                               ![h][n] = MergeRecord(dir[h][n], OwnRecord(n, c))]
        BY <2>1, <3>1, <4>1 DEF Enroll, TypeOK, Replica
      <4>3. QED
        BY <4>2, <2>3, <2>4 DEF TypeOK, Replica
    <3>2. CASE ~landed
      BY <2>1, <3>2, <2>3 DEF Enroll, TypeOK, Replica
    <3>3. QED
      BY <3>1, <3>2
  <2>6. cred' \in [Node -> Cred \cup {None}] /\ gone' \subseteq Node
    BY <2>1, <1>2 DEF Enroll, TypeOK
  <2>7. QED
    BY <2>1, <2>2, <2>5, <2>6, <1>3 DEF Enroll, TypeOK, Stamp
<1>5. CASE EnrollLost(h, n, name, caps)
  <2>1. recent' \in [Holder -> [Node -> Cred \cup {None}]]
    BY <1>5, <1>2, IssueTypes DEF EnrollLost
  <2>2. QED
    BY <1>5, <2>1, <1>3 DEF EnrollLost, TypeOK, Stamp
<1>6. CASE EnrollRefused(h, n, name, caps)
  <2>1. recent' \in [Holder -> [Node -> Cred \cup {None}]]
    BY <1>6, <1>2, IssueTypes DEF EnrollRefused
  <2>2. QED
    BY <1>6, <2>1, <1>3 DEF EnrollRefused, TypeOK, Stamp
<1>7. QED
  BY <1>1, <1>4, <1>5, <1>6

LEMMA TypeNode ==
  ASSUME TypeOK, NEW h \in Holder, NEW n \in Node, NodeStep(n, h)
  PROVE  TypeOK'
<1>1. last' = [last EXCEPT ![n] = now] => last' \in [Node -> Nat]
  BY DEF TypeOK
<1>2. ASSUME NEW name \in Name, Renew(n, h, name)
      PROVE  TypeOK'
  <2> DEFINE c == RenewedCred(h, n, name)
  <2>1. c \in Cred
    BY <1>2, RenewedCredType DEF Renew
  <2>2. recent' \in [Holder -> [Node -> Cred \cup {None}]]
    BY <1>2, <2>1, IssueTypes DEF Renew
  <2>3. OwnRecord(n, c) \in Record
    BY <2>1, OwnRecordType
  <2>4. dir' \in [Replica -> [Node -> Record \cup {None}]]
    BY <1>2, <2>3 DEF Renew, TypeOK, Replica
  <2>5. cred' \in [Node -> Cred \cup {None}]
    BY <1>2, <2>1 DEF Renew, TypeOK
  <2>6. QED
    BY <1>2, <2>2, <2>4, <2>5, <1>1 DEF Renew, TypeOK, Stamp
<1>3. ASSUME NEW name \in Name, RenewLost(n, h, name)
      PROVE  TypeOK'
  <2>1. RenewedCred(h, n, name) \in Cred
    BY <1>3, RenewedCredType DEF RenewLost
  <2>2. recent' \in [Holder -> [Node -> Cred \cup {None}]]
    BY <1>3, <2>1, IssueTypes DEF RenewLost
  <2>3. QED
    BY <1>3, <2>2, <1>1 DEF RenewLost, TypeOK, Stamp
<1>4. ASSUME Push(n, h)
      PROVE  TypeOK'
  <2>1. dir[h][n] \in Record \cup {None} /\ dir[n][n] \in Record \cup {None}
    BY DEF TypeOK, Replica
  <2>2. MergeRecord(dir[h][n], dir[n][n]) \in Record \cup {None}
    BY <2>1, MergeRecordType
  <2>3. dir' \in [Replica -> [Node -> Record \cup {None}]]
    BY <1>4, <2>2 DEF Push, TypeOK, Replica
  <2>4. QED
    BY <1>4, <2>3 DEF Push, TypeOK
<1>5. ASSUME Leave(n, h)
      PROVE  TypeOK'
  <2>1. log[h] \in Log /\ now \in Nat \ {0}
    BY DEF TypeOK, Replica
  <2>2. AddTombstone(log[h], n) \in Log
    BY <2>1, MintTypes, CapsNonEmpty
  <2>3. log' \in [Replica -> Log] /\ file' \in [Replica -> Log]
    BY <1>5, <2>2 DEF Leave, TypeOK, Replica
  <2>4. dir' \in [Replica -> [Node -> Record \cup {None}]]
    BY <1>5 DEF Leave, TypeOK, Replica
  <2>5. recent' \in [Holder -> [Node -> Cred \cup {None}]]
    BY <1>5 DEF Leave, TypeOK
  <2>6. QED
    BY <1>5, <2>3, <2>4, <2>5, <1>1 DEF Leave, TypeOK, Stamp
<1>6. QED
  BY <1>2, <1>3, <1>4, <1>5 DEF NodeStep

LEMMA TypeOperator ==
  ASSUME TypeOK, NEW h \in Holder, NEW n \in Node, OperatorStep(h, n)
  PROVE  TypeOK'
<1>1. file[h] \in Log /\ now \in Nat \ {0}
  BY DEF TypeOK, Replica
<1>2. ASSUME Revoke(h, n)
      PROVE  TypeOK'
  <2>1. AddTombstone(AddRevoke(file[h], n), n) \in Log
    BY <1>1, MintTypes, CapsNonEmpty
  <2>2. file' \in [Replica -> Log]
    BY <1>2, <2>1 DEF Revoke, TypeOK, Replica
  <2>3. legacy' \in [Replica -> SUBSET Node] /\ last' \in [Node -> Nat]
    BY <1>2 DEF Revoke, TypeOK, Replica, Stamp
  <2>4. QED
    BY <1>2, <2>2, <2>3 DEF Revoke, TypeOK
<1>3. ASSUME NEW caps \in Caps, SetCaps(h, n, caps)
      PROVE  TypeOK'
  <2>1. AddSetCaps(file[h], n, caps) \in Log
    BY <1>1, MintTypes
  <2>2. file' \in [Replica -> Log]
    BY <1>3, <2>1 DEF SetCaps, TypeOK, Replica
  <2>3. last' \in [Node -> Nat]
    BY <1>3 DEF SetCaps, TypeOK, Stamp
  <2>4. QED
    BY <1>3, <2>2, <2>3 DEF SetCaps, TypeOK
<1>4. QED
  BY <1>2, <1>3 DEF OperatorStep

LEMMA TypeSync ==
  ASSUME TypeOK, NEW r \in Replica, SyncStep(r)
  PROVE  TypeOK'
<1>1. /\ log[r] \in Log /\ file[r] \in Log /\ legacy[r] \subseteq Node
      /\ dir[r] \in Directory
  BY DEF TypeOK, Directory
<1>2. Reread(r) \in Log
  BY <1>1, LogTypes DEF Reread
<1>3. PruneStale(dir[r]) \in Directory
  BY <1>1, DirectoryTypes
<1>4. ASSUME NEW h \in Holder, NEW b \in BOOLEAN, Pull(r, h, b)
      PROVE  TypeOK'
  <2> DEFINE mine  == Reread(r)
             heard == MergeLog(mine, IF h = r THEN mine ELSE log[h])
             kept  == PruneLog(heard)
             recs  == MergeDir(PruneStale(dir[r]), dir[h])
  <2>1. log[h] \in Log /\ dir[h] \in Directory /\ legacy[h] \subseteq Node
    BY DEF TypeOK, Directory, Replica
  <2>2. heard \in Log
    BY <1>2, <2>1, LogTypes
  <2>3. kept \in Log
    BY <2>2, LogTypes
  <2>4. recs \in Directory
    BY <1>3, <2>1, DirectoryTypes
  <2>5. DropDead(recs, kept, r) \in Directory
    BY <2>4, DirectoryTypes
  <2>6. log' = [log EXCEPT ![r] = kept] /\ (file' = [file EXCEPT ![r] = kept] \/ file' = file)
    BY <1>4 DEF Pull
  <2>7. log' \in [Replica -> Log] /\ file' \in [Replica -> Log]
    BY <2>3, <2>6 DEF TypeOK
  <2>8. dir' \in [Replica -> [Node -> Record \cup {None}]]
    <3>1. dir' = [dir EXCEPT ![r] = DropDead(recs, kept, r)]
      BY <1>4 DEF Pull
    <3>2. QED
      BY <2>5, <3>1 DEF TypeOK, Directory
  <2>9. legacy' \in [Replica -> SUBSET Node]
    <3>1. kept.revoke \subseteq Node /\ log[h].revoke \subseteq Node
      BY <2>1, <2>3 DEF Log
    <3>2. legacy[r] \cup kept.revoke \subseteq Node /\ ServedRevoked(h) \subseteq Node
      BY <1>1, <2>1, <3>1 DEF ServedRevoked
    <3>3. \/ legacy' = legacy
          \/ legacy' = [legacy EXCEPT ![r] = legacy[r] \cup kept.revoke]
          \/ legacy' = [legacy EXCEPT ![r] = ServedRevoked(h)]
      BY <1>4 DEF Pull
    <3>4. QED
      BY <3>2, <3>3 DEF TypeOK
  <2>10. QED
    BY <1>4, <2>7, <2>8, <2>9 DEF Pull, TypeOK
<1>5. ASSUME PullUnanswered(r)
      PROVE  TypeOK'
  <2>1. log' \in [Replica -> Log]
    BY <1>2, <1>5 DEF PullUnanswered, TypeOK
  <2>2. dir' \in [Replica -> [Node -> Record \cup {None}]]
    BY <1>3, <1>5 DEF PullUnanswered, TypeOK, Directory
  <2>3. QED
    BY <1>5, <2>1, <2>2 DEF PullUnanswered, TypeOK
<1>6. QED
  BY <1>4, <1>5 DEF SyncStep

LEMMA TypeRest ==
  ASSUME TypeOK,
         \/ \E n \in Node : Republish(n)
         \/ \E h \in Holder : RefuseUnknown(h) \/ Sweep(h)
         \/ \E r \in Replica : Restart(r)
         \/ Tick
  PROVE  TypeOK'
<1>1. ASSUME NEW n \in Node, Republish(n)
      PROVE  TypeOK'
  <2>1. dir[n][n] \in Record
    BY <1>1 DEF Republish, TypeOK, Replica
  <2>2. OwnRecord(n, dir[n][n].cred) \in Record
    BY <2>1, OwnRecordType DEF Record
  <2>3. dir' \in [Replica -> [Node -> Record \cup {None}]]
    BY <1>1, <2>2 DEF Republish, TypeOK, Replica
  <2>4. QED
    BY <1>1, <2>3 DEF Republish, TypeOK
<1>2. ASSUME NEW h \in Holder, RefuseUnknown(h)
      PROVE  TypeOK'
  <2>1. Overlay(h) \in Credentials
    BY DEF TypeOK, Overlay, Credentials
  <2>2. recent' \in [Holder -> [Node -> Cred \cup {None}]]
    BY <1>2, <2>1 DEF RefuseUnknown, TypeOK, Credentials
  <2>3. QED
    BY <1>2, <2>2 DEF RefuseUnknown, TypeOK
<1>3. ASSUME NEW h \in Holder, Sweep(h)
      PROVE  TypeOK'
  <2>1. PruneStale(dir[h]) \in Directory /\ PruneLog(log[h]) \in Log
    BY DirectoryTypes, LogTypes DEF TypeOK, Directory, Replica
  <2>2. QED
    BY <1>3, <2>1 DEF Sweep, TypeOK, Directory
<1>4. ASSUME NEW r \in Replica, Restart(r)
      PROVE  TypeOK'
  <2>1. PruneStale(dir[r]) \in Directory /\ file[r] \in Log
    BY DirectoryTypes DEF TypeOK, Directory
  <2>2. recent' \in [Holder -> [Node -> Cred \cup {None}]]
    BY <1>4 DEF Restart, TypeOK
  <2>3. QED
    BY <1>4, <2>1, <2>2 DEF Restart, TypeOK, Directory
<1>5. ASSUME Tick
      PROVE  TypeOK'
  BY <1>5 DEF Tick, TypeOK
<1>6. QED
  BY <1>1, <1>2, <1>3, <1>4, <1>5

LEMMA TypeNext == TypeOK /\ [Next]_vars => TypeOK'
<1> SUFFICES ASSUME TypeOK, [Next]_vars
             PROVE  TypeOK'
  OBVIOUS
<1>1. CASE UNCHANGED vars
  BY <1>1 DEF vars, TypeOK
<1>2. ASSUME NEW h \in Holder, NEW n \in Node,
             DoorStep(h, n) \/ NodeStep(n, h) \/ OperatorStep(h, n)
      PROVE  TypeOK'
  BY <1>2, TypeDoor, TypeNode, TypeOperator
<1>3. ASSUME NEW r \in Syncing, SyncStep(r)
      PROVE  TypeOK'
  BY <1>3, TypeSync, Bounds DEF Replica
<1>4. QED
  BY <1>1, <1>2, <1>3, TypeRest DEF Next

\* Every cache keeps its type, whatever the instance: no interleaving of the
\* holders' handlers, the nodes, the CLI and the loops stores anything else.
THEOREM TypeCorrect == Spec => []TypeOK
<1>1. QED
  BY TypeInit, TypeNext, PTL DEF Spec

-----------------------------------------------------------------------------
(* The revoke statements implement RevokeSet *)

\* What a daemon knows is in its statements.json, so that a restart keeps it,
\* and was decided by an operator.
Persisted == \A r \in Replica : /\ log[r].revoke \subseteq file[r].revoke
                                /\ file[r].revoke \subseteq revoked

LEMMA PersistedInit == Init => Persisted
BY DEF Init, Persisted, EmptyLog

\* A sync step of r takes nothing from what its daemon knows, adds decisions
\* only, and leaves the file with all of it.
LEMMA SyncKeeps ==
  ASSUME TypeOK, Persisted, NEW r \in Replica, SyncStep(r)
  PROVE  /\ log[r].revoke \subseteq log'[r].revoke
         /\ log'[r].revoke \subseteq file'[r].revoke
         /\ file'[r].revoke \subseteq revoked
         /\ revoked' = revoked
         /\ \A q \in Replica \ {r} : log'[q] = log[q] /\ file'[q] = file[q]
<1>1. Reread(r).revoke = file[r].revoke
  BY DEF Reread, MergeLog, Persisted
<1>2. ASSUME NEW h \in Holder, NEW b \in BOOLEAN, Pull(r, h, b)
      PROVE  /\ log[r].revoke \subseteq log'[r].revoke
             /\ log'[r].revoke \subseteq file'[r].revoke
             /\ file'[r].revoke \subseteq revoked
  <2> DEFINE mine  == Reread(r)
             heard == MergeLog(mine, IF h = r THEN mine ELSE log[h])
             kept  == PruneLog(heard)
  <2>1. /\ log' = [log EXCEPT ![r] = kept]
        /\ file' = IF heard # mine THEN [file EXCEPT ![r] = kept] ELSE file
    BY <1>2 DEF Pull
  <2>2. log'[r] = kept /\ file'[r] = IF heard # mine THEN kept ELSE file[r]
    BY <2>1 DEF TypeOK
  <2>3. kept.revoke = heard.revoke
    BY DEF PruneLog
  <2>4. heard.revoke = mine.revoke \cup (IF h = r THEN mine ELSE log[h]).revoke
    BY DEF MergeLog
  <2>5. log[h].revoke \subseteq revoked
    BY DEF Persisted, Replica
  <2>6. /\ mine.revoke \subseteq kept.revoke
        /\ kept.revoke \subseteq revoked
        /\ heard = mine => kept.revoke = file[r].revoke
    BY <1>1, <2>3, <2>4, <2>5 DEF Persisted
  <2>7. QED
    BY <1>1, <2>2, <2>6 DEF Persisted
<1>3. ASSUME PullUnanswered(r)
      PROVE  /\ log[r].revoke \subseteq log'[r].revoke
             /\ log'[r].revoke \subseteq file'[r].revoke
             /\ file'[r].revoke \subseteq revoked
  <2>1. log'[r] = Reread(r) /\ file' = file
    BY <1>3 DEF PullUnanswered, TypeOK
  <2>2. QED
    BY <1>1, <2>1 DEF Persisted
<1>4. /\ revoked' = revoked
      /\ \A q \in Replica \ {r} : log'[q] = log[q] /\ file'[q] = file[q]
  BY DEF SyncStep, Pull, PullUnanswered, TypeOK
<1>5. QED
  BY <1>2, <1>3, <1>4 DEF SyncStep

\* Every other step leaves what the daemons know, but for a restart.
LEMMA DecisionKeeps ==
  ASSUME TypeOK, Persisted, NEW h \in Holder, NEW n \in Node,
         Leave(n, h) \/ Revoke(h, n) \/ (\E caps \in Caps : SetCaps(h, n, caps)) \/ Sweep(h)
  PROVE  /\ Persisted'
         /\ \A r \in Replica : log'[r].revoke = log[r].revoke
         /\ revoked' = revoked \/ revoked' = revoked \cup {n}
<1>1. h \in Replica /\ log[h] \in Log /\ file[h] \in Log
  BY DEF TypeOK, Replica
<1>2. CASE Leave(n, h)
  <2>1. /\ log' = [log EXCEPT ![h] = AddTombstone(@, n)]
        /\ file' = [file EXCEPT ![h] = AddTombstone(log[h], n)]
        /\ revoked' = revoked
    BY <1>2 DEF Leave
  <2>2. AddTombstone(log[h], n).revoke = log[h].revoke
    BY <1>1 DEF AddTombstone, Log
  <2>3. QED
    BY <1>1, <2>1, <2>2 DEF Persisted, TypeOK
<1>3. CASE Revoke(h, n)
  <2>1. /\ log' = log
        /\ file' = [file EXCEPT ![h] = AddTombstone(AddRevoke(@, n), n)]
        /\ revoked' = revoked \cup {n}
    BY <1>3 DEF Revoke
  <2>2. AddTombstone(AddRevoke(file[h], n), n).revoke = file[h].revoke \cup {n}
    BY <1>1 DEF AddTombstone, AddRevoke, Log
  <2>3. QED
    BY <1>1, <2>1, <2>2 DEF Persisted, TypeOK
<1>4. CASE \E caps \in Caps : SetCaps(h, n, caps)
  <2>1. PICK caps \in Caps : SetCaps(h, n, caps)
    BY <1>4
  <2>2. /\ log' = log
        /\ file' = [file EXCEPT ![h] = AddSetCaps(@, n, caps)]
        /\ revoked' = revoked
    BY <2>1 DEF SetCaps
  <2>3. AddSetCaps(file[h], n, caps).revoke = file[h].revoke
    BY <1>1 DEF AddSetCaps, Log
  <2>4. QED
    BY <1>1, <2>2, <2>3 DEF Persisted, TypeOK
<1>5. CASE Sweep(h)
  <2>1. log' = [log EXCEPT ![h] = PruneLog(@)] /\ file' = file /\ revoked' = revoked
    BY <1>5 DEF Sweep
  <2>2. PruneLog(log[h]).revoke = log[h].revoke
    BY DEF PruneLog
  <2>3. QED
    BY <1>1, <2>1, <2>2 DEF Persisted, TypeOK
<1>6. QED
  BY <1>2, <1>3, <1>4, <1>5

LEMMA RestartKeeps ==
  ASSUME TypeOK, Persisted, NEW r \in Replica, Restart(r)
  PROVE  /\ Persisted'
         /\ log[r].revoke \subseteq log'[r].revoke /\ log'[r].revoke \subseteq revoked
         /\ \A q \in Replica \ {r} : log'[q] = log[q]
         /\ revoked' = revoked
<1>1. log' = [log EXCEPT ![r] = file[r]] /\ file' = file /\ revoked' = revoked
  BY DEF Restart
<1>2. QED
  BY <1>1 DEF Persisted, TypeOK

\* One step, seen from RevokeSet: the knowledge of at most one daemon grows,
\* or the set of decisions does.
LEMMA RevokeStep ==
  ASSUME TypeOK, Persisted, [Next]_vars
  PROVE  /\ Persisted'
         /\ \/ /\ \A r \in Replica : log'[r].revoke = log[r].revoke
               /\ revoked' = revoked \/ \E n \in Node : revoked' = revoked \cup {n}
            \/ /\ revoked' = revoked
               /\ \E r \in Replica :
                    /\ log[r].revoke \subseteq log'[r].revoke /\ log'[r].revoke \subseteq revoked
                    /\ \A q \in Replica \ {r} : log'[q].revoke = log[q].revoke
<1> DEFINE Goal ==
         /\ Persisted'
         /\ \/ /\ \A r \in Replica : log'[r].revoke = log[r].revoke
               /\ revoked' = revoked \/ \E n \in Node : revoked' = revoked \cup {n}
            \/ /\ revoked' = revoked
               /\ \E r \in Replica :
                    /\ log[r].revoke \subseteq log'[r].revoke /\ log'[r].revoke \subseteq revoked
                    /\ \A q \in Replica \ {r} : log'[q].revoke = log[q].revoke
<1>1. ASSUME log' = log, file' = file, revoked' = revoked
      PROVE  Goal
  BY <1>1 DEF Persisted
<1>2. ASSUME NEW h \in Holder, NEW n \in Node, DoorStep(h, n)
      PROVE  Goal
  BY <1>1, <1>2 DEF DoorStep, Enroll, EnrollLost, EnrollRefused
<1>3. ASSUME NEW h \in Holder, NEW n \in Node, NodeStep(n, h)
      PROVE  Goal
  <2>1. CASE Leave(n, h)
    BY <2>1, DecisionKeeps
  <2>2. CASE Push(n, h) \/ \E name \in Name : Renew(n, h, name) \/ RenewLost(n, h, name)
    BY <1>1, <2>2 DEF Push, Renew, RenewLost
  <2>3. QED
    BY <1>3, <2>1, <2>2 DEF NodeStep
<1>4. ASSUME NEW h \in Holder, NEW n \in Node, OperatorStep(h, n)
      PROVE  Goal
  BY <1>4, DecisionKeeps DEF OperatorStep
<1>5. ASSUME NEW r \in Replica, SyncStep(r)
      PROVE  Goal
  <2>1. Persisted'
    BY <1>5, SyncKeeps DEF Persisted
  <2>2. log'[r].revoke \subseteq revoked
    BY <1>5, SyncKeeps
  <2>3. QED
    BY <1>5, <2>1, <2>2, SyncKeeps
<1>6. ASSUME NEW h \in Holder, Sweep(h)
      PROVE  Goal
  <2>1. CASE Node = {}
    <3>1. PruneLog(log[h]).revoke = log[h].revoke
      BY DEF PruneLog
    <3>2. h \in Replica
      BY DEF Replica
    <3>3. log' = [log EXCEPT ![h] = PruneLog(@)] /\ file' = file /\ revoked' = revoked
      BY <1>6 DEF Sweep
    <3>4. \A r \in Replica : log'[r].revoke = log[r].revoke
      BY <3>1, <3>2, <3>3 DEF TypeOK
    <3>5. QED
      BY <3>3, <3>4 DEF Persisted
  <2>2. CASE Node # {}
    BY <1>6, <2>2, DecisionKeeps
  <2>3. QED
    BY <2>1, <2>2
<1>7. ASSUME NEW r \in Replica, Restart(r)
      PROVE  Goal
  BY <1>7, RestartKeeps
<1>8. ASSUME \/ \E n \in Node : Republish(n)
             \/ \E h \in Holder : RefuseUnknown(h)
             \/ Tick
             \/ UNCHANGED vars
      PROVE  Goal
  BY <1>1, <1>8 DEF Republish, RefuseUnknown, Tick, vars
<1>9. QED
  BY <1>2, <1>3, <1>4, <1>5, <1>6, <1>7, <1>8, Bounds DEF Next, Replica

LEMMA RevokeSetInit == Init => Abstract!Init
BY DEF Init, Abstract!Init, EmptyLog

LEMMA RevokeSetNext ==
  ASSUME TypeOK, Persisted, [Next]_vars
  PROVE  [Abstract!Next]_(Abstract!vars)
<1> DEFINE seen == [r \in Replica |-> log[r].revoke]
           seenNext == [r \in Replica |-> log'[r].revoke]
<1>1. CASE /\ \A r \in Replica : log'[r].revoke = log[r].revoke
           /\ revoked' = revoked \/ \E n \in Node : revoked' = revoked \cup {n}
  <2>1. seenNext = seen
    BY <1>1
  <2>2. CASE revoked' = revoked
    BY <2>1, <2>2 DEF Abstract!vars
  <2>3. CASE \E n \in Node : revoked' = revoked \cup {n}
    BY <2>1, <2>3 DEF Abstract!Next, Abstract!Decide
  <2>4. QED
    BY <1>1, <2>2, <2>3
<1>2. CASE /\ revoked' = revoked
           /\ \E r \in Replica :
                /\ log[r].revoke \subseteq log'[r].revoke /\ log'[r].revoke \subseteq revoked
                /\ \A q \in Replica \ {r} : log'[q].revoke = log[q].revoke
  <2>1. PICK r \in Replica :
                /\ log[r].revoke \subseteq log'[r].revoke /\ log'[r].revoke \subseteq revoked
                /\ \A q \in Replica \ {r} : log'[q].revoke = log[q].revoke
    BY <1>2
  <2>2. log'[r].revoke = log[r].revoke \cup log'[r].revoke
    BY <2>1
  <2>3. seenNext = [seen EXCEPT ![r] = @ \cup log'[r].revoke]
    BY <2>1, <2>2
  <2>4. log'[r].revoke \in SUBSET revoked
    BY <2>1
  <2>5. Abstract!Learn(r)
    BY <1>2, <2>3, <2>4 DEF Abstract!Learn
  <2>6. QED
    BY <2>5 DEF Abstract!Next
<1>3. QED
  BY <1>1, <1>2, RevokeStep

\* The revoke statements implement RevokeSet in every instance: no daemon
\* forgets one, across restarts, prunes and lost writes, and none is invented.
THEOREM RevokesImplementRevokeSet == Spec => RevokeSetSpec
<1>1. Init => TypeOK /\ Persisted
  BY TypeInit, PersistedInit
<1>2. TypeOK /\ Persisted /\ [Next]_vars => (TypeOK /\ Persisted)'
  BY TypeNext, RevokeStep
<1>3. TypeOK /\ Persisted /\ [Next]_vars => [Abstract!Next]_(Abstract!vars)
  BY RevokeSetNext
<1>4. QED
  BY <1>1, <1>2, <1>3, RevokeSetInit, PTL DEF Spec, RevokeSetSpec, Abstract!Spec

-----------------------------------------------------------------------------
(* The copies of a node's record are ordered *)

\* No record carries a credential of the future.
IssuedInPast ==
  \A p \in Replica, n \in Node : dir[p][n] # None => dir[p][n].cred.iat <= now

\* While a copy of a node's record is admitted anywhere, the node still has
\* its own, and its own is the newest: what makes a fresh start at seq 1 safe.
OwnNewest ==
  \A p \in Replica, n \in Node :
     Current(dir[p][n]) =>
       /\ dir[n][n] # None
       /\ dir[p][n].seq <= dir[n][n].seq
       /\ dir[p][n].cred.iat <= dir[n][n].cred.iat
       /\ dir[p][n].seq = dir[n][n].seq => dir[p][n] = dir[n][n]

OrderInv == IssuedInPast /\ OwnNewest /\ SeqOrder

LEMMA OrderInit == Init => OrderInv
BY DEF Init, OrderInv, IssuedInPast, OwnNewest, SeqOrder, Current, Replica

\* What a step does to the directories, as the order sees it: a copy stays,
\* is dropped, or is replaced by an admitted copy, of a higher seq if it was
\* itself still admitted; a node's own record is dropped only past the
\* deadline.
Copied(p, n, new) ==
  \/ new = dir[p][n]
  \/ new = None /\ (p = n => ~Current(dir[n][n]))
  \/ \E q \in Replica : /\ new = dir[q][n]
                        /\ Current(dir[q][n])
                        /\ Current(dir[p][n]) => dir[q][n].seq > dir[p][n].seq

CopyStep ==
  /\ now' \in Nat /\ now <= now'
  /\ \A p \in Replica, n \in Node : Copied(p, n, dir'[p][n])

LEMMA CopyStepOwn ==
  ASSUME TypeOK, OrderInv, CopyStep, NEW n \in Node
  PROVE  dir'[n][n] = dir[n][n] \/ (dir'[n][n] = None /\ ~Current(dir[n][n]))
<1>1. n \in Replica
  BY DEF Replica
<1>2. ASSUME NEW q \in Replica, Current(dir[q][n]),
             Current(dir[n][n]) => dir[q][n].seq > dir[n][n].seq
      PROVE  FALSE
  <2>1. /\ dir[n][n] # None
        /\ dir[q][n].seq <= dir[n][n].seq
        /\ dir[q][n].cred.iat <= dir[n][n].cred.iat
    BY <1>2 DEF OrderInv, OwnNewest
  <2>2. dir[n][n] \in Record /\ dir[q][n] \in Record
    BY <1>1, <1>2, <2>1 DEF TypeOK, Current
  <2>3. /\ dir[n][n].seq \in Nat /\ dir[q][n].seq \in Nat /\ now \in Nat
        /\ dir[n][n].cred.iat \in Nat /\ dir[q][n].cred.iat \in Nat
    BY <2>2 DEF Record, Cred, TypeOK
  <2>4. ~(now >= dir[q][n].cred.iat + TTL + GRACE)
    BY <1>2 DEF Current, PastDrop
  <2>5. ~(now >= dir[n][n].cred.iat + TTL + GRACE)
    BY <2>1, <2>3, <2>4, Durations
  <2>6. Current(dir[n][n])
    BY <2>1, <2>5 DEF Current, PastDrop
  <2>7. QED
    BY <1>2, <2>1, <2>3, <2>6
<1>3. Copied(n, n, dir'[n][n])
  BY <1>1 DEF CopyStep
<1>4. QED
  BY <1>2, <1>3 DEF Copied

\* Every admitted copy after such a step is an admitted copy from before it.
LEMMA CopyStepFrom ==
  ASSUME TypeOK, CopyStep, NEW p \in Replica, NEW n \in Node, Current(dir[p][n])'
  PROVE  \E q \in Replica : dir'[p][n] = dir[q][n] /\ Current(dir[q][n])
<1>1. PICK q \in Replica : dir'[p][n] = dir[q][n]
  BY DEF CopyStep, Copied, Current
<1>2. dir[q][n] \in Record
  BY <1>1 DEF Current, TypeOK
<1>3. dir[q][n].cred.iat \in Nat
  BY <1>2 DEF Record, Cred
<1>4. ~(now' >= dir[q][n].cred.iat + TTL + GRACE)
  BY <1>1 DEF Current, PastDrop
<1>5. now \in Nat /\ now' \in Nat /\ now <= now'
  BY DEF TypeOK, CopyStep
<1>6. ~(now >= dir[q][n].cred.iat + TTL + GRACE)
  BY <1>3, <1>4, <1>5, Durations
<1>7. QED
  BY <1>1, <1>2, <1>6, NoneIsNoData DEF Current, PastDrop

LEMMA CopyStepOrder ==
  ASSUME TypeOK, OrderInv, CopyStep
  PROVE  OrderInv'
<1>1. IssuedInPast'
  <2> SUFFICES ASSUME NEW p \in Replica, NEW n \in Node, dir'[p][n] # None
               PROVE  dir'[p][n].cred.iat <= now'
    BY DEF IssuedInPast
  <2>1. PICK q \in Replica : dir'[p][n] = dir[q][n]
    BY DEF CopyStep, Copied
  <2>2. dir[q][n] \in Record /\ dir[q][n].cred.iat <= now
    BY <2>1 DEF TypeOK, OrderInv, IssuedInPast
  <2>3. dir[q][n].cred.iat \in Nat /\ now \in Nat
    BY <2>2 DEF Record, Cred, TypeOK
  <2>4. QED
    BY <2>1, <2>2, <2>3 DEF CopyStep
<1>2. OwnNewest'
  <2> SUFFICES ASSUME NEW p \in Replica, NEW n \in Node, Current(dir[p][n])'
               PROVE  /\ dir'[n][n] # None
                      /\ dir'[p][n].seq <= dir'[n][n].seq
                      /\ dir'[p][n].cred.iat <= dir'[n][n].cred.iat
                      /\ dir'[p][n].seq = dir'[n][n].seq => dir'[p][n] = dir'[n][n]
    BY DEF OwnNewest
  <2>1. PICK q \in Replica : dir'[p][n] = dir[q][n] /\ Current(dir[q][n])
    BY CopyStepFrom
  <2>2. /\ dir[n][n] # None
        /\ dir[q][n].seq <= dir[n][n].seq
        /\ dir[q][n].cred.iat <= dir[n][n].cred.iat
        /\ dir[q][n].seq = dir[n][n].seq => dir[q][n] = dir[n][n]
    BY <2>1 DEF OrderInv, OwnNewest
  <2>3. dir[q][n] \in Record /\ dir[n][n] \in Record
    BY <2>1, <2>2 DEF TypeOK, Current, Replica
  <2>4. Current(dir[n][n])
    <3>1. dir[q][n].cred.iat \in Nat /\ dir[n][n].cred.iat \in Nat /\ now \in Nat
      BY <2>3 DEF Record, Cred, TypeOK
    <3>2. ~(now >= dir[q][n].cred.iat + TTL + GRACE)
      BY <2>1 DEF Current, PastDrop
    <3>3. ~(now >= dir[n][n].cred.iat + TTL + GRACE)
      BY <2>2, <3>1, <3>2, Durations
    <3>4. QED
      BY <2>2, <3>3 DEF Current, PastDrop
  <2>5. dir'[n][n] = dir[n][n]
    BY <2>4, CopyStepOwn
  <2>6. QED
    BY <2>1, <2>2, <2>5
<1>3. SeqOrder'
  <2> SUFFICES ASSUME NEW p \in Replica, NEW q \in Replica, NEW n \in Node,
                      Current(dir[p][n])', Current(dir[q][n])'
               PROVE  /\ dir'[p][n].seq = dir'[q][n].seq => dir'[p][n] = dir'[q][n]
                      /\ dir'[p][n].seq < dir'[q][n].seq =>
                           dir'[p][n].cred.iat <= dir'[q][n].cred.iat
    BY DEF SeqOrder
  <2>1. PICK a \in Replica : dir'[p][n] = dir[a][n] /\ Current(dir[a][n])
    BY CopyStepFrom
  <2>2. PICK b \in Replica : dir'[q][n] = dir[b][n] /\ Current(dir[b][n])
    BY CopyStepFrom
  <2>3. QED
    BY <2>1, <2>2 DEF OrderInv, SeqOrder
<1>4. QED
  BY <1>1, <1>2, <1>3 DEF OrderInv

\* A replaced copy never gets an older credential.
LEMMA CopyStepNewer ==
  ASSUME TypeOK, OrderInv, CopyStep, NEW p \in Replica, NEW n \in Node,
         dir[p][n] # None, dir'[p][n] # None
  PROVE  dir'[p][n].cred.iat >= dir[p][n].cred.iat
<1>1. dir[p][n] \in Record /\ dir[p][n].cred.iat \in Nat
  BY DEF TypeOK, Record, Cred
<1>2. CASE dir'[p][n] = dir[p][n]
  BY <1>1, <1>2
<1>3. ASSUME NEW q \in Replica, dir'[p][n] = dir[q][n], Current(dir[q][n]),
             Current(dir[p][n]) => dir[q][n].seq > dir[p][n].seq
      PROVE  dir'[p][n].cred.iat >= dir[p][n].cred.iat
  <2>1. dir[q][n] \in Record /\ dir[q][n].cred.iat \in Nat /\ dir[q][n].seq \in Nat
    BY <1>3 DEF Current, TypeOK, Record, Cred
  <2>2. dir[p][n].seq \in Nat
    BY <1>1 DEF Record
  <2>3. CASE Current(dir[p][n])
    <3>1. dir[p][n].seq < dir[q][n].seq
      BY <1>3, <2>1, <2>2, <2>3
    <3>2. dir[p][n].cred.iat <= dir[q][n].cred.iat
      BY <1>3, <2>3, <3>1 DEF OrderInv, SeqOrder
    <3>3. QED
      BY <1>1, <1>3, <2>1, <3>2
  <2>4. CASE ~Current(dir[p][n])
    <3>1. /\ now >= dir[p][n].cred.iat + TTL + GRACE
          /\ ~(now >= dir[q][n].cred.iat + TTL + GRACE)
      BY <1>3, <2>4 DEF Current, PastDrop
    <3>2. QED
      BY <1>1, <1>3, <2>1, <3>1, Durations DEF TypeOK
  <2>5. QED
    BY <2>3, <2>4
<1>4. Copied(p, n, dir'[p][n])
  BY DEF CopyStep
<1>5. QED
  BY <1>2, <1>3, <1>4 DEF Copied

\* A node signs its next record, and the record may land at other replicas.
OwnStep(n, c) ==
  /\ now' = now
  /\ c \in Cred /\ c.iat <= now
  /\ dir'[n][n] = OwnRecord(n, c)
  /\ \A p \in Replica, k \in Node :
       \/ dir'[p][k] = dir[p][k]
       \/ /\ k = n /\ dir'[p][k] = OwnRecord(n, c)
          /\ dir[p][k] # None => dir[p][k].cred.iat <= c.iat

LEMMA OwnStepOrder ==
  ASSUME TypeOK, OrderInv, NEW n \in Node, NEW c, OwnStep(n, c),
         dir[n][n] # None => dir[n][n].cred.iat <= c.iat
  PROVE  OrderInv'
<1> DEFINE r == OwnRecord(n, c)
<1>1. r \in Record /\ r # None /\ r.cred = c
  <2>1. c \in Cred
    BY DEF OwnStep
  <2>2. r \in Record
    BY <2>1, OwnRecordType
  <2>3. QED
    BY <2>2, NoneIsNoData DEF OwnRecord
<1>2. ASSUME NEW p \in Replica, Current(dir[p][n])
      PROVE  dir[p][n].seq < r.seq /\ dir[p][n].cred.iat <= c.iat
  <2>1. /\ dir[n][n] # None
        /\ dir[p][n].seq <= dir[n][n].seq
        /\ dir[p][n].cred.iat <= dir[n][n].cred.iat
    BY <1>2 DEF OrderInv, OwnNewest
  <2>2. r.seq = dir[n][n].seq + 1
    BY <2>1 DEF OwnRecord, NextSeq
  <2>3. dir[n][n] \in Record /\ dir[p][n] \in Record
    BY <1>2, <2>1 DEF TypeOK, Current, Replica
  <2>4. /\ dir[n][n].seq \in Nat /\ dir[p][n].seq \in Nat
        /\ dir[n][n].cred.iat \in Nat /\ dir[p][n].cred.iat \in Nat /\ c.iat \in Nat
    BY <2>3 DEF Record, Cred, OwnStep
  <2>5. QED
    BY <2>1, <2>2, <2>4
<1>3. ASSUME NEW p \in Replica, NEW k \in Node, Current(dir[p][k])'
      PROVE  \/ dir'[p][k] = dir[p][k] /\ Current(dir[p][k])
             \/ k = n /\ dir'[p][k] = r
  BY <1>3 DEF OwnStep, Current, PastDrop
<1>4. ASSUME NEW k \in Node, k # n, NEW p \in Replica
      PROVE  dir'[p][k] = dir[p][k]
  BY <1>4 DEF OwnStep
<1>5. IssuedInPast'
  <2> SUFFICES ASSUME NEW p \in Replica, NEW k \in Node, dir'[p][k] # None
               PROVE  dir'[p][k].cred.iat <= now'
    BY DEF IssuedInPast
  <2>1. QED
    BY <1>1 DEF OwnStep, OrderInv, IssuedInPast
<1>6. OwnNewest'
  <2> SUFFICES ASSUME NEW p \in Replica, NEW k \in Node, Current(dir[p][k])'
               PROVE  /\ dir'[k][k] # None
                      /\ dir'[p][k].seq <= dir'[k][k].seq
                      /\ dir'[p][k].cred.iat <= dir'[k][k].cred.iat
                      /\ dir'[p][k].seq = dir'[k][k].seq => dir'[p][k] = dir'[k][k]
    BY DEF OwnNewest
  <2>1. CASE k # n
    <3>1. dir'[p][k] = dir[p][k] /\ dir'[k][k] = dir[k][k] /\ Current(dir[p][k])
      BY <1>3, <1>4, <2>1 DEF Replica
    <3>2. QED
      BY <3>1 DEF OrderInv, OwnNewest
  <2>2. CASE k = n /\ dir'[p][k] = r
    <3>1. r.seq \in Nat /\ r.cred.iat \in Nat
      BY <1>1 DEF Record, Cred
    <3>2. QED
      BY <1>1, <2>2, <3>1 DEF OwnStep
  <2>3. CASE k = n /\ dir'[p][k] = dir[p][k] /\ Current(dir[p][k])
    <3>1. dir[p][n].seq < r.seq /\ dir[p][n].cred.iat <= c.iat
      BY <1>2, <2>3
    <3>2. dir[p][n].seq \in Nat /\ r.seq \in Nat
      BY <1>1, <2>3 DEF TypeOK, Current, Record
    <3>3. QED
      BY <1>1, <2>3, <3>1, <3>2 DEF OwnStep
  <2>4. QED
    BY <1>3, <2>1, <2>2, <2>3
<1>7. SeqOrder'
  <2> SUFFICES ASSUME NEW p \in Replica, NEW q \in Replica, NEW k \in Node,
                      Current(dir[p][k])', Current(dir[q][k])'
               PROVE  /\ dir'[p][k].seq = dir'[q][k].seq => dir'[p][k] = dir'[q][k]
                      /\ dir'[p][k].seq < dir'[q][k].seq =>
                           dir'[p][k].cred.iat <= dir'[q][k].cred.iat
    BY DEF SeqOrder
  <2>1. \A a \in Replica : Current(dir[a][n]) =>
          dir[a][n].seq \in Nat /\ dir[a][n].seq < r.seq /\ dir[a][n].cred.iat <= c.iat
    BY <1>2 DEF TypeOK, Current, Record
  <2>2. r.seq \in Nat /\ c.iat \in Nat
    BY <1>1 DEF Record, Cred
  <2>3. CASE dir'[p][k] = dir[p][k] /\ Current(dir[p][k]) /\ dir'[q][k] = dir[q][k] /\ Current(dir[q][k])
    BY <2>3 DEF OrderInv, SeqOrder
  <2>4. CASE k = n /\ dir'[p][k] = r /\ dir'[q][k] = r
    BY <2>2, <2>4
  <2>5. CASE k = n /\ dir'[p][k] = r /\ dir'[q][k] = dir[q][k] /\ Current(dir[q][k])
    BY <2>1, <2>2, <2>5
  <2>6. CASE k = n /\ dir'[q][k] = r /\ dir'[p][k] = dir[p][k] /\ Current(dir[p][k])
    BY <1>1, <2>1, <2>2, <2>6
  <2>7. QED
    BY <1>3, <2>3, <2>4, <2>5, <2>6
<1>8. QED
  BY <1>5, <1>6, <1>7 DEF OrderInv

LEMMA OwnStepNewer ==
  ASSUME TypeOK, OrderInv, NEW n \in Node, NEW c, OwnStep(n, c),
         NEW p \in Replica, NEW k \in Node, dir[p][k] # None, dir'[p][k] # None
  PROVE  dir'[p][k].cred.iat >= dir[p][k].cred.iat
<1>1. dir[p][k].cred.iat \in Nat
  BY DEF TypeOK, Record, Cred
<1>2. c.iat \in Nat
  BY DEF OwnStep, Cred
<1>3. QED
  BY <1>1, <1>2 DEF OwnStep, OwnRecord

-----------------------------------------------------------------------------
(* Every step of Membership is one of the two kinds, or leaves the copies *)

\* A step that replaces one directory by copies.
LEMMA OneDirectory ==
  ASSUME TypeOK, NEW r \in Replica, NEW d, now' = now, dir' = [dir EXCEPT ![r] = d],
         \A n \in Node : Copied(r, n, d[n])
  PROVE  CopyStep
<1>1. now' \in Nat /\ now <= now'
  BY DEF TypeOK
<1>2. ASSUME NEW p \in Replica, NEW n \in Node PROVE Copied(p, n, dir'[p][n])
  <2>1. dir'[p] = IF p = r THEN d ELSE dir[p]
    BY DEF TypeOK
  <2>2. CASE p = r
    BY <2>1, <2>2
  <2>3. CASE p # r
    BY <2>1, <2>3 DEF Copied
  <2>4. QED
    BY <2>2, <2>3
<1>3. QED
  BY <1>1, <1>2 DEF CopyStep

\* The directory a pull leaves: pruned, merged and cleared of the dead.
LEMMA PulledIsCopied ==
  ASSUME TypeOK, NEW r \in Replica, NEW h \in Replica, NEW l, NEW n \in Node
  PROVE  Copied(r, n, DropDead(MergeDir(PruneStale(dir[r]), dir[h]), l, r)[n])
<1> DEFINE old  == PruneStale(dir[r])[n]
           recs == MergeDir(PruneStale(dir[r]), dir[h])
           new  == DropDead(recs, l, r)[n]
<1>1. old = dir[r][n] \/ (old = None /\ ~Current(dir[r][n]))
  BY DEF PruneStale, Current
<1>2. recs[n] = MergeRecord(old, dir[h][n])
  BY DEF MergeDir
<1>3. new = recs[n] \/ (new = None /\ n # r)
  BY DEF DropDead
<1>4. CASE new = None /\ n # r
  BY <1>4 DEF Copied
<1>5. CASE new = recs[n] /\ ~Accepts(old, dir[h][n])
  BY <1>1, <1>2, <1>5 DEF MergeRecord, Copied
<1>6. CASE new = recs[n] /\ Accepts(old, dir[h][n])
  <2>1. new = dir[h][n] /\ Current(dir[h][n])
    BY <1>2, <1>6 DEF MergeRecord, Accepts, Current
  <2>2. Current(dir[r][n]) => dir[h][n].seq > dir[r][n].seq
    BY <1>1, <1>6 DEF Accepts, Current
  <2>3. QED
    BY <2>1, <2>2 DEF Copied
<1>7. QED
  BY <1>3, <1>4, <1>5, <1>6

LEMMA PrunedIsCopied ==
  ASSUME NEW r \in Replica, NEW n \in Node
  PROVE  Copied(r, n, PruneStale(dir[r])[n])
BY DEF PruneStale, Copied, Current

\* The steps of the loops, of an operator and of the clock only copy.
LEMMA SyncCopies ==
  ASSUME TypeOK, NEW r \in Replica, NEW h \in Holder,
         \/ \E b \in BOOLEAN : Pull(r, h, b)
         \/ PullUnanswered(r) \/ Sweep(h) \/ Restart(r)
  PROVE  CopyStep
<1>1. h \in Replica
  BY DEF Replica
<1>2. ASSUME NEW b \in BOOLEAN, Pull(r, h, b) PROVE CopyStep
  <2> DEFINE mine  == Reread(r)
             heard == MergeLog(mine, IF h = r THEN mine ELSE log[h])
             d     == DropDead(MergeDir(PruneStale(dir[r]), dir[h]), PruneLog(heard), r)
  <2>1. dir' = [dir EXCEPT ![r] = d] /\ now' = now
    BY <1>2 DEF Pull
  <2>2. \A n \in Node : Copied(r, n, d[n])
    BY <1>1, PulledIsCopied
  <2> HIDE DEF d
  <2>3. QED
    BY <2>1, <2>2, OneDirectory
<1>3. CASE PullUnanswered(r) \/ Restart(r)
  <2>1. dir' = [dir EXCEPT ![r] = PruneStale(dir[r])] /\ now' = now
    BY <1>3 DEF PullUnanswered, Restart
  <2>2. QED
    BY <2>1, PrunedIsCopied, OneDirectory
<1>4. CASE Sweep(h)
  <2>1. dir' = [dir EXCEPT ![h] = PruneStale(dir[h])] /\ now' = now
    BY <1>4 DEF Sweep
  <2>2. QED
    BY <1>1, <2>1, PrunedIsCopied, OneDirectory
<1>5. QED
  BY <1>2, <1>3, <1>4

LEMMA PushCopies ==
  ASSUME TypeOK, NEW n \in Node, NEW h \in Holder, Push(n, h) \/ Leave(n, h)
  PROVE  CopyStep
<1>1. h \in Replica /\ n \in Replica /\ h # n
  BY Disjoint DEF Replica
<1>2. CASE Push(n, h)
  <2> DEFINE d == [dir[h] EXCEPT ![n] = MergeRecord(@, dir[n][n])]
  <2>1. dir' = [dir EXCEPT ![h] = d] /\ now' = now
    BY <1>2 DEF Push
  <2>2. ASSUME NEW k \in Node PROVE Copied(h, k, d[k])
    <3>1. d[k] = IF k = n THEN MergeRecord(dir[h][n], dir[n][n]) ELSE dir[h][k]
      BY <1>1 DEF TypeOK
    <3>2. CASE k = n /\ Accepts(dir[h][n], dir[n][n])
      BY <1>1, <3>1, <3>2 DEF MergeRecord, Accepts, Copied, Current
    <3>3. CASE ~(k = n /\ Accepts(dir[h][n], dir[n][n]))
      BY <3>1, <3>3 DEF MergeRecord, Copied
    <3>4. QED
      BY <3>2, <3>3
  <2> HIDE DEF d
  <2>3. QED
    BY <1>1, <2>1, <2>2, OneDirectory
<1>3. CASE Leave(n, h)
  <2> DEFINE d == [dir[h] EXCEPT ![n] = None]
  <2>1. dir' = [dir EXCEPT ![h] = d] /\ now' = now
    BY <1>3 DEF Leave
  <2>2. ASSUME NEW k \in Node PROVE Copied(h, k, d[k])
    BY <1>1 DEF TypeOK, Copied
  <2> HIDE DEF d
  <2>3. QED
    BY <1>1, <2>1, <2>2, OneDirectory
<1>4. QED
  BY <1>2, <1>3

LEMMA OtherCopies ==
  ASSUME TypeOK, NEW n \in Node, NEW h \in Holder,
         \/ OperatorStep(h, n) \/ RefuseUnknown(h) \/ Tick \/ UNCHANGED vars
         \/ \E name \in Name, caps \in Caps : \/ EnrollLost(h, n, name, caps)
                                              \/ EnrollRefused(h, n, name, caps)
         \/ \E name \in Name : RenewLost(n, h, name)
  PROVE  CopyStep
<1>1. dir' = dir /\ (now' = now \/ now' = now + 1)
  BY DEF OperatorStep, Revoke, SetCaps, RefuseUnknown, Tick, EnrollLost, EnrollRefused,
         RenewLost, vars
<1>2. now' \in Nat /\ now <= now'
  BY <1>1 DEF TypeOK
<1>3. QED
  BY <1>1, <1>2 DEF CopyStep, Copied

\* The steps in which a node signs a record: nothing anywhere is newer.
LEMMA EnrollIsOwnStep ==
  ASSUME TypeOK, OrderInv, NEW h \in Holder, NEW n \in Node,
         NEW name \in Name, NEW caps \in Caps, NEW landed \in BOOLEAN,
         Enroll(h, n, name, caps, landed)
  PROVE  /\ OwnStep(n, NewCred(name, caps))
         /\ dir[n][n] # None => dir[n][n].cred.iat <= NewCred(name, caps).iat
<1> DEFINE c == NewCred(name, caps)
           r == OwnRecord(n, c)
<1>1. h \in Replica /\ n \in Replica /\ h # n
  BY Disjoint DEF Replica
<1>2. c \in Cred /\ c.iat = now /\ now \in Nat
  BY NewCredType DEF NewCred, TypeOK
<1>3. \A p \in Replica, k \in Node : dir[p][k] # None => dir[p][k].cred.iat <= c.iat
  BY <1>2 DEF OrderInv, IssuedInPast
<1> HIDE DEF c, r
<1>4. now' = now
  BY DEF Enroll
<1>5. dir' = IF landed
             THEN [dir EXCEPT ![n][n] = r, ![h][n] = MergeRecord(@, r)]
             ELSE [dir EXCEPT ![n][n] = r]
  BY DEF Enroll, c, r
<1>6. dir'[n][n] = r
  BY <1>1, <1>5 DEF TypeOK
<1>7. ASSUME NEW p \in Replica, NEW k \in Node
      PROVE  dir'[p][k] = dir[p][k] \/ (k = n /\ dir'[p][k] = r)
  BY <1>1, <1>5, <1>7 DEF TypeOK, MergeRecord
<1>8. OwnStep(n, c)
  BY <1>2, <1>3, <1>4, <1>6, <1>7 DEF OwnStep, r
<1>9. QED
  BY <1>1, <1>3, <1>8 DEF c

LEMMA RenewIsOwnStep ==
  ASSUME TypeOK, OrderInv, NEW h \in Holder, NEW n \in Node, NEW name \in Name,
         Renew(n, h, name)
  PROVE  /\ OwnStep(n, RenewedCred(h, n, name))
         /\ dir[n][n] # None => dir[n][n].cred.iat <= RenewedCred(h, n, name).iat
<1> DEFINE c == RenewedCred(h, n, name)
<1>1. n \in Replica
  BY DEF Replica
<1>2. c \in Cred /\ c.iat = now /\ now \in Nat
  BY RenewedCredType DEF RenewedCred, NewCred, TypeOK, Renew, Renewable
<1>3. \A p \in Replica, k \in Node : dir[p][k] # None => dir[p][k].cred.iat <= c.iat
  BY <1>2 DEF OrderInv, IssuedInPast
<1>4. dir' = [dir EXCEPT ![n][n] = OwnRecord(n, c)] /\ now' = now
  BY DEF Renew
<1> HIDE DEF c
<1>5. OwnStep(n, c)
  BY <1>1, <1>2, <1>3, <1>4 DEF OwnStep, TypeOK
<1>6. QED
  BY <1>1, <1>3, <1>5 DEF c

LEMMA RepublishIsOwnStep ==
  ASSUME TypeOK, OrderInv, NEW n \in Node, Republish(n)
  PROVE  OwnStep(n, dir[n][n].cred) /\ dir[n][n].cred.iat <= dir[n][n].cred.iat
<1>1. n \in Replica /\ dir[n][n] \in Record
  BY DEF Replica, Republish, TypeOK
<1>2. dir[n][n].cred \in Cred /\ dir[n][n].cred.iat \in Nat
  BY <1>1 DEF Record, Cred
<1>3. dir[n][n].cred.iat <= now
  BY <1>1 DEF OrderInv, IssuedInPast, Republish
<1>4. dir' = [dir EXCEPT ![n][n] = OwnRecord(n, dir[n][n].cred)] /\ now' = now
  BY DEF Republish
<1>5. OwnStep(n, dir[n][n].cred)
  BY <1>1, <1>2, <1>3, <1>4 DEF OwnStep, TypeOK
<1>6. QED
  BY <1>2, <1>5

LEMMA NextKinds ==
  ASSUME TypeOK, OrderInv, [Next]_vars
  PROVE  \/ CopyStep
         \/ \E n \in Node, c \in Cred :
               OwnStep(n, c) /\ (dir[n][n] # None => dir[n][n].cred.iat <= c.iat)
<1>1. ASSUME NEW n \in Node, NEW c, OwnStep(n, c) PROVE c \in Cred
  BY <1>1 DEF OwnStep
<1>2. ASSUME NEW h \in Holder, NEW n \in Node, DoorStep(h, n)
      PROVE  \/ CopyStep
             \/ \E c \in Cred : OwnStep(n, c) /\ (dir[n][n] # None => dir[n][n].cred.iat <= c.iat)
  <2>1. PICK name \in Name, caps \in Caps :
          \/ \E landed \in BOOLEAN : Enroll(h, n, name, caps, landed)
          \/ EnrollLost(h, n, name, caps) \/ EnrollRefused(h, n, name, caps)
    BY <1>2 DEF DoorStep
  <2>2. CASE \E landed \in BOOLEAN : Enroll(h, n, name, caps, landed)
    BY <1>1, <2>2, EnrollIsOwnStep
  <2>3. CASE EnrollLost(h, n, name, caps) \/ EnrollRefused(h, n, name, caps)
    BY <2>3, OtherCopies
  <2>4. QED
    BY <2>1, <2>2, <2>3
<1>3. ASSUME NEW h \in Holder, NEW n \in Node, NodeStep(n, h)
      PROVE  \/ CopyStep
             \/ \E c \in Cred : OwnStep(n, c) /\ (dir[n][n] # None => dir[n][n].cred.iat <= c.iat)
  <2>1. CASE \E name \in Name : Renew(n, h, name)
    BY <1>1, <2>1, RenewIsOwnStep
  <2>2. CASE \E name \in Name : RenewLost(n, h, name)
    BY <2>2, OtherCopies
  <2>3. CASE Push(n, h) \/ Leave(n, h)
    BY <2>3, PushCopies
  <2>4. QED
    BY <1>3, <2>1, <2>2, <2>3 DEF NodeStep
<1>4. ASSUME NEW n \in Node, Republish(n)
      PROVE  \E c \in Cred : OwnStep(n, c) /\ (dir[n][n] # None => dir[n][n].cred.iat <= c.iat)
  BY <1>1, <1>4, RepublishIsOwnStep
<1>5. ASSUME NEW r \in Syncing, SyncStep(r) PROVE CopyStep
  <2>1. r \in Replica /\ Seed[r] \in Holder
    BY Bounds, SeedType DEF Replica
  <2>2. QED
    BY <1>5, <2>1, SyncCopies DEF SyncStep
<1>6. ASSUME NEW r \in Replica, Restart(r) PROVE CopyStep
  <2>1. Seed[r] \in Holder
    BY SeedType DEF Replica
  <2>2. QED
    BY <1>6, <2>1, SyncCopies
<1>7. ASSUME NEW h \in Holder, Sweep(h) PROVE CopyStep
  BY <1>7, SyncCopies DEF Replica
<1>8. ASSUME NEW h \in Holder, RefuseUnknown(h) PROVE CopyStep
  <2>1. dir' = dir /\ now' = now /\ now \in Nat
    BY <1>8 DEF RefuseUnknown, TypeOK
  <2>2. QED
    BY <2>1 DEF CopyStep, Copied
<1>9. CASE Tick \/ UNCHANGED vars
  <2>1. dir' = dir /\ (now' = now \/ now' = now + 1) /\ now \in Nat
    BY <1>9 DEF Tick, vars, TypeOK
  <2>2. QED
    BY <2>1 DEF CopyStep, Copied
<1>10. ASSUME NEW h \in Holder, NEW n \in Node, OperatorStep(h, n) PROVE CopyStep
  BY <1>10, OtherCopies
<1>11. QED
  BY <1>2, <1>3, <1>4, <1>5, <1>6, <1>7, <1>8, <1>9, <1>10 DEF Next

LEMMA OrderNext ==
  ASSUME TypeOK, OrderInv, [Next]_vars
  PROVE  OrderInv'
BY NextKinds, CopyStepOrder, OwnStepOrder

LEMMA NewerNext ==
  ASSUME TypeOK, OrderInv, [Next]_vars, NEW p \in Replica, NEW n \in Node,
         dir[p][n] # None, dir'[p][n] # None
  PROVE  dir'[p][n].cred.iat >= dir[p][n].cred.iat
BY NextKinds, CopyStepNewer, OwnStepNewer

\* The copies of a record the fleet admits are ordered by seq as by the age
\* of their credential, for every fleet: dropping one's own record past the
\* deadline and starting again at seq 1 is safe, for no older copy is then
\* admitted anywhere.
THEOREM CopiesOrdered == Spec => []SeqOrder
<1>1. TypeOK /\ OrderInv /\ [Next]_vars => (TypeOK /\ OrderInv)'
  BY TypeNext, OrderNext
<1>2. OrderInv => SeqOrder
  BY DEF OrderInv
<1>3. Init => TypeOK /\ OrderInv
  BY TypeInit, OrderInit
<1>4. QED
  BY <1>1, <1>2, <1>3, PTL DEF Spec

\* Comparing seq alone never takes a directory back to an older credential.
THEOREM DirectoryNeverOlder == Spec => NeverOlder
<1> DEFINE Newer == \A r \in Replica, n \in Node :
                      dir[r][n] # None /\ dir'[r][n] # None =>
                        dir'[r][n].cred.iat >= dir[r][n].cred.iat
<1>1. TypeOK /\ OrderInv /\ [Next]_vars => (TypeOK /\ OrderInv)'
  BY TypeNext, OrderNext
<1>2. TypeOK /\ OrderInv /\ [Next]_vars => Newer
  BY NewerNext
<1>3. Init => TypeOK /\ OrderInv
  BY TypeInit, OrderInit
<1> HIDE DEF Newer
<1>4. Spec => [][Newer]_vars
  BY <1>1, <1>2, <1>3, PTL DEF Spec
<1>5. QED
  BY <1>4 DEF NeverOlder, Newer

-----------------------------------------------------------------------------
(***************************************************************************)
(* What one holder with a reliable daemon knows of its members: the        *)
(* registry is exactly the overlay and the directory, and names are        *)
(* exclusive as long as no tombstone goes before what it kills.            *)
(***************************************************************************)

\* One node holds the anchor file; replies arrive, peers install, the daemon
\* does not restart, and decisions about one node fall into distinct seconds.
OneHolder == \A g, h \in Holder : g = h
Reliable == Faults \subseteq {"flaky"}
Steady == OneHolder /\ Reliable

\* What statements.py says of a pruned tombstone, for every copy.
Outlasts ==
  \A h \in Holder, n \in Node : log[h].tomb[n] > 0 /\ log'[h].tomb[n] = 0 =>
     \A q \in Replica : dir[q][n] # None /\ IsDead(log[h], n, dir[q][n].cred.iat)
                          => PastDrop(dir[q][n].cred)
TombstonesOutlast == [][Outlasts]_vars

-----------------------------------------------------------------------------
(* The invariant *)

\* Every decision about n is of its last second at most, and not of the future.
Dated == \A n \in Node :
  /\ last[n] <= now
  /\ cred[n] # None => cred[n].iat <= last[n]
  /\ \A h \in Holder : log[h].tomb[n] <= last[n] /\ file[h].tomb[n] <= last[n]

\* A node's own record carries its credential, and goes only past the deadline.
OwnIsCred == \A n \in Node :
  /\ dir[n][n] # None => cred[n] # None /\ dir[n][n].cred = cred[n]
  /\ dir[n][n] = None /\ cred[n] # None => PastDrop(cred[n])

\* A holder has nothing newer of n than n itself, and nothing else of that second.
NoneNewer == \A h \in Holder, n \in Node :
  /\ dir[h][n] # None =>
       /\ cred[n] # None
       /\ dir[h][n].cred.iat <= cred[n].iat
       /\ dir[h][n].cred.iat = cred[n].iat => dir[h][n].cred = cred[n]
  /\ recent[h][n] # None => recent[h][n] = cred[n]

\* Nobody ended the membership of n.
Member(n) == cred[n] # None /\ n \notin gone \cup revoked

Registered == \A h \in Holder, n \in Node :
  Member(n) /\ ~Expired(cred[n]) =>
     \/ recent[h][n] = cred[n]
     \/ dir[h][n] # None /\ dir[h][n].cred = cred[n]

\* No tombstone touches the present membership.
Spared == \A h \in Holder, n \in Node :
  Member(n) => log[h].tomb[n] < cred[n].iat /\ file[h].tomb[n] < cred[n].iat

RevokedKnown == \A h \in Holder : legacy[h] = revoked

Registry == Dated /\ OwnIsCred /\ NoneNewer /\ Registered /\ Spared /\ RevokedKnown

Base == TypeOK /\ Persisted /\ OrderInv

\* A departed node has no overlay entry, and its copies are dead or dropped.
Ended == \A h \in Holder, n \in Node : n \in gone =>
  /\ cred[n] # None /\ recent[h][n] = None
  /\ \/ cred[n].iat <= log[h].tomb[n]
     \/ PastDrop(cred[n]) /\ dir[h][n] = None

Claimants(h, name) == OverlayClaims(h, name) \cup RecordClaims(h, name)

Exclusive == \A h \in Holder, name \in Name : \A m, n \in Claimants(h, name) : m = n

-----------------------------------------------------------------------------
(* The two kinds of steps *)

\* n gets a credential from h: an enrollment or a renewal.
IssueStep(h, n, c) ==
  /\ c \in Cred /\ c.iat = now /\ last[n] < now
  /\ UNCHANGED <<now, log, file, legacy, revoked>>
  /\ cred' = [cred EXCEPT ![n] = c] /\ last' = [last EXCEPT ![n] = now]
  /\ recent' = Issued(h, n, c)
  /\ dir'[n][n] # None /\ dir'[n][n].cred = c
  /\ dir'[h][n] \in {dir[h][n], dir'[n][n]}
  /\ \A m \in Node \ {n} : dir'[h][m] = dir[h][m] /\ dir'[m][m] = dir[m][m]
  /\ gone' \in {gone, gone \ {n}}
  /\ n \in gone' => Known(h, n) # None
  /\ MayIssue(h, n, c.name)

\* What any other step does to the holder's and to n's own view of n.
OwnKept(n) ==
  \/ dir'[n][n] = dir[n][n]
  \/ dir'[n][n] = None /\ PastDrop(dir[n][n].cred)
  \/ dir[n][n] # None /\ dir'[n][n] # None /\ dir'[n][n].cred = dir[n][n].cred

Pushed(h, n) == /\ dir'[h][n] = dir[n][n] /\ dir[n][n] # None
                /\ ~Expired(dir[n][n].cred) /\ n \notin RevokedAt(h)

Dropped(h, n) == /\ dir'[h][n] = None
                 /\ \/ n \in gone' \/ PastDrop(dir[h][n].cred)
                    \/ dir[h][n].cred.iat <= log[h].tomb[n]
                    \/ dir[h][n].cred.iat <= file[h].tomb[n]

RecordKept(h, n) == dir'[h][n] = dir[h][n] \/ Dropped(h, n) \/ Pushed(h, n)

OverlayKept(h, n) == \/ recent'[h][n] \in {recent[h][n], Overlay(h)[n]}
                     \/ recent'[h][n] = None /\ dir'[h][n] = None /\ n \in gone'

TombKept(h, n) ==
  LET t == log[h].tomb[n]
      f == file[h].tomb[n]
      new == log'[h].tomb[n]
      left == n \in gone' /\ recent'[h][n] = None
  IN /\ new \in {t, f, 0} \/ (new = now /\ left /\ last'[n] = now)
     /\ \/ file'[h].tomb[n] \in {t, f, 0}
        \/ file'[h].tomb[n] = now /\ (left \/ n \in revoked') /\ last'[n] = now
     /\ \/ new >= t
        \/ new = 0 /\ (dir'[h][n] # None => dir'[h][n] = dir[h][n] /\ ~PastDrop(dir[h][n].cred))

QuietFor(h, n) ==
  /\ last'[n] \in {last[n], now}
  /\ OwnKept(n) /\ RecordKept(h, n) /\ OverlayKept(h, n) /\ TombKept(h, n)
  /\ n \in gone' \ gone => recent'[h][n] = None /\ log'[h].tomb[n] = now /\ cred[n] # None

QuietStep(h) ==
  /\ cred' = cred /\ now' \in Nat /\ now <= now'
  /\ gone \subseteq gone' /\ revoked \subseteq revoked' /\ legacy'[h] = revoked'
  /\ \A n \in Node : QuietFor(h, n)

-----------------------------------------------------------------------------
(* Facts of a state *)

LEMMA Typed ==
  ASSUME TypeOK, NEW h \in Holder, NEW n \in Node
  PROVE  /\ h \in Replica /\ n \in Replica /\ h # n
         /\ now \in Nat \ {0} /\ last[n] \in Nat /\ TTL \in Nat \ {0} /\ GRACE \in Nat
         /\ dir[h][n] \in Record \cup {None} /\ dir[n][n] \in Record \cup {None}
         /\ cred[n] \in Cred \cup {None} /\ recent[h][n] \in Cred \cup {None}
         /\ dir[h][n] # None => dir[h][n].cred \in Cred /\ dir[h][n].cred.iat \in Nat \ {0}
         /\ dir[n][n] # None => dir[n][n].cred \in Cred /\ dir[n][n].cred.iat \in Nat \ {0}
         /\ cred[n] # None => cred[n].iat \in Nat \ {0}
         /\ log[h].tomb[n] \in Nat /\ file[h].tomb[n] \in Nat
<1>1. h \in Replica /\ n \in Replica /\ h # n
  BY Disjoint DEF Replica
<1>2. log[h] \in Log /\ file[h] \in Log
  BY <1>1 DEF TypeOK
<1>3. log[h].tomb[n] \in Nat /\ file[h].tomb[n] \in Nat
  BY <1>2 DEF Log
<1>4. /\ dir[h][n] \in Record \cup {None} /\ dir[n][n] \in Record \cup {None}
      /\ cred[n] \in Cred \cup {None} /\ recent[h][n] \in Cred \cup {None}
      /\ now \in Nat \ {0} /\ last[n] \in Nat
  BY <1>1 DEF TypeOK
<1>5. /\ dir[h][n] # None => dir[h][n].cred \in Cred
      /\ dir[n][n] # None => dir[n][n].cred \in Cred
  BY <1>4 DEF Record
<1>6. \A c \in Cred : c.iat \in Nat \ {0}
  BY DEF Cred
<1> QED
  BY <1>1, <1>3, <1>4, <1>5, <1>6, Durations

LEMMA RevokedIsRevoked ==
  ASSUME Base, RevokedKnown, NEW h \in Holder
  PROVE  RevokedAt(h) = revoked
BY DEF Base, Persisted, RevokedKnown, RevokedAt, Replica

\* The registry of a member: its overlay entry, or its record, or both.
LEMMA MemberKnown ==
  ASSUME Base, Registry, NEW h \in Holder, NEW n \in Node, Member(n), ~Expired(cred[n])
  PROVE  /\ Known(h, n) = cred[n]
         /\ \/ Overlay(h)[n] = cred[n]
            \/ LiveRecord(h, n) /\ dir[h][n].cred = cred[n]
<1>1. n \notin RevokedAt(h)
  BY RevokedIsRevoked DEF Registry, Member
<1>2. Overlay(h)[n] = IF recent[h][n] # None /\ (CaughtUp(h, n) \/ Expired(recent[h][n]))
                      THEN None ELSE recent[h][n]
  BY DEF Overlay
<1>3. /\ cred[n] # None
      /\ recent[h][n] = cred[n] \/ (dir[h][n] # None /\ dir[h][n].cred = cred[n])
      /\ recent[h][n] # None => recent[h][n] = cred[n]
      /\ log[h].tomb[n] < cred[n].iat
  BY DEF Registry, Registered, NoneNewer, Spared, Member
<1>4. CASE Overlay(h)[n] # None
  BY <1>1, <1>2, <1>3, <1>4 DEF Known
<1>5. CASE Overlay(h)[n] = None
  <2>1. dir[h][n] # None /\ dir[h][n].cred = cred[n]
    <3>1. CASE recent[h][n] = cred[n]
      <4>1. dir[h][n] # None /\ dir[h][n].cred.iat >= cred[n].iat
        BY <1>2, <1>3, <1>5, <3>1 DEF CaughtUp
      <4>2. dir[h][n].cred.iat <= cred[n].iat
        BY <4>1 DEF Registry, NoneNewer
      <4>3. dir[h][n].cred.iat = cred[n].iat
        BY <1>3, <4>1, <4>2, Typed DEF Base
      <4> QED
        BY <4>1, <4>3 DEF Registry, NoneNewer
    <3> QED
      BY <1>3, <3>1
  <2>2. LiveRecord(h, n)
    BY <1>3, <2>1, Typed DEF Base, LiveRecord, IsDead
  <2> QED
    BY <1>1, <1>5, <2>1, <2>2 DEF Known
<1> QED
  BY <1>4, <1>5

LEMMA EndedUnknown ==
  ASSUME Base, Registry, Ended, NEW h \in Holder, NEW n \in Node, n \in gone
  PROVE  /\ Overlay(h)[n] = None /\ ~LiveRecord(h, n)
         /\ Known(h, n) = None
<1>1. Overlay(h)[n] = None
  BY DEF Ended, Overlay
<1>2. ~LiveRecord(h, n)
  <2> SUFFICES ASSUME dir[h][n] # None PROVE IsDead(log[h], n, dir[h][n].cred.iat)
    BY DEF LiveRecord
  <2>1. cred[n].iat <= log[h].tomb[n] /\ dir[h][n].cred.iat <= cred[n].iat /\ cred[n] # None
    BY DEF Ended, Registry, NoneNewer
  <2> QED
    BY <2>1, Typed DEF Base, IsDead
<1> QED
  BY <1>1, <1>2 DEF Known

-----------------------------------------------------------------------------
(* An issue keeps the invariant *)

LEMMA IssueRegistry ==
  ASSUME Base, Registry, TypeOK', OneHolder, NEW h \in Holder, NEW n \in Node, NEW c,
         IssueStep(h, n, c)
  PROVE  Registry'
<1>1. \A g \in Holder : g = h
  BY DEF OneHolder
<1>2. UNCHANGED <<now, log, file, legacy, revoked>> /\ c # None
  BY NoneIsNoData DEF IssueStep
<1>3. \A m \in Node : /\ cred'[m] = IF m = n THEN c ELSE cred[m]
                      /\ last'[m] = IF m = n THEN now ELSE last[m]
                      /\ recent'[h][m] = IF m = n THEN c ELSE Overlay(h)[m]
  BY ViewTypes DEF IssueStep, Issued, Base, TypeOK, Credentials
<1>4. c.iat = now /\ last[n] < now /\ now \in Nat
  BY DEF IssueStep, Base, TypeOK
<1>5. \A k : PastDrop(k)' = PastDrop(k) /\ Expired(k)' = Expired(k)
  BY <1>2 DEF PastDrop, Expired
<1>6. ASSUME NEW m \in Node \ {n}
      PROVE  /\ dir'[h][m] = dir[h][m] /\ dir'[m][m] = dir[m][m]
             /\ (m \in gone') = (m \in gone)
  BY DEF IssueStep
<1>7. ASSUME NEW m \in Node
      PROVE  /\ last[m] <= now /\ (cred[m] # None => cred[m].iat <= last[m])
             /\ log[h].tomb[m] <= last[m] /\ file[h].tomb[m] <= last[m]
             /\ last[m] \in Nat /\ log[h].tomb[m] \in Nat /\ file[h].tomb[m] \in Nat
             /\ cred[m] # None => cred[m].iat \in Nat
  BY Typed DEF Registry, Dated, Base
<1>8. Dated'
  BY <1>1, <1>2, <1>3, <1>4, <1>7 DEF Dated
<1>9. OwnIsCred'
  BY <1>2, <1>3, <1>5, <1>6 DEF OwnIsCred, Registry, IssueStep
<1>10. NoneNewer'
  <2>1. ASSUME NEW m \in Node
        PROVE  /\ dir'[h][m] # None =>
                    /\ cred'[m] # None
                    /\ dir'[h][m].cred.iat <= cred'[m].iat
                    /\ dir'[h][m].cred.iat = cred'[m].iat => dir'[h][m].cred = cred'[m]
               /\ recent'[h][m] # None => recent'[h][m] = cred'[m]
    <3>1. CASE m = n
      <4>1. dir'[h][n] = dir[h][n] \/ (dir'[h][n] # None /\ dir'[h][n].cred = c)
        BY DEF IssueStep
      <4>2. dir[h][n] # None => /\ cred[n] # None /\ dir[h][n].cred.iat \in Nat
                               /\ dir[h][n].cred.iat <= cred[n].iat
        BY Typed DEF Registry, NoneNewer, Base
      <4>3. dir[h][n] # None => dir[h][n].cred.iat < now
        BY <1>4, <1>7, <4>2
      <4> QED
        BY <1>2, <1>3, <1>4, <3>1, <4>1, <4>2, <4>3
    <3>2. CASE m # n
      BY <1>3, <1>6, <3>2 DEF Registry, NoneNewer, Overlay
    <3> QED
      BY <3>1, <3>2
  <2> QED
    BY <1>1, <2>1 DEF NoneNewer
<1>11. Registered'
  <2>1. ASSUME NEW m \in Node, Member(m)', ~Expired(cred'[m])
        PROVE  \/ recent'[h][m] = cred'[m]
               \/ dir'[h][m] # None /\ dir'[h][m].cred = cred'[m]
    <3>1. CASE m = n
      BY <1>3, <3>1
    <3>2. CASE m # n
      <4>1. Member(m) /\ ~Expired(cred[m]) /\ cred'[m] = cred[m]
        BY <1>2, <1>3, <1>5, <1>6, <2>1, <3>2 DEF Member
      <4>2. Overlay(h)[m] = cred[m] \/ (LiveRecord(h, m) /\ dir[h][m].cred = cred[m])
        BY <4>1, MemberKnown
      <4> QED
        BY <1>3, <1>6, <3>2, <4>1, <4>2 DEF LiveRecord
    <3> QED
      BY <3>1, <3>2
  <2> QED
    BY <1>1, <1>5, <2>1 DEF Registered
<1>12. Spared'
  <2>1. ASSUME NEW m \in Node, Member(m)'
        PROVE  log[h].tomb[m] < cred'[m].iat /\ file[h].tomb[m] < cred'[m].iat
    <3>1. CASE m = n
      BY <1>3, <1>4, <1>7, <3>1
    <3>2. CASE m # n
      BY <1>2, <1>3, <1>6, <2>1, <3>2 DEF Member, Registry, Spared
    <3> QED
      BY <3>1, <3>2
  <2> QED
    BY <1>1, <1>2, <2>1 DEF Spared
<1>13. RevokedKnown'
  BY <1>2 DEF RevokedKnown, Registry
<1> QED
  BY <1>8, <1>9, <1>10, <1>11, <1>12, <1>13 DEF Registry

LEMMA IssueEnded ==
  ASSUME Base, Registry, Ended, OneHolder, NEW h \in Holder, NEW n \in Node, NEW c,
         IssueStep(h, n, c)
  PROVE  Ended'
<1> SUFFICES ASSUME NEW m \in Node, m \in gone'
             PROVE  /\ cred'[m] # None /\ recent'[h][m] = None
                    /\ \/ cred'[m].iat <= log'[h].tomb[m]
                       \/ PastDrop(cred[m])' /\ dir'[h][m] = None
  <2>1. \A g \in Holder : g = h
    BY DEF OneHolder
  <2> QED
    BY <2>1 DEF Ended
<1>1. m \in gone
  BY DEF IssueStep
<1>2. m # n
  BY <1>1, EndedUnknown DEF IssueStep
<1>3. /\ cred'[m] = cred[m] /\ dir'[h][m] = dir[h][m] /\ UNCHANGED <<now, log>>
      /\ recent'[h][m] = Overlay(h)[m]
  BY <1>2, ViewTypes DEF IssueStep, Issued, Base, TypeOK, Credentials
<1>4. Overlay(h)[m] = None
  BY <1>1, EndedUnknown
<1>5. /\ cred[m] # None
      /\ cred[m].iat <= log[h].tomb[m] \/ (PastDrop(cred[m]) /\ dir[h][m] = None)
  BY <1>1 DEF Ended
<1>6. PastDrop(cred[m]) = PastDrop(cred[m])'
  BY <1>3 DEF PastDrop
<1> QED
  BY <1>3, <1>4, <1>5, <1>6

LEMMA IssueExclusive ==
  ASSUME Base, Registry, Exclusive, OneHolder, NEW h \in Holder, NEW n \in Node, NEW c,
         IssueStep(h, n, c)
  PROVE  Exclusive'
<1>1. UNCHANGED <<now, log, legacy>> /\ c \in Cred /\ c.name \in Name
  BY DEF IssueStep, Cred
<1>2. \A m \in Node : recent'[h][m] = IF m = n THEN c ELSE Overlay(h)[m]
  BY ViewTypes DEF IssueStep, Issued, Base, TypeOK, Credentials
<1>3. RevokedAt(h)' = RevokedAt(h)
  BY <1>1 DEF RevokedAt
\* The only new claim is n's claim to its new name.
<1>4. ASSUME NEW name \in Name, NEW m \in Claimants(h, name)'
      PROVE  m \in Claimants(h, name) \/ (m = n /\ name = c.name)
  <2>1. m \in Node \ RevokedAt(h)
    BY <1>3, <1>4 DEF Claimants, OverlayClaims, RecordClaims
  <2>2. CASE m \in OverlayClaims(h, name)'
    <3>1. recent'[h][m] # None /\ recent'[h][m].name = name
      BY <2>1, <2>2 DEF OverlayClaims, Overlay
    <3> QED
      BY <1>2, <2>1, <3>1 DEF Claimants, OverlayClaims
  <2>3. CASE m \in RecordClaims(h, name)'
    <3>1. /\ dir'[h][m] # None /\ ~IsDead(log[h], m, dir'[h][m].cred.iat)
          /\ dir'[h][m].cred.name = name
      BY <1>1, <2>3 DEF RecordClaims, LiveRecord, IsDead
    <3>2. CASE dir'[h][m] = dir[h][m]
      BY <2>1, <3>1, <3>2 DEF Claimants, RecordClaims, LiveRecord
    <3>3. CASE dir'[h][m] # dir[h][m]
      BY <2>1, <3>1, <3>3 DEF IssueStep
    <3> QED
      BY <3>2, <3>3
  <2> QED
    BY <1>4, <2>2, <2>3 DEF Claimants
\* CA.issue signs only for the sole claimant, if there is one.
<1>5. \A m \in Claimants(h, c.name) : m = n
  <2>1. Owners(h, c.name) \subseteq {n} \/ n \in Owners(h, c.name)
    BY DEF IssueStep, MayIssue
  <2>2. \A k, m \in Claimants(h, c.name) : k = m
    BY <1>1 DEF Exclusive
  <2> QED
    BY <2>1, <2>2 DEF Owners, Claimants
<1> QED
  BY <1>4, <1>5 DEF Exclusive, OneHolder

-----------------------------------------------------------------------------
(* A quiet step keeps the invariant *)

\* What is past a deadline stays past it.
LEMMA ClockForward ==
  ASSUME TypeOK, now' \in Nat, now <= now', NEW i \in Nat
  PROVE  /\ now >= i + TTL + GRACE => now' >= i + TTL + GRACE /\ now >= i + TTL
         /\ now >= i + TTL => now' >= i + TTL
<1>1. now \in Nat /\ TTL \in Nat /\ GRACE \in Nat
  BY Durations DEF TypeOK
<1> QED
  BY <1>1

LEMMA DeadlinesForward ==
  ASSUME Base, Registry, NEW h \in Holder, QuietStep(h), NEW n \in Node, cred[n] # None
  PROVE  /\ PastDrop(cred[n]) => PastDrop(cred[n])' /\ Expired(cred[n])
         /\ Expired(cred[n]) => Expired(cred[n])'
<1>1. cred'[n] = cred[n] /\ now' \in Nat /\ now <= now' /\ cred[n].iat \in Nat
  BY Typed DEF QuietStep, Base
<1> QED
  BY <1>1, ClockForward DEF PastDrop, Expired, Base

LEMMA QuietRegistry ==
  ASSUME Base, Registry, OneHolder, NEW h \in Holder, QuietStep(h)
  PROVE  Registry'
<1>1. \A g \in Holder : g = h
  BY DEF OneHolder
<1>2. /\ cred' = cred /\ now' \in Nat /\ now <= now' /\ legacy'[h] = revoked'
      /\ gone \subseteq gone' /\ revoked \subseteq revoked'
      /\ \A n \in Node : QuietFor(h, n)
  BY DEF QuietStep
<1>3. ASSUME NEW n \in Node
      PROVE  /\ now \in Nat /\ last[n] \in Nat /\ log[h].tomb[n] \in Nat /\ file[h].tomb[n] \in Nat
             /\ last[n] <= now /\ (cred[n] # None => cred[n].iat <= last[n] /\ cred[n].iat \in Nat \ {0})
             /\ log[h].tomb[n] <= last[n] /\ file[h].tomb[n] <= last[n]
             /\ last'[n] \in {last[n], now}
  BY <1>2, Typed DEF Registry, Dated, Base, QuietFor
<1>4. ASSUME NEW n \in Node
      PROVE  /\ log'[h].tomb[n] \in {log[h].tomb[n], file[h].tomb[n], 0}
                \/ (log'[h].tomb[n] = now /\ n \in gone' /\ last'[n] = now)
             /\ file'[h].tomb[n] \in {log[h].tomb[n], file[h].tomb[n], 0}
                \/ (file'[h].tomb[n] = now /\ n \in gone' \cup revoked' /\ last'[n] = now)
  BY <1>2 DEF QuietFor, TombKept
<1>5. Dated'
  <2>1. ASSUME NEW n \in Node
        PROVE  /\ last'[n] <= now' /\ (cred'[n] # None => cred'[n].iat <= last'[n])
               /\ log'[h].tomb[n] <= last'[n] /\ file'[h].tomb[n] <= last'[n]
    <3>1. last'[n] <= now' /\ last[n] <= last'[n] /\ last'[n] \in Nat
      BY <1>2, <1>3
    <3>2. cred[n] # None => cred[n].iat <= last'[n]
      BY <1>3, <3>1
    <3>3. log'[h].tomb[n] <= last'[n] /\ file'[h].tomb[n] <= last'[n]
      BY <1>3, <1>4, <3>1
    <3> QED
      BY <1>2, <3>1, <3>2, <3>3
  <2> QED
    BY <1>1, <2>1 DEF Dated
<1>6. OwnIsCred'
  <2>1. ASSUME NEW n \in Node
        PROVE  /\ dir'[n][n] # None => cred'[n] # None /\ dir'[n][n].cred = cred'[n]
               /\ dir'[n][n] = None /\ cred'[n] # None => PastDrop(cred[n])'
    <3>1. /\ dir[n][n] # None => cred[n] # None /\ dir[n][n].cred = cred[n]
          /\ dir[n][n] = None /\ cred[n] # None => PastDrop(cred[n])
      BY DEF Registry, OwnIsCred
    <3>2. OwnKept(n)
      BY <1>2 DEF QuietFor
    <3> QED
      BY <1>2, <3>1, <3>2, DeadlinesForward DEF OwnKept
  <2> QED
    BY <2>1 DEF OwnIsCred
<1>7. NoneNewer'
  <2>1. ASSUME NEW n \in Node
        PROVE  /\ dir'[h][n] # None =>
                    /\ cred'[n] # None
                    /\ dir'[h][n].cred.iat <= cred'[n].iat
                    /\ dir'[h][n].cred.iat = cred'[n].iat => dir'[h][n].cred = cred'[n]
               /\ recent'[h][n] # None => recent'[h][n] = cred'[n]
    <3>1. dir'[h][n] \in {dir[h][n], dir[n][n], None}
      BY <1>2 DEF QuietFor, RecordKept, Dropped, Pushed
    <3>2. recent'[h][n] \in {recent[h][n], None}
      BY <1>2 DEF QuietFor, OverlayKept, Overlay
    <3>3. dir[n][n] # None => cred[n] # None /\ dir[n][n].cred = cred[n]
      BY DEF Registry, OwnIsCred
    <3> QED
      BY <1>2, <1>3, <3>1, <3>2, <3>3 DEF Registry, NoneNewer
  <2> QED
    BY <1>1, <2>1 DEF NoneNewer
<1>8. Registered'
  <2>1. ASSUME NEW n \in Node, Member(n)', ~Expired(cred[n])'
        PROVE  \/ recent'[h][n] = cred'[n]
               \/ dir'[h][n] # None /\ dir'[h][n].cred = cred'[n]
    <3>1. Member(n) /\ n \notin gone'
      BY <1>2, <2>1 DEF Member
    <3>2. ~Expired(cred[n]) /\ ~PastDrop(cred[n])
      BY <2>1, <3>1, DeadlinesForward DEF Member
    <3>3. Overlay(h)[n] = cred[n] \/ (LiveRecord(h, n) /\ dir[h][n].cred = cred[n])
      BY <3>1, <3>2, MemberKnown
    <3>4. CASE Overlay(h)[n] = cred[n]
      <4>1. recent[h][n] = cred[n]
        BY <3>1, <3>4 DEF Overlay, Member
      <4> QED
        BY <1>2, <3>1, <3>4, <4>1 DEF QuietFor, OverlayKept
    <3>5. CASE LiveRecord(h, n) /\ dir[h][n].cred = cred[n]
      <4>1. dir[h][n] # None
        BY <3>5 DEF LiveRecord
      <4>2. ~Dropped(h, n)
        <5>1. /\ log[h].tomb[n] < cred[n].iat /\ file[h].tomb[n] < cred[n].iat
          BY <3>1 DEF Registry, Spared
        <5>2. /\ ~(cred[n].iat <= log[h].tomb[n])
              /\ ~(cred[n].iat <= file[h].tomb[n])
          BY <1>3, <3>1, <5>1 DEF Member
        <5> QED
          BY <3>1, <3>2, <3>5, <5>2 DEF Dropped
      <4>3. dir[n][n] # None => dir[n][n].cred = cred[n]
        BY DEF Registry, OwnIsCred
      <4> QED
        BY <1>2, <3>5, <4>1, <4>2, <4>3 DEF QuietFor, RecordKept, Pushed
    <3> QED
      BY <3>3, <3>4, <3>5
  <2> QED
    BY <1>1, <2>1 DEF Registered
<1>9. Spared'
  <2>1. ASSUME NEW n \in Node, Member(n)'
        PROVE  log'[h].tomb[n] < cred'[n].iat /\ file'[h].tomb[n] < cred'[n].iat
    <3>1. Member(n) /\ n \notin gone' \cup revoked'
      BY <1>2, <2>1 DEF Member
    <3>2. /\ log[h].tomb[n] < cred[n].iat /\ file[h].tomb[n] < cred[n].iat
      BY <3>1 DEF Registry, Spared
    <3>3. 0 < cred[n].iat
      BY <1>3, <3>1 DEF Member
    <3> QED
      BY <1>2, <1>4, <3>1, <3>2, <3>3
  <2> QED
    BY <1>1, <2>1 DEF Spared
<1>10. RevokedKnown'
  BY <1>1, <1>2 DEF RevokedKnown
<1> QED
  BY <1>5, <1>6, <1>7, <1>8, <1>9, <1>10 DEF Registry

LEMMA QuietEnded ==
  ASSUME Base, Registry, Ended, Outlasts, OneHolder, NEW h \in Holder, QuietStep(h)
  PROVE  Ended'
<1> SUFFICES ASSUME NEW n \in Node, n \in gone'
             PROVE  /\ cred'[n] # None /\ recent'[h][n] = None
                    /\ \/ cred'[n].iat <= log'[h].tomb[n]
                       \/ PastDrop(cred[n])' /\ dir'[h][n] = None
  <2>1. \A g \in Holder : g = h
    BY DEF OneHolder
  <2> QED
    BY <2>1 DEF Ended
<1>1. /\ cred' = cred
      /\ RecordKept(h, n) /\ OverlayKept(h, n) /\ TombKept(h, n)
      /\ n \notin gone => recent'[h][n] = None /\ log'[h].tomb[n] = now /\ cred[n] # None
  BY DEF QuietStep, QuietFor
<1>2. /\ now \in Nat /\ last[n] \in Nat /\ log[h].tomb[n] \in Nat /\ last[n] <= now
      /\ cred[n] # None => cred[n].iat <= last[n] /\ cred[n].iat \in Nat
      /\ dir[h][n] # None => dir[h][n].cred.iat \in Nat /\ dir[h][n].cred.iat <= cred[n].iat
      /\ dir[n][n] # None => dir[n][n].cred = cred[n]
      /\ dir[n][n] = None /\ cred[n] # None => PastDrop(cred[n])
      /\ n \in Replica /\ h \in Replica
  BY Typed DEF Registry, Dated, NoneNewer, OwnIsCred, Base
<1>3. CASE n \notin gone
  BY <1>1, <1>2, <1>3
<1>4. CASE n \in gone
  <2>1. /\ cred[n] # None /\ recent[h][n] = None
        /\ cred[n].iat <= log[h].tomb[n] \/ (PastDrop(cred[n]) /\ dir[h][n] = None)
    BY <1>4 DEF Ended
  <2>2. recent'[h][n] = None
    BY <1>1, <2>1 DEF OverlayKept, Overlay
  <2>3. PastDrop(cred[n]) => PastDrop(cred[n])' /\ Expired(cred[n])
    BY <2>1, DeadlinesForward
  <2>4. CASE cred[n].iat <= log[h].tomb[n] /\ log'[h].tomb[n] >= log[h].tomb[n]
    <3>1. log'[h].tomb[n] \in Nat
      BY <1>1, <1>2, Typed DEF TombKept, Base
    <3>2. cred[n].iat <= log'[h].tomb[n]
      BY <1>2, <2>1, <2>4, <3>1
    <3> QED
      BY <1>1, <2>1, <2>2, <3>2
  \* The tombstone is pruned: nothing it kills is left.
  <2>5. CASE cred[n].iat <= log[h].tomb[n] /\ ~(log'[h].tomb[n] >= log[h].tomb[n])
    <3>1. /\ log'[h].tomb[n] = 0
          /\ dir'[h][n] # None => dir'[h][n] = dir[h][n] /\ ~PastDrop(dir[h][n].cred)
      BY <1>1, <2>5 DEF TombKept
    <3>2. log[h].tomb[n] > 0
      BY <1>2, <2>5, <3>1
    <3>3. \A q \in Replica : dir[q][n] # None /\ IsDead(log[h], n, dir[q][n].cred.iat)
                               => PastDrop(dir[q][n].cred)
      BY <3>1, <3>2 DEF Outlasts
    <3>4. PastDrop(cred[n])
      BY <1>2, <2>1, <2>5, <3>2, <3>3 DEF IsDead
    <3>5. dir'[h][n] = None
      <4> SUFFICES ASSUME dir'[h][n] # None PROVE FALSE
        OBVIOUS
      <4>1. dir[h][n] # None /\ ~PastDrop(dir[h][n].cred)
        BY <3>1
      <4>2. dir[h][n].cred.iat <= log[h].tomb[n]
        BY <1>2, <2>1, <2>5, <4>1
      <4> QED
        BY <1>2, <3>2, <3>3, <4>1, <4>2 DEF IsDead
    <3> QED
      BY <1>1, <2>1, <2>2, <2>3, <3>4, <3>5
  <2>6. CASE PastDrop(cred[n]) /\ dir[h][n] = None
    <3>1. dir'[h][n] = None
      BY <1>1, <1>2, <2>3, <2>6 DEF RecordKept, Dropped, Pushed
    <3> QED
      BY <1>1, <2>1, <2>2, <2>3, <2>6, <3>1
  <2> QED
    BY <2>1, <2>4, <2>5, <2>6
<1> QED
  BY <1>3, <1>4

\* No step but an issue makes a claim to a name that was not there.
LEMMA QuietClaims ==
  ASSUME Base, Registry, Ended, Outlasts, NEW h \in Holder, QuietStep(h),
         RevokedAt(h)' = revoked', NEW name \in Name, NEW m \in Claimants(h, name)'
  PROVE  m \in Claimants(h, name)
<1>1. m \in Node \ RevokedAt(h)
  <2>1. m \in Node \ revoked'
    BY DEF Claimants, OverlayClaims, RecordClaims
  <2> QED
    BY <2>1, RevokedIsRevoked DEF QuietStep, Registry
<1>2. /\ cred' = cred
      /\ RecordKept(h, m) /\ OverlayKept(h, m) /\ TombKept(h, m)
  BY <1>1 DEF QuietStep, QuietFor
<1>3. m \notin revoked
  BY <1>1, RevokedIsRevoked DEF Registry
<1>4. log[h].tomb[m] \in Nat /\ log'[h].tomb[m] \in Nat /\ h \in Replica
  BY <1>1, <1>2, Typed DEF Base, TombKept
\* Whatever registers m under this credential, m claims its name.
<1>5. ASSUME cred[m] # None, m \notin gone, ~Expired(cred[m]), cred[m].name = name
      PROVE  m \in Claimants(h, name)
  BY <1>1, <1>3, <1>5, MemberKnown DEF Member, Claimants, OverlayClaims, RecordClaims
<1>6. CASE m \in OverlayClaims(h, name)'
  <2>1. recent'[h][m] # None /\ recent'[h][m].name = name
    BY <1>1, <1>6 DEF OverlayClaims, Overlay
  <2>2. recent'[h][m] \in {recent[h][m], Overlay(h)[m]}
    BY <1>2, <2>1 DEF OverlayKept
  <2>3. CASE recent'[h][m] = Overlay(h)[m]
    BY <1>1, <2>1, <2>3 DEF Claimants, OverlayClaims
  <2>4. CASE recent'[h][m] = recent[h][m]
    <3>1. recent[h][m] = cred[m] /\ cred[m] # None
      BY <1>1, <2>1, <2>4 DEF Registry, NoneNewer
    <3>2. m \notin gone
      BY <1>1, <2>1, <2>4 DEF Ended
    <3>3. ~Expired(cred[m])
      <4>1. ~Expired(recent[h][m])'
        BY <1>1, <1>6, <2>1 DEF OverlayClaims, Overlay
      <4>2. ~Expired(cred[m])'
        BY <1>2, <2>4, <3>1, <4>1 DEF Expired
      <4> QED
        BY <1>1, <3>1, <4>2, DeadlinesForward
    <3> QED
      BY <1>5, <2>1, <2>4, <3>1, <3>2, <3>3
  <2> QED
    BY <2>2, <2>3, <2>4
<1>7. CASE m \in RecordClaims(h, name)'
  <2>1. /\ dir'[h][m] # None /\ dir'[h][m].cred.name = name
        /\ ~IsDead(log'[h], m, dir'[h][m].cred.iat)
    BY <1>7 DEF RecordClaims, LiveRecord, IsDead
  <2>2. CASE dir'[h][m] = dir[h][m]
    <3>1. ~IsDead(log[h], m, dir[h][m].cred.iat)
      <4> SUFFICES ASSUME IsDead(log[h], m, dir[h][m].cred.iat) PROVE FALSE
        OBVIOUS
      <4>1. dir[h][m].cred.iat \in Nat
        BY <1>1, <2>1, <2>2, Typed DEF Base
      <4>2. log'[h].tomb[m] = 0 /\ ~PastDrop(dir[h][m].cred)
        BY <1>2, <1>4, <2>1, <2>2, <4>1 DEF TombKept, IsDead
      <4> QED
        BY <1>1, <1>4, <2>1, <2>2, <4>2 DEF Outlasts, IsDead
    <3> QED
      BY <1>1, <2>1, <2>2, <3>1 DEF Claimants, RecordClaims, LiveRecord
  <2>3. CASE dir'[h][m] # dir[h][m]
    <3>1. Pushed(h, m)
      BY <1>2, <2>1, <2>3 DEF RecordKept, Dropped
    <3>2. dir'[h][m].cred = cred[m] /\ cred[m] # None /\ ~Expired(cred[m])
      BY <1>1, <3>1 DEF Pushed, Registry, OwnIsCred
    <3>3. m \notin gone
      <4> SUFFICES ASSUME m \in gone PROVE FALSE
        OBVIOUS
      <4>1. cred[m].iat <= log[h].tomb[m] \/ PastDrop(cred[m])
        BY <1>1 DEF Ended
      <4>2. cred[m].iat <= log[h].tomb[m]
        BY <1>1, <3>2, <4>1, DeadlinesForward
      <4>3. log'[h].tomb[m] >= log[h].tomb[m]
        BY <1>2, <2>1, <2>3 DEF TombKept
      <4>4. cred[m].iat \in Nat \ {0}
        BY <1>1, <3>2, Typed DEF Base
      <4> QED
        BY <1>4, <2>1, <3>2, <4>2, <4>3, <4>4 DEF IsDead
    <3> QED
      BY <1>5, <2>1, <3>2, <3>3
  <2> QED
    BY <2>2, <2>3
<1> QED
  BY <1>6, <1>7 DEF Claimants

LEMMA QuietExclusive ==
  ASSUME Base, Registry, Ended, Exclusive, Outlasts, OneHolder, NEW h \in Holder, QuietStep(h),
         RevokedAt(h)' = revoked'
  PROVE  Exclusive'
<1>1. \A g \in Holder : g = h
  BY DEF OneHolder
<1>2. ASSUME NEW name \in Name, NEW m \in Claimants(h, name)', NEW n \in Claimants(h, name)'
      PROVE  m = n
  <2>1. m \in Claimants(h, name) /\ n \in Claimants(h, name)
    BY QuietClaims
  <2> QED
    BY <2>1 DEF Exclusive
<1> QED
  BY <1>1, <1>2 DEF Exclusive

-----------------------------------------------------------------------------
(* Every step is one or the other *)

LEMMA TombSame ==
  ASSUME Base, NEW h \in Holder, NEW n \in Node,
         log'[h].tomb[n] = log[h].tomb[n], file'[h].tomb[n] = file[h].tomb[n]
  PROVE  TombKept(h, n)
<1>1. log[h].tomb[n] \in Nat
  BY Typed DEF Base
<1> QED
  BY <1>1 DEF TombKept

LEMMA OwnCopied ==
  ASSUME Base, CopyStep, NEW n \in Node
  PROVE  OwnKept(n)
BY CopyStepOwn DEF Base, Current, OwnKept

\* Steps that touch no directory and no log of the daemon.
LEMMA IdleIsQuiet ==
  ASSUME Base, Registry, NEW h \in Holder, NEW g \in Holder, g = h, NEW k \in Node,
         \/ OperatorStep(g, k) \/ RefuseUnknown(g) \/ Tick \/ UNCHANGED vars
  PROVE  QuietStep(h)
<1>1. dir' = dir /\ log' = log /\ cred' = cred /\ gone' = gone
  BY DEF OperatorStep, Revoke, SetCaps, RefuseUnknown, Tick, vars
<1>2. now' \in Nat /\ now <= now'
  <2>1. now' = now \/ now' = now + 1
    BY DEF OperatorStep, Revoke, SetCaps, RefuseUnknown, Tick, vars
  <2> QED
    BY <2>1 DEF Base, TypeOK
<1>3. \A n \in Node : recent'[h][n] \in {recent[h][n], Overlay(h)[n]}
  BY DEF OperatorStep, Revoke, SetCaps, RefuseUnknown, Tick, vars, Base, TypeOK
<1>4. h \in Replica /\ file[h] \in Log /\ legacy[h] \in SUBSET Node
  BY DEF Base, TypeOK, Replica
<1>5. revoked \subseteq revoked' /\ legacy'[h] = revoked'
  BY <1>4 DEF OperatorStep, Revoke, SetCaps, RefuseUnknown, Tick, vars, Base, TypeOK,
              Registry, RevokedKnown
<1>6. ASSUME NEW n \in Node
      PROVE  last'[n] \in {last[n], now}
  BY DEF OperatorStep, Revoke, SetCaps, RefuseUnknown, Tick, vars, Base, TypeOK, Stamp
<1>7. ASSUME NEW n \in Node
      PROVE  \/ file'[h].tomb[n] = file[h].tomb[n]
             \/ file'[h].tomb[n] = now /\ n \in revoked' /\ last'[n] = now
  <2>1. CASE Revoke(g, k)
    <3>1. /\ file'[h] = AddTombstone(AddRevoke(file[h], k), k)
          /\ revoked' = revoked \cup {k} /\ last'[k] = now
      BY <1>4, <2>1 DEF Revoke, Stamp, Base, TypeOK
    <3>2. file'[h].tomb = [file[h].tomb EXCEPT ![k] = now]
      BY <1>4, <3>1 DEF AddTombstone, AddRevoke, Log
    <3> QED
      BY <1>4, <3>1, <3>2 DEF Log
  <2>2. CASE \E caps \in Caps : SetCaps(g, k, caps)
    <3>1. PICK caps \in Caps : file'[h] = AddSetCaps(file[h], k, caps)
      BY <1>4, <2>2 DEF SetCaps, Base, TypeOK
    <3> QED
      BY <1>4, <3>1 DEF AddSetCaps, Log
  <2>3. CASE RefuseUnknown(g) \/ Tick \/ UNCHANGED vars
    BY <2>3 DEF RefuseUnknown, Tick, vars
  <2> QED
    BY <2>1, <2>2, <2>3 DEF OperatorStep
<1>8. ASSUME NEW n \in Node
      PROVE  QuietFor(h, n)
  <2>1. log[h].tomb[n] \in Nat
    BY Typed DEF Base
  <2>2. TombKept(h, n)
    BY <1>1, <1>7, <2>1 DEF TombKept
  <2> QED
    BY <1>1, <1>3, <1>6, <2>2 DEF QuietFor, OwnKept, RecordKept, OverlayKept
<1> QED
  BY <1>1, <1>2, <1>5, <1>8 DEF QuietStep

LEMMA RepublishIsQuiet ==
  ASSUME Base, Registry, NEW h \in Holder, NEW k \in Node, Republish(k)
  PROVE  QuietStep(h)
<1>1. k \in Replica /\ h \in Replica /\ h # k
  BY Disjoint DEF Replica
<1>2. /\ UNCHANGED <<now, log, file, legacy, recent, cred, last, gone, revoked>>
      /\ dir[k][k] # None
      /\ dir' = [dir EXCEPT ![k][k] = OwnRecord(k, dir[k][k].cred)]
  BY DEF Republish
<1>3. OwnRecord(k, dir[k][k].cred) \in Record
  <2>1. dir[k][k].cred \in Cred
    BY <1>1, <1>2 DEF Base, TypeOK, Record
  <2> QED
    BY <2>1, OwnRecordType DEF Base
<1>4. dir'[k][k] # None /\ dir'[k][k].cred = dir[k][k].cred
  BY <1>1, <1>2, <1>3, NoneIsNoData DEF Base, TypeOK, OwnRecord
<1>5. ASSUME NEW n \in Node
      PROVE  QuietFor(h, n)
  <2>1. dir'[h][n] = dir[h][n] /\ (n # k => dir'[n][n] = dir[n][n])
    BY <1>1, <1>2 DEF Base, TypeOK, Replica
  <2>2. OwnKept(n)
    BY <1>2, <1>4, <2>1 DEF OwnKept
  <2>3. TombKept(h, n)
    BY <1>2, TombSame
  <2> QED
    BY <1>2, <2>1, <2>2, <2>3 DEF QuietFor, RecordKept, OverlayKept
<1>6. legacy'[h] = revoked'
  BY <1>2 DEF Registry, RevokedKnown
<1>7. now' = now /\ now \in Nat
  BY <1>2 DEF Base, TypeOK
<1> QED
  BY <1>2, <1>5, <1>6, <1>7 DEF QuietStep

LEMMA PushIsQuiet ==
  ASSUME Base, Registry, NEW h \in Holder, NEW k \in Node, Push(k, h)
  PROVE  QuietStep(h)
<1>1. k \in Replica /\ h \in Replica /\ h # k
  BY Disjoint DEF Replica
<1>2. /\ UNCHANGED <<now, log, file, legacy, recent, cred, last, gone, revoked>>
      /\ dir[k][k] # None /\ ~Expired(dir[k][k].cred) /\ k \notin RevokedAt(h)
      /\ dir' = [dir EXCEPT ![h][k] = MergeRecord(dir[h][k], dir[k][k])]
  BY DEF Push
<1>3. CopyStep
  BY PushCopies DEF Base
<1>4. ASSUME NEW n \in Node
      PROVE  QuietFor(h, n)
  <2>1. dir'[h][n] = IF n = k THEN MergeRecord(dir[h][k], dir[k][k]) ELSE dir[h][n]
    BY <1>1, <1>2 DEF Base, TypeOK
  <2>2. RecordKept(h, n)
    BY <1>2, <2>1 DEF RecordKept, Pushed, MergeRecord
  <2>3. TombKept(h, n)
    BY <1>2, TombSame
  <2> QED
    BY <1>2, <1>3, <2>2, <2>3, OwnCopied DEF QuietFor, OverlayKept
<1>5. legacy'[h] = revoked'
  BY <1>2 DEF Registry, RevokedKnown
<1>6. now' = now /\ now \in Nat
  BY <1>2 DEF Base, TypeOK
<1> QED
  BY <1>2, <1>4, <1>5, <1>6 DEF QuietStep

LEMMA LeaveIsQuiet ==
  ASSUME Base, Registry, NEW h \in Holder, NEW k \in Node, Leave(k, h)
  PROVE  QuietStep(h)
<1>1. k \in Replica /\ h \in Replica /\ h # k
  BY Disjoint DEF Replica
<1>2. /\ UNCHANGED <<now, legacy, cred, revoked>> /\ cred[k] # None
      /\ recent' = [recent EXCEPT ![h][k] = None]
      /\ log' = [log EXCEPT ![h] = AddTombstone(log[h], k)]
      /\ file' = [file EXCEPT ![h] = AddTombstone(log[h], k)]
      /\ dir' = [dir EXCEPT ![h][k] = None]
      /\ gone' = gone \cup {k}
      /\ last' = [last EXCEPT ![k] = now]
  BY DEF Leave, Stamp
<1>3. CopyStep
  BY PushCopies DEF Base
<1>4. now \in Nat /\ last[k] <= now /\ log[h].tomb[k] <= last[k] /\ last[k] \in Nat
      /\ log[h].tomb[k] \in Nat
  BY Typed DEF Base, Registry, Dated
<1>5. log[h] \in Log
  BY <1>1 DEF Base, TypeOK
<1>6. ASSUME NEW n \in Node
      PROVE  QuietFor(h, n)
  <2>1. /\ log'[h].tomb[n] = IF n = k THEN now ELSE log[h].tomb[n]
        /\ file'[h].tomb[n] = IF n = k THEN now ELSE log[h].tomb[n]
    <3>1. log'[h] = AddTombstone(log[h], k) /\ file'[h] = AddTombstone(log[h], k)
      BY <1>1, <1>2 DEF Base, TypeOK
    <3> QED
      BY <1>5, <3>1 DEF AddTombstone, Log
  <2>2. /\ last'[n] = IF n = k THEN now ELSE last[n]
        /\ dir'[h][n] = IF n = k THEN None ELSE dir[h][n]
        /\ recent'[h][n] = IF n = k THEN None ELSE recent[h][n]
    BY <1>1, <1>2 DEF Base, TypeOK
  <2>3. TombKept(h, n)
    <3>1. log[h].tomb[n] \in Nat
      BY Typed DEF Base
    <3> QED
      BY <1>2, <1>4, <2>1, <2>2, <3>1 DEF TombKept
  <2>4. RecordKept(h, n) /\ OverlayKept(h, n)
    BY <1>2, <2>2 DEF RecordKept, Dropped, OverlayKept
  <2> QED
    BY <1>2, <1>3, <2>1, <2>2, <2>3, <2>4, OwnCopied DEF QuietFor
<1>7. legacy'[h] = revoked'
  BY <1>2 DEF Registry, RevokedKnown
<1> QED
  BY <1>2, <1>4, <1>6, <1>7 DEF QuietStep

\* What PruneLog and PruneStale leave of n, in one second.
LEMMA Pruned ==
  ASSUME Base, NEW h \in Holder, NEW n \in Node, NEW l \in Log
  PROVE  /\ PruneLog(l).tomb[n] \in {l.tomb[n], 0}
         /\ PruneStale(dir[h])[n] =
              IF dir[h][n] # None /\ PastDrop(dir[h][n].cred) THEN None ELSE dir[h][n]
BY DEF PruneLog, PruneStale

LEMMA SweepIsQuiet ==
  ASSUME Base, Registry, NEW h \in Holder, Sweep(h)
  PROVE  QuietStep(h)
<1>1. h \in Replica /\ log[h] \in Log
  BY DEF Replica, Base, TypeOK
<1>2. /\ UNCHANGED <<now, file, legacy, recent, cred, last, gone, revoked>>
      /\ dir' = [dir EXCEPT ![h] = PruneStale(dir[h])]
      /\ log' = [log EXCEPT ![h] = PruneLog(log[h])]
  BY DEF Sweep
<1>3. CopyStep
  BY <1>1, SyncCopies DEF Base
<1>4. log'[h] = PruneLog(log[h]) /\ dir'[h] = PruneStale(dir[h])
  BY <1>1, <1>2 DEF Base, TypeOK
<1>5. ASSUME NEW n \in Node
      PROVE  QuietFor(h, n)
  <2>1. /\ log'[h].tomb[n] \in {log[h].tomb[n], 0}
        /\ dir'[h][n] = IF dir[h][n] # None /\ PastDrop(dir[h][n].cred) THEN None ELSE dir[h][n]
    BY <1>1, <1>4, Pruned
  <2>2. log[h].tomb[n] \in Nat
    BY Typed DEF Base
  <2>3. TombKept(h, n)
    BY <1>2, <2>1, <2>2 DEF TombKept
  <2>4. RecordKept(h, n)
    BY <2>1 DEF RecordKept, Dropped
  <2> QED
    BY <1>2, <1>3, <2>3, <2>4, OwnCopied DEF QuietFor, OverlayKept
<1>6. legacy'[h] = revoked'
  BY <1>2 DEF Registry, RevokedKnown
<1>7. now' = now /\ now \in Nat
  BY <1>2 DEF Base, TypeOK
<1> QED
  BY <1>2, <1>5, <1>6, <1>7 DEF QuietStep

\* The holder pulls from itself: it takes in what a one-shot command wrote.
LEMMA OwnPullIsQuiet ==
  ASSUME Base, Registry, Persisted', NEW h \in Holder, NEW b \in BOOLEAN, Pull(h, h, b)
  PROVE  QuietStep(h)
<1> DEFINE mine  == Reread(h)
           heard == MergeLog(mine, mine)
           kept  == PruneLog(heard)
           recs  == MergeDir(PruneStale(dir[h]), dir[h])
<1>1. h \in Replica /\ log[h] \in Log /\ file[h] \in Log /\ h \notin Node
  BY Disjoint DEF Replica, Base, TypeOK
<1>2. /\ UNCHANGED <<now, recent, cred, last, gone, revoked>>
      /\ log' = [log EXCEPT ![h] = kept]
      /\ dir' = [dir EXCEPT ![h] = DropDead(recs, kept, h)]
      /\ file' = [file EXCEPT ![h] = kept] \/ file' = file
      /\ legacy' = [legacy EXCEPT ![h] = legacy[h] \cup kept.revoke] \/ legacy' = legacy
  BY DEF Pull
<1>3. mine \in Log /\ heard \in Log
  BY <1>1, LogTypes DEF Reread
<1>4. CopyStep
  BY <1>1, SyncCopies DEF Base
<1>5. /\ log'[h] = kept /\ dir'[h] = DropDead(recs, kept, h)
      /\ file'[h] \in {kept, file[h]}
      /\ legacy'[h] \in {legacy[h] \cup kept.revoke, legacy[h]}
  BY <1>1, <1>2 DEF Base, TypeOK
<1>6. ASSUME NEW n \in Node
      PROVE  heard.tomb[n] = IF file[h].tomb[n] > log[h].tomb[n] THEN file[h].tomb[n]
                                                                  ELSE log[h].tomb[n]
  BY DEF Reread, MergeLog
<1>7. kept.revoke \subseteq revoked
  <2>1. log'[h].revoke \subseteq revoked'
    BY <1>1 DEF Persisted
  <2> QED
    BY <1>2, <1>5, <2>1
<1> HIDE DEF kept, heard, mine
<1>8. ASSUME NEW n \in Node
      PROVE  QuietFor(h, n)
  <2>1. kept.tomb[n] \in {heard.tomb[n], 0}
    BY <1>3, Pruned DEF kept
  <2>2. recs[n] = IF dir[h][n] # None /\ PastDrop(dir[h][n].cred) THEN None ELSE dir[h][n]
    <3>1. recs[n] = MergeRecord(PruneStale(dir[h])[n], dir[h][n])
      BY DEF MergeDir
    <3>2. CASE dir[h][n] = None \/ PastDrop(dir[h][n].cred)
      BY <1>3, <3>1, <3>2, Pruned DEF MergeRecord, Accepts
    <3>3. CASE dir[h][n] # None /\ ~PastDrop(dir[h][n].cred)
      <4>1. PruneStale(dir[h])[n] = dir[h][n]
        BY <1>3, <3>3, Pruned
      <4> QED
        BY <3>1, <3>3, <4>1 DEF MergeRecord
    <3> QED
      BY <3>2, <3>3
  <2> HIDE DEF recs
  <2>3. dir'[h][n] = IF recs[n] # None /\ IsDead(kept, n, recs[n].cred.iat)
                     THEN None ELSE recs[n]
    BY <1>1, <1>5 DEF DropDead
  <2>4. log[h].tomb[n] \in Nat /\ file[h].tomb[n] \in Nat
    BY Typed DEF Base
  <2>5. dir'[h][n] # None => dir'[h][n] = dir[h][n] /\ ~PastDrop(dir[h][n].cred)
    BY <2>2, <2>3
  <2>6. TombKept(h, n)
    BY <1>5, <1>6, <2>1, <2>4, <2>5 DEF TombKept
  <2>7. RecordKept(h, n)
    <3>1. CASE dir[h][n] # None /\ ~PastDrop(dir[h][n].cred) /\ IsDead(kept, n, dir[h][n].cred.iat)
      <4>1. dir[h][n].cred.iat \in Nat /\ dir[h][n].cred.iat <= kept.tomb[n] /\ kept.tomb[n] > 0
        BY <3>1, Typed DEF Base, IsDead
      <4>2. kept.tomb[n] = log[h].tomb[n] \/ kept.tomb[n] = file[h].tomb[n]
        BY <1>6, <2>1, <4>1
      <4> QED
        BY <2>2, <2>3, <3>1, <4>1, <4>2 DEF RecordKept, Dropped
    <3>2. CASE ~(dir[h][n] # None /\ ~PastDrop(dir[h][n].cred) /\ IsDead(kept, n, dir[h][n].cred.iat))
      BY <2>2, <2>3, <3>2 DEF RecordKept, Dropped
    <3> QED
      BY <3>1, <3>2
  <2> QED
    BY <1>2, <1>4, <2>6, <2>7, OwnCopied DEF QuietFor, OverlayKept
<1>9. legacy'[h] = revoked'
  BY <1>2, <1>5, <1>7 DEF Registry, RevokedKnown
<1>10. now' = now /\ now \in Nat
  BY <1>2 DEF Base, TypeOK
<1> QED
  BY <1>2, <1>8, <1>9, <1>10 DEF QuietStep

\* A member pulls, or finds nobody: nothing of the holder's moves.
LEMMA MemberPullIsQuiet ==
  ASSUME Base, Registry, NEW h \in Holder, NEW g \in Holder, NEW r \in Node,
         (\E b \in BOOLEAN : Pull(r, g, b)) \/ PullUnanswered(r)
  PROVE  QuietStep(h)
<1>1. r \in Replica /\ h \in Replica /\ h # r
  BY Disjoint DEF Replica
<1>2. UNCHANGED <<now, recent, cred, last, gone, revoked>>
  BY DEF Pull, PullUnanswered
<1>3. /\ dir'[h] = dir[h] /\ log'[h] = log[h] /\ file'[h] = file[h] /\ legacy'[h] = legacy[h]
  BY <1>1 DEF Pull, PullUnanswered, Base, TypeOK
<1>4. CopyStep
  BY <1>1, SyncCopies DEF Base
<1>5. ASSUME NEW n \in Node
      PROVE  QuietFor(h, n)
  BY <1>2, <1>3, <1>4, TombSame, OwnCopied DEF QuietFor, RecordKept, OverlayKept
<1>6. now' = now /\ now \in Nat
  BY <1>2 DEF Base, TypeOK
<1> QED
  BY <1>2, <1>3, <1>5, <1>6 DEF QuietStep, Registry, RevokedKnown

LEMMA EnrollIsIssue ==
  ASSUME Base, Reliable, NEW h \in Holder, NEW n \in Node, NEW name \in Name, NEW caps \in Caps,
         NEW landed \in BOOLEAN, Enroll(h, n, name, caps, landed)
  PROVE  \E c \in Cred : IssueStep(h, n, c)
<1> DEFINE c == NewCred(name, caps)
<1>1. n \in Replica /\ h \in Replica /\ h # n
  BY Disjoint DEF Replica
<1>2. c \in Cred /\ c.iat = now /\ c.name = name
  <2>1. c \in Cred
    BY NewCredType DEF Base
  <2> QED
    BY <2>1 DEF NewCred
<1>3. OwnRecord(n, c) \in Record
  BY <1>2, OwnRecordType DEF Base
<1> HIDE DEF c
<1>4. /\ UNCHANGED <<now, log, file, legacy, revoked>>
      /\ cred' = [cred EXCEPT ![n] = c] /\ last' = [last EXCEPT ![n] = now]
      /\ recent' = Issued(h, n, c) /\ gone' = gone \ {n}
      /\ MayIssue(h, n, c.name)
  BY <1>2 DEF Enroll, Stamp, c
<1>5. last[n] < now
  BY DEF Enroll, NewSecond, Reliable
<1>6. /\ dir'[n][n] = OwnRecord(n, c)
      /\ dir'[h][n] \in {dir[h][n], OwnRecord(n, c)}
      /\ \A m \in Node \ {n} : dir'[h][m] = dir[h][m] /\ dir'[m][m] = dir[m][m]
  <2>1. \/ dir' = [dir EXCEPT ![n][n] = OwnRecord(n, c)]
        \/ dir' = [dir EXCEPT ![n][n] = OwnRecord(n, c),
                              ![h][n] = MergeRecord(dir[h][n], OwnRecord(n, c))]
    BY <1>1 DEF Enroll, c, Base, TypeOK
  <2>2. MergeRecord(dir[h][n], OwnRecord(n, c)) \in {dir[h][n], OwnRecord(n, c)}
    BY DEF MergeRecord
  <2>3. PICK v \in {dir[h][n], OwnRecord(n, c)} : dir' = [dir EXCEPT ![n][n] = OwnRecord(n, c),
                                                                    ![h][n] = v]
    <3>1. dir \in [Replica -> [Node -> Record \cup {None}]]
      BY DEF Base, TypeOK
    <3>2. [dir EXCEPT ![n][n] = OwnRecord(n, c), ![h][n] = dir[h][n]]
            = [dir EXCEPT ![n][n] = OwnRecord(n, c)]
      BY <1>1, <3>1
    <3> QED
      BY <2>1, <2>2, <3>2
  <2>4. dir'[n] = [dir[n] EXCEPT ![n] = OwnRecord(n, c)] /\ dir'[h] = [dir[h] EXCEPT ![n] = v]
    BY <1>1, <2>3 DEF Base, TypeOK
  <2>5. \A m \in Node \ {n} : dir'[m] = dir[m]
    BY <1>1, <2>3, Disjoint DEF Base, TypeOK, Replica
  <2>6. dir[n] \in [Node -> Record \cup {None}] /\ dir[h] \in [Node -> Record \cup {None}]
    BY <1>1 DEF Base, TypeOK
  <2> QED
    BY <2>4, <2>5, <2>6
<1>7. OwnRecord(n, c) # None /\ OwnRecord(n, c).cred = c
  BY <1>3, NoneIsNoData DEF OwnRecord
<1> QED
  BY <1>2, <1>4, <1>5, <1>6, <1>7 DEF IssueStep

LEMMA RenewIsIssue ==
  ASSUME Base, Reliable, NEW h \in Holder, NEW n \in Node, NEW name \in Name, Renew(n, h, name)
  PROVE  \E c \in Cred : IssueStep(h, n, c)
<1> DEFINE c == RenewedCred(h, n, name)
<1>1. n \in Replica /\ h \in Replica /\ h # n
  BY Disjoint DEF Replica
<1>2. c \in Cred /\ c.iat = now /\ c.name = name
  <2>1. c \in Cred
    BY RenewedCredType DEF Base, Renew
  <2> QED
    BY <2>1 DEF RenewedCred, NewCred
<1>3. OwnRecord(n, c) \in Record
  BY <1>2, OwnRecordType DEF Base
<1> HIDE DEF c
<1>4. /\ UNCHANGED <<now, log, file, legacy, revoked, gone>>
      /\ cred' = [cred EXCEPT ![n] = c] /\ last' = [last EXCEPT ![n] = now]
      /\ recent' = Issued(h, n, c)
      /\ MayIssue(h, n, c.name) /\ Known(h, n) # None
      /\ dir' = [dir EXCEPT ![n][n] = OwnRecord(n, c)]
  BY <1>2 DEF Renew, Renewable, Stamp, c
<1>5. last[n] < now
  BY DEF Renew, NewSecond, Reliable
<1>6. /\ dir'[n][n] = OwnRecord(n, c) /\ dir'[h][n] = dir[h][n]
      /\ \A m \in Node \ {n} : dir'[h][m] = dir[h][m] /\ dir'[m][m] = dir[m][m]
  BY <1>1, <1>4 DEF Base, TypeOK, Replica
<1>7. OwnRecord(n, c) # None /\ OwnRecord(n, c).cred = c
  BY <1>3, NoneIsNoData DEF OwnRecord
<1> QED
  BY <1>2, <1>4, <1>5, <1>6, <1>7 DEF IssueStep

LEMMA StepKinds ==
  ASSUME Base, Registry, Persisted', Steady, [Next]_vars, NEW h \in Holder
  PROVE  QuietStep(h) \/ \E n \in Node, c \in Cred : IssueStep(h, n, c)
<1>1. /\ \A g \in Holder : g = h
      /\ Reliable /\ OneHolder
      /\ "restart" \notin Faults /\ "lostReply" \notin Faults /\ "installFail" \notin Faults
  BY DEF Steady, OneHolder, Reliable
<1>2. ASSUME NEW g \in Holder, NEW n \in Node, DoorStep(g, n)
      PROVE  \E c \in Cred : IssueStep(h, n, c)
  <2>1. PICK name \in Name, caps \in Caps, landed \in BOOLEAN : Enroll(g, n, name, caps, landed)
    BY <1>1, <1>2 DEF DoorStep, EnrollLost, EnrollRefused
  <2>2. \E c \in Cred : IssueStep(g, n, c)
    BY <1>1, <2>1, EnrollIsIssue
  <2>3. g = h
    BY <1>1
  <2> QED
    BY <2>2, <2>3
<1>3. ASSUME NEW g \in Holder, NEW n \in Node, NodeStep(n, g)
      PROVE  QuietStep(h) \/ \E c \in Cred : IssueStep(h, n, c)
  <2>1. g = h
    BY <1>1
  <2>2. CASE \E name \in Name : Renew(n, g, name)
    BY <1>1, <2>1, <2>2, RenewIsIssue
  <2>3. CASE Push(n, g)
    BY <2>1, <2>3, PushIsQuiet
  <2>4. CASE Leave(n, g)
    BY <2>1, <2>4, LeaveIsQuiet
  <2> QED
    BY <1>1, <1>3, <2>2, <2>3, <2>4 DEF NodeStep, RenewLost
<1>4. ASSUME NEW g \in Holder, NEW n \in Node, OperatorStep(g, n)
      PROVE  QuietStep(h)
  BY <1>1, <1>4, IdleIsQuiet
<1>5. ASSUME NEW n \in Node, Republish(n) PROVE QuietStep(h)
  BY <1>5, RepublishIsQuiet
<1>6. ASSUME NEW g \in Holder, Sweep(g) PROVE QuietStep(h)
  <2>1. g = h
    BY <1>1
  <2> QED
    BY <1>6, <2>1, SweepIsQuiet
<1>7. ASSUME NEW r \in Replica, SyncStep(r) PROVE QuietStep(h)
  <2>1. r = h \/ r \in Node
    BY <1>1 DEF Replica
  <2>2. CASE r = h
    <3>1. Seed[h] = h
      BY <1>1, SeedType
    <3>2. PICK b \in BOOLEAN : Pull(h, h, b)
      BY <1>1, <1>7, <2>2, <3>1 DEF SyncStep, PullUnanswered
    <3> QED
      BY <3>2, OwnPullIsQuiet
  <2>3. CASE r \in Node
    BY <1>7, <2>3, MemberPullIsQuiet DEF SyncStep
  <2> QED
    BY <2>1, <2>2, <2>3
<1>8. ASSUME NEW r \in Replica, Restart(r) PROVE FALSE
  BY <1>1, <1>8 DEF Restart
<1>9. ASSUME Tick \/ UNCHANGED vars \/ \E g \in Holder : RefuseUnknown(g)
      PROVE  QuietStep(h)
  <2>1. CASE Node # {}
    <3>1. PICK k : k \in Node
      BY <2>1
    <3> QED
      BY <1>1, <1>9, <3>1, IdleIsQuiet
  <2>2. CASE Node = {}
    <3>1. /\ UNCHANGED <<cred, legacy, gone, revoked>>
          /\ now' = now \/ now' = now + 1
      BY <1>9 DEF Tick, vars, RefuseUnknown
    <3>2. now' \in Nat /\ now <= now'
      BY <3>1 DEF Base, TypeOK
    <3>3. legacy'[h] = revoked'
      BY <3>1 DEF Registry, RevokedKnown
    <3> QED
      BY <2>2, <3>1, <3>2, <3>3 DEF QuietStep
  <2> QED
    BY <2>1, <2>2
<1> QED
  BY <1>2, <1>3, <1>4, <1>5, <1>6, <1>7, <1>8, <1>9, Bounds DEF Next, Replica

-----------------------------------------------------------------------------
(* The theorems *)

LEMMA BaseNext ==
  ASSUME Base, [Next]_vars
  PROVE  Base'
BY TypeNext, RevokeStep, OrderNext DEF Base

LEMMA NoHolder == Holder = {} => Node = {}
BY SeedType

LEMMA IssuanceInit == Init => Base /\ Registry /\ Ended /\ Exclusive
<1> SUFFICES ASSUME Init PROVE Base /\ Registry /\ Ended /\ Exclusive
  OBVIOUS
<1>1. Base
  BY TypeInit, PersistedInit, OrderInit DEF Base
<1>2. ASSUME NEW h \in Holder, NEW n \in Node
      PROVE  /\ dir[h][n] = None /\ recent[h][n] = None
             /\ log[h].tomb[n] = 0 /\ file[h].tomb[n] = 0 /\ legacy[h] = {}
  BY DEF Init, EmptyLog, Replica
<1>3. ASSUME NEW n \in Node
      PROVE  /\ cred[n] = None /\ dir[n][n] = None /\ last[n] = 0 /\ now = 1
  BY DEF Init, Replica
<1>4. Dated
  BY <1>2, <1>3 DEF Dated
<1>5. OwnIsCred /\ NoneNewer /\ Registered /\ Spared
  BY <1>2, <1>3 DEF OwnIsCred, NoneNewer, Registered, Spared, Member
<1>6. RevokedKnown
  BY DEF Init, RevokedKnown, Replica
<1>7. Ended
  BY DEF Init, Ended
<1>8. Exclusive
  BY <1>2 DEF Exclusive, Claimants, OverlayClaims, RecordClaims, LiveRecord, Overlay
<1> QED
  BY <1>1, <1>4, <1>5, <1>6, <1>7, <1>8 DEF Registry

LEMMA RegistryNext ==
  ASSUME Steady, Base, Registry, [Next]_vars
  PROVE  Registry'
<1>1. Base'
  BY BaseNext
<1>2. CASE Holder = {}
  BY <1>2, NoHolder DEF Registry, Dated, OwnIsCred, NoneNewer, Registered, Spared, RevokedKnown
<1>3. ASSUME NEW h \in Holder PROVE Registry'
  <2>1. QuietStep(h) \/ \E n \in Node, c \in Cred : IssueStep(h, n, c)
    BY <1>1, StepKinds DEF Base
  <2> QED
    BY <1>1, <2>1, QuietRegistry, IssueRegistry DEF Base, Steady
<1> QED
  BY <1>2, <1>3

LEMMA EndedNext ==
  ASSUME Steady, Base, Registry, Ended, Exclusive, [Next /\ Outlasts]_vars
  PROVE  Ended' /\ Exclusive'
<1>1. [Next]_vars /\ Outlasts
  <2>1. CASE UNCHANGED vars
    BY <2>1 DEF vars, Outlasts
  <2> QED
    BY <2>1
<1>2. Base' /\ Registry'
  BY <1>1, BaseNext, RegistryNext
<1>3. CASE Holder = {}
  BY <1>3 DEF Ended, Exclusive
<1>4. ASSUME NEW h \in Holder PROVE Ended' /\ Exclusive'
  <2>1. QuietStep(h) \/ \E n \in Node, c \in Cred : IssueStep(h, n, c)
    BY <1>1, <1>2, StepKinds DEF Base
  <2>2. ASSUME NEW n \in Node, NEW c \in Cred, IssueStep(h, n, c)
        PROVE  Ended' /\ Exclusive'
    BY <2>2, IssueEnded, IssueExclusive DEF Steady
  <2>3. CASE QuietStep(h)
    <3>1. RevokedAt(h)' = revoked'
      BY <1>2 DEF Base, Registry, Persisted, RevokedKnown, RevokedAt, Replica
    <3> QED
      BY <1>1, <2>3, <3>1, QuietEnded, QuietExclusive DEF Steady
  <2> QED
    BY <2>1, <2>2, <2>3
<1> QED
  BY <1>3, <1>4

\* What one holder would renew a member in good standing from is exactly the
\* credential the member holds, in every fleet of one holder whose replies
\* arrive and whose daemon runs on: CA.node_info, with the overlay and the
\* directory as the only registry.
THEOREM RegistryCurrent == Spec => [](Steady => RegistryIsCurrent)
<1> DEFINE Inv == Steady => Registry
<1>1. Init => Base /\ Inv
  BY IssuanceInit
<1>2. Base /\ Inv /\ [Next]_vars => (Base /\ Inv)'
  BY BaseNext, RegistryNext DEF Steady, OneHolder, Reliable
<1>3. Base /\ Inv => (Steady => RegistryIsCurrent)
  BY MemberKnown DEF RegistryIsCurrent, InGoodStanding, Member
<1> HIDE DEF Inv
<1> QED
  BY <1>1, <1>2, <1>3, PTL DEF Spec

\* The same fleets, as long as no tombstone is pruned while it still kills a
\* copy the fleet admits, which is what statements.py says of the pruning.
IssuanceInv == Base /\ (Steady => Registry /\ Ended /\ Exclusive)

LEMMA IssuanceInvariant == Spec /\ TombstonesOutlast => []IssuanceInv
<1>1. Init => IssuanceInv
  BY IssuanceInit DEF IssuanceInv
<1>2. IssuanceInv /\ [Next /\ Outlasts]_vars => IssuanceInv'
  <2> SUFFICES ASSUME IssuanceInv, [Next /\ Outlasts]_vars PROVE IssuanceInv'
    OBVIOUS
  <2>1. [Next]_vars
    OBVIOUS
  <2>2. Steady' = Steady
    BY DEF Steady, OneHolder, Reliable
  <2> QED
    BY <2>1, <2>2, BaseNext, RegistryNext, EndedNext DEF IssuanceInv
<1>3. [Next]_vars /\ [Outlasts]_vars => [Next /\ Outlasts]_vars
  OBVIOUS
<1> QED
  BY <1>1, <1>2, <1>3, PTL DEF Spec, TombstonesOutlast

\* Two members in good standing never hold one hostname (CA.issue,
\* CA.hostname_owner).
THEOREM NamesExclusive == Spec /\ TombstonesOutlast => [](Steady => NameExclusive)
<1>1. IssuanceInv => (Steady => NameExclusive)
  <2> SUFFICES ASSUME IssuanceInv, Steady, NEW m \in Node, NEW n \in Node,
                      InGoodStanding(m), InGoodStanding(n), cred[m].name = cred[n].name
               PROVE  m = n
    BY DEF NameExclusive
  <2>1. Base /\ Registry /\ Exclusive
    BY DEF IssuanceInv
  <2>2. PICK h : h \in Holder
    BY NoHolder
  <2>3. cred[m].name \in Name
    <3>1. cred[m] \in Cred
      BY <2>1 DEF Base, TypeOK, InGoodStanding
    <3> QED
      BY <3>1 DEF Cred
  <2>4. ASSUME NEW k \in Node, InGoodStanding(k), cred[k].name = cred[m].name
        PROVE  k \in Claimants(h, cred[m].name)
    <3>1. Member(k) /\ ~Expired(cred[k]) /\ k \notin RevokedAt(h)
      BY <2>1, <2>2, <2>4, RevokedIsRevoked DEF InGoodStanding, Member, Registry
    <3> QED
      BY <2>1, <2>2, <2>4, <3>1, MemberKnown DEF Member, Claimants, OverlayClaims, RecordClaims
  <2> QED
    BY <2>1, <2>2, <2>3, <2>4 DEF Exclusive
<1> QED
  BY <1>1, IssuanceInvariant, PTL

\* A node that left is unknown to the holder, whatever its daemon still
\* publishes (CA.forget_node).
THEOREM DepartedStaysUnknown == Spec /\ TombstonesOutlast => [](Steady => DepartedUnknown)
<1>1. IssuanceInv => (Steady => DepartedUnknown)
  BY EndedUnknown DEF IssuanceInv, DepartedUnknown
<1> QED
  BY <1>1, IssuanceInvariant, PTL

-----------------------------------------------------------------------------
(***************************************************************************)
(* What an operator decided about capabilities: the next renewal at the    *)
(* holder grants what it granted before, until a newer decision arrives.   *)
(***************************************************************************)

\* A record that is behind its node is hidden by the overlay, or its node expired.
Superseded == \A h \in Holder, n \in Node :
  dir[h][n] # None /\ dir[h][n].cred # cred[n] => recent[h][n] = cred[n] \/ Expired(cred[n])

\* No tombstone touches an overlay entry.
OverlaySpared == \A h \in Holder, n \in Node :
  recent[h][n] # None /\ n \notin revoked =>
     log[h].tomb[n] < cred[n].iat /\ file[h].tomb[n] < cred[n].iat

\* No decision is of the future, and a tombstone of the file that ends one of the
\* daemon's decisions is in the daemon's log too: it comes with no later pull.
CapsDated(h, n) ==
  /\ log[h].setcaps[n].ts <= now /\ file[h].setcaps[n].ts <= now
  /\ \/ n \in revoked \/ log[h].setcaps[n].ts = 0
     \/ file[h].tomb[n] < log[h].setcaps[n].ts
     \/ log[h].setcaps[n].ts <= log[h].tomb[n]

CapsInv == Superseded /\ OverlaySpared /\ \A h \in Holder, n \in Node : CapsDated(h, n)

\* The decision stays, gives way to a newer one, or goes with the membership that
\* a revoke or a tombstone ended.
DecisionKept(h, n) ==
  \/ log'[h].setcaps[n] = log[h].setcaps[n]
  \/ log'[h].setcaps[n].ts > log[h].setcaps[n].ts
  \/ /\ log'[h].setcaps[n] = NoSetCaps
     /\ \/ n \in log'[h].revoke
        \/ log[h].setcaps[n].ts <= log[h].tomb[n]
        \/ log[h].setcaps[n].ts <= file[h].tomb[n]

LEMMA CapsTyped ==
  ASSUME NEW l \in Log, NEW n \in Node
  PROVE  /\ l.setcaps[n] \in SetCapsStmt /\ l.setcaps[n].ts \in Nat /\ l.tomb[n] \in Nat
         /\ NoSetCaps.ts = 0
BY DEF Log, SetCapsStmt, NoSetCaps

\* The credential n last received is the newest the holder knows.
LEMMA KnownIs ==
  ASSUME Base, Registry, NEW h \in Holder, NEW n \in Node, Known(h, n) # None
  PROVE  /\ n \notin revoked /\ cred[n] # None /\ Known(h, n) \in Cred
         /\ Known(h, n).iat \in Nat \ {0} /\ Known(h, n).iat <= now
         /\ Known(h, n).iat <= cred[n].iat
         /\ Known(h, n).iat = cred[n].iat => Known(h, n) = cred[n]
         /\ \/ /\ Overlay(h)[n] # None /\ Known(h, n) = cred[n]
               /\ recent[h][n] = cred[n]
            \/ /\ Overlay(h)[n] = None /\ LiveRecord(h, n) /\ dir[h][n] # None
               /\ Known(h, n) = dir[h][n].cred
<1>1. n \notin revoked
  BY RevokedIsRevoked DEF Registry, Known
<1>2. /\ dir[h][n] # None => /\ cred[n] # None /\ dir[h][n].cred \in Cred
                             /\ dir[h][n].cred.iat \in Nat \ {0}
                             /\ dir[h][n].cred.iat <= cred[n].iat
                             /\ dir[h][n].cred.iat = cred[n].iat => dir[h][n].cred = cred[n]
      /\ recent[h][n] # None => recent[h][n] = cred[n]
  BY Typed DEF Base, Registry, NoneNewer
<1>3. /\ cred[n] \in Cred \cup {None} /\ now \in Nat
      /\ cred[n] # None => cred[n].iat \in Nat \ {0} /\ cred[n].iat <= now
  BY Typed DEF Base, Registry, Dated
<1>4. CASE Overlay(h)[n] # None
  <2>1. recent[h][n] = cred[n] /\ recent[h][n] # None /\ Overlay(h)[n] = cred[n]
    BY <1>2, <1>4 DEF Overlay
  <2>2. Known(h, n) = cred[n]
    BY <1>4, <2>1 DEF Known
  <2> QED
    BY <1>1, <1>3, <1>4, <2>1, <2>2
<1>5. CASE Overlay(h)[n] = None
  <2>1. LiveRecord(h, n) /\ Known(h, n) = dir[h][n].cred
    BY <1>5 DEF Known
  <2>2. dir[h][n] # None
    BY <2>1 DEF LiveRecord
  <2> QED
    BY <1>1, <1>2, <1>3, <1>5, <2>1, <2>2
<1> QED
  BY <1>4, <1>5

-----------------------------------------------------------------------------
(* The overlay and the record *)

LEMMA IssueOverlay ==
  ASSUME Base, Registry, CapsInv, OneHolder, NEW h \in Holder, NEW n \in Node, NEW c,
         IssueStep(h, n, c)
  PROVE  Superseded' /\ OverlaySpared'
<1>1. \A g \in Holder : g = h
  BY DEF OneHolder
<1>2. UNCHANGED <<now, log, file, revoked>> /\ c.iat = now /\ last[n] < now
  BY DEF IssueStep
<1>3. ASSUME NEW m \in Node
      PROVE  /\ cred'[m] = IF m = n THEN c ELSE cred[m]
             /\ recent'[h][m] = IF m = n THEN c ELSE Overlay(h)[m]
             /\ m # n => dir'[h][m] = dir[h][m]
  BY ViewTypes DEF IssueStep, Issued, Base, TypeOK, Credentials
<1>4. ASSUME NEW m \in Node, dir'[h][m] # None, dir'[h][m].cred # cred'[m]
      PROVE  recent'[h][m] = cred'[m] \/ Expired(cred[m])'
  <2>1. CASE m = n
    BY <1>3, <2>1
  <2>2. CASE m # n
    <3>1. dir[h][m] # None /\ dir[h][m].cred # cred[m] /\ cred'[m] = cred[m]
      BY <1>3, <1>4, <2>2
    <3>2. ~(dir[h][m].cred.iat >= cred[m].iat)
      BY <3>1, Typed DEF Base, Registry, NoneNewer
    <3>3. recent[h][m] = cred[m] \/ Expired(cred[m])
      BY <3>1 DEF CapsInv, Superseded
    <3>4. CASE Expired(cred[m])
      BY <1>2, <3>1, <3>4 DEF Expired
    <3>5. CASE recent[h][m] = cred[m] /\ ~Expired(cred[m])
      <4>1. Overlay(h)[m] = cred[m]
        BY <3>2, <3>5 DEF Overlay, CaughtUp
      <4> QED
        BY <1>3, <2>2, <3>1, <4>1
    <3> QED
      BY <3>3, <3>4, <3>5
  <2> QED
    BY <2>1, <2>2
<1>5. ASSUME NEW m \in Node, recent'[h][m] # None, m \notin revoked
      PROVE  log[h].tomb[m] < cred'[m].iat /\ file[h].tomb[m] < cred'[m].iat
  <2>1. CASE m = n
    <3>1. /\ log[h].tomb[n] <= last[n] /\ file[h].tomb[n] <= last[n]
          /\ log[h].tomb[n] \in Nat /\ file[h].tomb[n] \in Nat
          /\ last[n] \in Nat /\ now \in Nat
      BY Typed DEF Base, Registry, Dated
    <3> QED
      BY <1>2, <1>3, <2>1, <3>1
  <2>2. CASE m # n
    BY <1>3, <1>5, <2>2 DEF Overlay, CapsInv, OverlaySpared
  <2> QED
    BY <2>1, <2>2
<1>6. Superseded'
  BY <1>1, <1>4 DEF Superseded
<1>7. OverlaySpared'
  BY <1>1, <1>2, <1>5 DEF OverlaySpared
<1> QED
  BY <1>6, <1>7

LEMMA QuietOverlay ==
  ASSUME Base, Registry, CapsInv, OneHolder, NEW h \in Holder, QuietStep(h)
  PROVE  Superseded' /\ OverlaySpared'
<1>1. \A g \in Holder : g = h
  BY DEF OneHolder
<1>2. cred' = cred /\ revoked \subseteq revoked' /\ \A n \in Node : QuietFor(h, n)
  BY DEF QuietStep
<1>3. ASSUME NEW n \in Node, dir'[h][n] # None, dir'[h][n].cred # cred[n]
      PROVE  recent'[h][n] = cred[n] \/ Expired(cred[n])'
  <2>1. dir'[h][n] = dir[h][n]
    <3>1. RecordKept(h, n)
      BY <1>2 DEF QuietFor
    <3>2. dir[n][n] # None => dir[n][n].cred = cred[n]
      BY DEF Registry, OwnIsCred
    <3> QED
      BY <1>3, <3>1, <3>2 DEF RecordKept, Dropped, Pushed
  <2>2. ~(dir[h][n].cred.iat >= cred[n].iat) /\ cred[n] # None
    BY <1>3, <2>1, Typed DEF Base, Registry, NoneNewer
  <2>3. recent[h][n] = cred[n] \/ Expired(cred[n])
    BY <1>3, <2>1 DEF CapsInv, Superseded
  <2>4. CASE Expired(cred[n])
    BY <2>2, <2>4, DeadlinesForward
  <2>5. CASE recent[h][n] = cred[n] /\ ~Expired(cred[n])
    <3>1. Overlay(h)[n] = cred[n]
      BY <2>2, <2>5 DEF Overlay, CaughtUp
    <3>2. OverlayKept(h, n)
      BY <1>2 DEF QuietFor
    <3> QED
      BY <1>3, <2>5, <3>1, <3>2 DEF OverlayKept
  <2> QED
    BY <2>3, <2>4, <2>5
<1>4. ASSUME NEW n \in Node, recent'[h][n] # None, n \notin revoked'
      PROVE  log'[h].tomb[n] < cred[n].iat /\ file'[h].tomb[n] < cred[n].iat
  <2>1. recent[h][n] # None /\ n \notin revoked
    BY <1>2, <1>4 DEF QuietFor, OverlayKept, Overlay
  <2>2. log[h].tomb[n] < cred[n].iat /\ file[h].tomb[n] < cred[n].iat
    BY <2>1 DEF CapsInv, OverlaySpared
  <2>3. 0 < cred[n].iat
    BY <2>1, Typed DEF Base, Registry, NoneNewer
  <2>4. /\ log'[h].tomb[n] \in {log[h].tomb[n], file[h].tomb[n], 0}
        /\ file'[h].tomb[n] \in {log[h].tomb[n], file[h].tomb[n], 0}
    BY <1>2, <1>4 DEF QuietFor, TombKept
  <2> QED
    BY <2>2, <2>3, <2>4
<1>5. Superseded'
  BY <1>1, <1>2, <1>3 DEF Superseded
<1>6. OverlaySpared'
  BY <1>1, <1>2, <1>4 DEF OverlaySpared
<1> QED
  BY <1>5, <1>6

-----------------------------------------------------------------------------
(* The log and the file of the holder *)

\* Steps that leave the daemon's log alone.
LEMMA IdleCaps ==
  ASSUME Base, NEW h \in Holder, NEW n \in Node, CapsDated(h, n),
         log'[h] = log[h], now' \in Nat, now <= now', revoked \subseteq revoked',
         file'[h].setcaps[n].ts \in {file[h].setcaps[n].ts, now},
         file'[h].tomb[n] = file[h].tomb[n] \/ n \in revoked'
  PROVE  CapsDated(h, n)' /\ DecisionKept(h, n)
<1>1. h \in Replica /\ log[h] \in Log /\ file[h] \in Log /\ now \in Nat
  BY DEF Base, TypeOK, Replica
<1>2. log[h].setcaps[n].ts \in Nat /\ file[h].setcaps[n].ts \in Nat
  BY <1>1, CapsTyped
<1> QED
  BY <1>1, <1>2 DEF CapsDated, DecisionKept

LEMMA LeaveCaps ==
  ASSUME Base, Registry, NEW h \in Holder, NEW n \in Node, CapsDated(h, n),
         NEW k \in Node, Leave(k, h)
  PROVE  CapsDated(h, n)' /\ DecisionKept(h, n)
<1>1. h \in Replica /\ log[h] \in Log /\ file[h] \in Log /\ now \in Nat
  BY DEF Base, TypeOK, Replica
<1>2. /\ log'[h] = AddTombstone(log[h], k) /\ file'[h] = AddTombstone(log[h], k)
      /\ now' = now /\ revoked' = revoked
  BY <1>1 DEF Leave, Base, TypeOK
<1>3. /\ log'[h].setcaps = log[h].setcaps /\ file'[h].setcaps = log[h].setcaps
      /\ log'[h].tomb[n] = IF n = k THEN now ELSE log[h].tomb[n]
      /\ file'[h].tomb[n] = IF n = k THEN now ELSE log[h].tomb[n]
  BY <1>1, <1>2 DEF AddTombstone, Log
<1>4. log[h].setcaps[n].ts \in Nat /\ log[h].tomb[n] \in Nat
  BY <1>1, CapsTyped
<1> QED
  BY <1>1, <1>2, <1>3, <1>4 DEF CapsDated, DecisionKept

\* What a prune leaves of a decision and of the tombstone that ends it.
LEMMA PrunedCaps ==
  ASSUME NEW l \in Log, NEW n \in Node
  PROVE  LET k == PruneLog(l)
         IN /\ k.revoke = l.revoke /\ k.tomb[n] \in {l.tomb[n], 0}
            /\ \/ k.setcaps[n] = NoSetCaps /\ (n \in l.revoke \/ l.setcaps[n].ts <= l.tomb[n])
               \/ k.setcaps[n] = l.setcaps[n] /\ l.setcaps[n].ts = 0
               \/ k.setcaps[n] = l.setcaps[n] /\ l.tomb[n] < l.setcaps[n].ts
<1>1. l.setcaps[n].ts \in Nat /\ l.tomb[n] \in Nat
  BY CapsTyped
<1>2. PruneLog(l).revoke = l.revoke /\ PruneLog(l).tomb[n] \in {l.tomb[n], 0}
  BY DEF PruneLog
<1>3. PruneLog(l).setcaps[n] = IF SetCapsEnded(l, n) THEN NoSetCaps ELSE l.setcaps[n]
  BY DEF PruneLog
<1>4. CASE SetCapsEnded(l, n)
  BY <1>1, <1>2, <1>3, <1>4 DEF SetCapsEnded
<1>5. CASE ~SetCapsEnded(l, n)
  BY <1>1, <1>2, <1>3, <1>5 DEF SetCapsEnded
<1> QED
  BY <1>4, <1>5

LEMMA SweepCaps ==
  ASSUME Base, NEW h \in Holder, NEW n \in Node, CapsDated(h, n), Sweep(h)
  PROVE  CapsDated(h, n)' /\ DecisionKept(h, n)
<1>1. h \in Replica /\ log[h] \in Log /\ file[h] \in Log /\ now \in Nat
  BY DEF Base, TypeOK, Replica
<1>2. log'[h] = PruneLog(log[h]) /\ file'[h] = file[h] /\ now' = now /\ revoked' = revoked
  BY <1>1 DEF Sweep, Base, TypeOK
<1>3. /\ log[h].setcaps[n].ts \in Nat /\ log[h].tomb[n] \in Nat /\ NoSetCaps.ts = 0
  BY <1>1, CapsTyped
<1>4. /\ log'[h].revoke = log[h].revoke
      /\ \/ log'[h].setcaps[n] = NoSetCaps /\ (n \in log[h].revoke \/ log[h].setcaps[n].ts <= log[h].tomb[n])
         \/ log'[h].setcaps[n] = log[h].setcaps[n] /\ log[h].setcaps[n].ts = 0
         \/ log'[h].setcaps[n] = log[h].setcaps[n] /\ log[h].tomb[n] < log[h].setcaps[n].ts
  BY <1>1, <1>2, PrunedCaps
<1>5. DecisionKept(h, n)
  BY <1>4 DEF DecisionKept
<1>6. CapsDated(h, n)'
  BY <1>1, <1>2, <1>3, <1>4 DEF CapsDated
<1> QED
  BY <1>5, <1>6

\* The holder pulls from itself: it takes in what a one-shot command decided.
LEMMA OwnPullCaps ==
  ASSUME Base, NEW h \in Holder, NEW n \in Node, CapsDated(h, n),
         NEW b \in BOOLEAN, Pull(h, h, b)
  PROVE  CapsDated(h, n)' /\ DecisionKept(h, n)
<1> DEFINE l == MergeLog(Reread(h), Reread(h))
           s == log[h].setcaps[n].ts
           f == file[h].setcaps[n].ts
<1>1. h \in Replica /\ log[h] \in Log /\ file[h] \in Log /\ now \in Nat
  BY DEF Base, TypeOK, Replica
<1>2. l \in Log
  BY <1>1, LogTypes DEF Reread
<1>3. /\ log'[h] = PruneLog(l) /\ file'[h] \in {PruneLog(l), file[h]}
      /\ now' = now /\ revoked' = revoked
  BY <1>1 DEF Pull, Base, TypeOK
<1>4. /\ s \in Nat /\ f \in Nat /\ log[h].tomb[n] \in Nat /\ file[h].tomb[n] \in Nat
      /\ NoSetCaps.ts = 0
  BY <1>1, CapsTyped
<1>5. /\ l.tomb[n] = IF file[h].tomb[n] > log[h].tomb[n] THEN file[h].tomb[n] ELSE log[h].tomb[n]
      /\ l.setcaps[n] = IF f > s THEN file[h].setcaps[n] ELSE log[h].setcaps[n]
  BY DEF Reread, MergeLog
<1> HIDE DEF l
<1>6. /\ log'[h].revoke = l.revoke
      /\ \/ log'[h].setcaps[n] = NoSetCaps /\ (n \in l.revoke \/ l.setcaps[n].ts <= l.tomb[n])
         \/ log'[h].setcaps[n] = l.setcaps[n] /\ l.setcaps[n].ts = 0
         \/ log'[h].setcaps[n] = l.setcaps[n] /\ l.tomb[n] < l.setcaps[n].ts
  BY <1>2, <1>3, PrunedCaps
<1>7. s <= l.setcaps[n].ts /\ l.setcaps[n].ts \in Nat /\ l.setcaps[n].ts \in {s, f}
  BY <1>4, <1>5
<1>8. DecisionKept(h, n)
  <2>1. CASE n \in l.revoke /\ log'[h].setcaps[n] = NoSetCaps
    BY <1>6, <2>1 DEF DecisionKept
  <2>2. CASE log'[h].setcaps[n] = NoSetCaps /\ l.setcaps[n].ts <= l.tomb[n]
    BY <1>4, <1>5, <1>7, <2>2 DEF DecisionKept
  <2>3. CASE log'[h].setcaps[n] = l.setcaps[n]
    BY <1>4, <1>5, <2>3 DEF DecisionKept
  <2> QED
    BY <1>6, <2>1, <2>2, <2>3
<1>9. CapsDated(h, n)'
  <2>1. s <= now /\ f <= now
    BY DEF CapsDated
  <2>2. log'[h].setcaps[n].ts \in {0, s, f}
    BY <1>4, <1>6, <1>7
  <2>3. file'[h].setcaps[n].ts \in {0, s, f}
    BY <1>3, <2>2
  <2>4. log'[h].setcaps[n].ts <= now /\ file'[h].setcaps[n].ts <= now
    BY <1>1, <2>1, <2>2, <2>3
  <2>5. \/ log'[h].setcaps[n].ts = 0 \/ file'[h].tomb[n] < log'[h].setcaps[n].ts
        \/ log'[h].setcaps[n].ts <= log'[h].tomb[n]
    <3>1. CASE file'[h] = PruneLog(l)
      <4>1. log'[h].tomb[n] = file'[h].tomb[n] /\ log'[h].tomb[n] \in {l.tomb[n], 0}
        BY <1>2, <1>3, <3>1, PrunedCaps
      <4>2. l.tomb[n] \in Nat
        BY <1>4, <1>5
      <4> QED
        BY <1>4, <2>2, <4>1, <4>2
    <3>2. CASE file'[h] = file[h]
      <4>1. file[h].tomb[n] <= l.tomb[n]
        BY <1>4, <1>5
      <4>2. l.tomb[n] \in Nat
        BY <1>4, <1>5
      <4> QED
        BY <1>4, <1>6, <1>7, <3>2, <4>1, <4>2
    <3> QED
      BY <1>3, <3>1, <3>2
  <2> QED
    BY <1>3, <2>4, <2>5 DEF CapsDated
<1> QED
  BY <1>8, <1>9

\* The daemon of the holder, whatever happens: the cases of Next.
LEMMA CapsStep ==
  ASSUME Base, Registry, Steady, [Next]_vars, NEW h \in Holder, NEW n \in Node, CapsDated(h, n)
  PROVE  CapsDated(h, n)' /\ DecisionKept(h, n)
<1>1. /\ \A g \in Holder : g = h
      /\ "restart" \notin Faults /\ "lostReply" \notin Faults /\ "installFail" \notin Faults
  BY DEF Steady, OneHolder, Reliable
<1>2. h \in Replica /\ log[h] \in Log /\ file[h] \in Log /\ now \in Nat /\ h \notin Node
  BY Disjoint DEF Base, TypeOK, Replica
<1>3. ASSUME /\ log'[h] = log[h] /\ file'[h] = file[h] /\ revoked' = revoked
             /\ now' = now \/ now' = now + 1
      PROVE  CapsDated(h, n)' /\ DecisionKept(h, n)
  <2>1. now' \in Nat /\ now <= now'
    BY <1>2, <1>3
  <2> QED
    BY <1>3, <2>1, IdleCaps
<1>4. ASSUME NEW g \in Holder, NEW m \in Node, DoorStep(g, m)
      PROVE  CapsDated(h, n)' /\ DecisionKept(h, n)
  BY <1>1, <1>3, <1>4 DEF DoorStep, Enroll, EnrollLost, EnrollRefused
<1>5. ASSUME NEW g \in Holder, NEW m \in Node, NodeStep(m, g)
      PROVE  CapsDated(h, n)' /\ DecisionKept(h, n)
  <2>1. CASE Leave(m, g)
    <3>1. g = h
      BY <1>1
    <3> QED
      BY <2>1, <3>1, LeaveCaps
  <2>2. CASE (\E name \in Name : Renew(m, g, name)) \/ Push(m, g)
    BY <1>3, <2>2 DEF Renew, Push
  <2> QED
    BY <1>1, <1>5, <2>1, <2>2 DEF NodeStep, RenewLost
<1>6. ASSUME NEW g \in Holder, NEW m \in Node, OperatorStep(g, m)
      PROVE  CapsDated(h, n)' /\ DecisionKept(h, n)
  <2>1. g = h
    BY <1>1
  <2>2. CASE Revoke(g, m)
    <3>1. /\ file'[h] = AddTombstone(AddRevoke(file[h], m), m)
          /\ revoked' = revoked \cup {m} /\ now' = now /\ log'[h] = log[h]
      BY <1>2, <2>1, <2>2 DEF Revoke, Base, TypeOK
    <3>2. /\ file'[h].tomb = [file[h].tomb EXCEPT ![m] = now]
          /\ file'[h].setcaps = file[h].setcaps
      BY <1>2, <3>1 DEF AddTombstone, AddRevoke, Log
    <3>3. file'[h].tomb[n] = file[h].tomb[n] \/ n = m
      BY <1>2, <3>2 DEF Log
    <3>4. /\ now' \in Nat /\ now <= now' /\ revoked \subseteq revoked'
          /\ file'[h].tomb[n] = file[h].tomb[n] \/ n \in revoked'
          /\ file'[h].setcaps[n].ts \in {file[h].setcaps[n].ts, now}
      BY <1>2, <3>1, <3>2, <3>3
    <3> QED
      BY <3>1, <3>4, IdleCaps
  <2>3. CASE \E caps \in Caps : SetCaps(g, m, caps)
    <3>1. PICK caps \in Caps : SetCaps(h, m, caps)
      BY <2>1, <2>3
    <3>2. /\ file'[h] = AddSetCaps(file[h], m, caps)
          /\ revoked' = revoked /\ now' = now /\ log'[h] = log[h]
      BY <1>2, <3>1 DEF SetCaps, Base, TypeOK
    <3>3. /\ file'[h].tomb = file[h].tomb
          /\ file'[h].setcaps = [file[h].setcaps EXCEPT ![m] = [ts |-> now, caps |-> caps]]
      BY <1>2, <3>2 DEF AddSetCaps, Log
    <3>4. file'[h].setcaps[n].ts \in {file[h].setcaps[n].ts, now}
      BY <1>2, <3>3 DEF Log
    <3>5. /\ now' \in Nat /\ now <= now' /\ revoked \subseteq revoked'
          /\ file'[h].tomb[n] = file[h].tomb[n] \/ n \in revoked'
      BY <1>2, <3>2, <3>3
    <3> QED
      BY <3>2, <3>4, <3>5, IdleCaps
  <2> QED
    BY <1>6, <2>2, <2>3 DEF OperatorStep
<1>7. ASSUME NEW r \in Replica, SyncStep(r)
      PROVE  CapsDated(h, n)' /\ DecisionKept(h, n)
  <2>1. CASE r = h
    <3>1. Seed[h] = h
      BY <1>1, SeedType
    <3>2. PICK b \in BOOLEAN : Pull(h, h, b)
      BY <1>1, <1>7, <2>1, <3>1 DEF SyncStep, PullUnanswered
    <3> QED
      BY <3>2, OwnPullCaps
  <2>2. CASE r # h
    <3>1. /\ log'[h] = log[h] /\ file'[h] = file[h] /\ now' = now /\ revoked' = revoked
      BY <1>2, <1>7, <2>2 DEF SyncStep, Pull, PullUnanswered, Base, TypeOK
    <3> QED
      BY <1>3, <3>1
  <2> QED
    BY <2>1, <2>2
<1>8. ASSUME NEW g \in Holder, Sweep(g)
      PROVE  CapsDated(h, n)' /\ DecisionKept(h, n)
  <2>1. g = h
    BY <1>1
  <2> QED
    BY <1>8, <2>1, SweepCaps
<1>9. ASSUME \/ \E m \in Node : Republish(m) \/ \E g \in Holder : RefuseUnknown(g)
             \/ Tick \/ UNCHANGED vars
      PROVE  CapsDated(h, n)' /\ DecisionKept(h, n)
  BY <1>3, <1>9 DEF Republish, RefuseUnknown, Tick, vars
<1>10. ASSUME NEW r \in Replica, Restart(r) PROVE FALSE
  BY <1>1, <1>10 DEF Restart
<1> QED
  BY <1>4, <1>5, <1>6, <1>7, <1>8, <1>9, <1>10, Bounds DEF Next, Replica

LEMMA CapsInvNext ==
  ASSUME Steady, Base, Registry, CapsInv, [Next]_vars
  PROVE  CapsInv'
<1>1. Base' /\ Registry'
  BY BaseNext, RegistryNext
<1>2. CASE Holder = {}
  BY <1>2 DEF CapsInv, Superseded, OverlaySpared
<1>3. ASSUME NEW h \in Holder PROVE CapsInv'
  <2>1. QuietStep(h) \/ \E n \in Node, c \in Cred : IssueStep(h, n, c)
    BY <1>1, StepKinds DEF Base
  <2>2. Superseded' /\ OverlaySpared'
    BY <2>1, QuietOverlay, IssueOverlay DEF Steady
  <2>3. \A g \in Holder, n \in Node : CapsDated(g, n)'
    BY CapsStep DEF CapsInv
  <2> QED
    BY <2>2, <2>3 DEF CapsInv
<1> QED
  BY <1>2, <1>3

LEMMA CapsInit == Init => CapsInv
<1> SUFFICES ASSUME Init PROVE CapsInv
  OBVIOUS
<1>1. ASSUME NEW h \in Holder, NEW n \in Node
      PROVE  /\ dir[h][n] = None /\ recent[h][n] = None
             /\ log[h].setcaps[n].ts = 0 /\ file[h].setcaps[n].ts = 0 /\ now = 1
  BY DEF Init, EmptyLog, NoSetCaps, Replica
<1> QED
  BY <1>1 DEF CapsInv, Superseded, OverlaySpared, CapsDated

-----------------------------------------------------------------------------
(* What the next renewal grants *)

\* A credential that nothing ended is younger than whatever ended a decision.
LEMMA DeadDecision ==
  ASSUME Base, Registry, CapsInv, NEW h \in Holder, NEW n \in Node, Known(h, n) # None,
         \/ log[h].setcaps[n].ts <= log[h].tomb[n]
         \/ log[h].setcaps[n].ts <= file[h].tomb[n]
  PROVE  log[h].setcaps[n].ts < Known(h, n).iat
<1>1. /\ n \notin revoked /\ Known(h, n).iat \in Nat \ {0}
  BY KnownIs
<1>2. h \in Replica /\ log[h] \in Log /\ file[h] \in Log
  BY DEF Base, TypeOK, Replica
<1>3. /\ log[h].setcaps[n].ts \in Nat /\ log[h].tomb[n] \in Nat /\ file[h].tomb[n] \in Nat
  BY <1>2, CapsTyped
<1>4. CASE Overlay(h)[n] # None
  <2>1. Known(h, n) = cred[n] /\ recent[h][n] # None
    BY <1>4, KnownIs
  <2>2. log[h].tomb[n] < Known(h, n).iat /\ file[h].tomb[n] < Known(h, n).iat
    BY <1>1, <2>1 DEF CapsInv, OverlaySpared
  <2> QED
    BY <1>1, <1>3, <2>2
<1>5. CASE Overlay(h)[n] = None
  <2>1. log[h].tomb[n] < Known(h, n).iat
    BY <1>1, <1>3, <1>5, KnownIs DEF LiveRecord, IsDead
  <2>2. \/ log[h].setcaps[n].ts = 0
        \/ file[h].tomb[n] < log[h].setcaps[n].ts
        \/ log[h].setcaps[n].ts <= log[h].tomb[n]
    BY <1>1 DEF CapsInv, CapsDated
  <2> QED
    BY <1>1, <1>3, <2>1, <2>2
<1> QED
  BY <1>4, <1>5

\* A node that got no credential is known by the one it was known by, or by an
\* older one, or not at all.
LEMMA KnownStays ==
  ASSUME Steady, Base, Registry, Base', Registry', CapsInv, [Next]_vars,
         NEW h \in Holder, NEW n \in Node, cred'[n] = cred[n],
         Known(h, n) # None, Known(h, n)' # None, Known(h, n)'.iat >= Known(h, n).iat
  PROVE  Known(h, n)' = Known(h, n)
<1> DEFINE k == Known(h, n)
<1>1. /\ cred[n] # None /\ k.iat \in Nat /\ k.iat <= cred[n].iat
      /\ k.iat = cred[n].iat => k = cred[n]
      /\ cred[n].iat \in Nat
  BY KnownIs, Typed DEF Base
<1>2. /\ dir'[h][n] # None => /\ dir'[h][n].cred.iat <= cred[n].iat
                              /\ dir'[h][n].cred.iat \in Nat
                              /\ dir'[h][n].cred.iat = cred[n].iat => dir'[h][n].cred = cred[n]
      /\ recent'[h][n] # None => recent'[h][n] = cred[n]
  <2>1. dir'[h][n] \in Record \cup {None}
    BY DEF Base, TypeOK, Replica
  <2>2. dir'[h][n] # None => dir'[h][n].cred.iat \in Nat
    BY <2>1 DEF Record, Cred
  <2> QED
    BY <2>2 DEF Registry, NoneNewer
<1>3. \/ Known(h, n)' = cred[n]
      \/ /\ Overlay(h)'[n] = None /\ dir'[h][n] # None
         /\ Known(h, n)' = dir'[h][n].cred
  BY <1>2 DEF Known, Overlay, LiveRecord
<1>4. CASE k = cred[n]
  BY <1>1, <1>2, <1>3, <1>4
<1>5. CASE k # cred[n]
  <2>1. Overlay(h)[n] = None /\ dir[h][n] # None /\ k = dir[h][n].cred
    BY <1>5, KnownIs
  <2>2. Expired(cred[n])
    <3>1. recent[h][n] = cred[n] \/ Expired(cred[n])
      BY <1>5, <2>1 DEF CapsInv, Superseded
    <3>2. ~CaughtUp(h, n) \/ recent[h][n] # cred[n]
      BY <1>1, <1>5, <2>1 DEF CaughtUp
    <3> QED
      BY <1>1, <2>1, <3>1, <3>2 DEF Overlay
  <2>3. QuietStep(h) \/ \E m \in Node, c \in Cred : IssueStep(h, m, c)
    BY StepKinds DEF Base
  <2>4. /\ Expired(cred[n])' /\ (dir'[h][n] = None \/ dir'[h][n] = dir[h][n])
    <3>1. CASE QuietStep(h)
      <4>1. RecordKept(h, n)
        BY <3>1 DEF QuietStep, QuietFor
      <4>2. dir[n][n] # None => dir[n][n].cred = cred[n]
        BY DEF Registry, OwnIsCred
      <4> QED
        BY <1>1, <2>2, <3>1, <4>1, <4>2, DeadlinesForward DEF RecordKept, Dropped, Pushed
    <3>2. ASSUME NEW m \in Node, NEW c \in Cred, IssueStep(h, m, c)
          PROVE  Expired(cred[n])' /\ dir'[h][n] = dir[h][n]
      <4>1. now' = now /\ c.iat = now /\ last[m] < now /\ cred' = [cred EXCEPT ![m] = c]
        BY <3>2 DEF IssueStep
      <4>2. n # m
        <5>1. cred[n].iat <= last[n] /\ last[n] \in Nat /\ now \in Nat
          BY <1>1, Typed DEF Base, Registry, Dated
        <5>2. cred'[m] = c
          BY <4>1 DEF Base, TypeOK
        <5> QED
          BY <1>1, <4>1, <5>1, <5>2
      <4> QED
        BY <2>2, <3>2, <4>1, <4>2 DEF IssueStep, Expired
    <3> QED
      BY <2>3, <3>1, <3>2
  <2>5. Overlay(h)'[n] = None
    BY <1>2, <2>4 DEF Overlay
  <2>6. Known(h, n)' = dir'[h][n].cred /\ dir'[h][n] # None
    BY <2>5 DEF Known, LiveRecord
  <2> QED
    BY <2>1, <2>4, <2>6
<1> QED
  BY <1>4, <1>5

LEMMA GrantStays ==
  ASSUME Steady, Base, Registry, Base', Registry', CapsInv, [Next]_vars,
         NEW h \in Holder, NEW n \in Node, cred'[n] = cred[n],
         Known(h, n) # None, Known(h, n)' # None, Known(h, n)'.iat >= Known(h, n).iat,
         log'[h].setcaps[n].ts <= log[h].setcaps[n].ts
  PROVE  GrantedCaps(h, n)' = GrantedCaps(h, n)
<1> DEFINE k == Known(h, n)
<1>1. Known(h, n)' = k
  BY KnownStays
<1>2. k.iat \in Nat \ {0}
  BY KnownIs
<1> HIDE DEF k
<1>3. /\ log[h].setcaps[n].ts \in Nat /\ log'[h].setcaps[n].ts \in Nat /\ NoSetCaps.ts = 0
  <2>1. log[h] \in Log /\ log'[h] \in Log
    BY DEF Base, TypeOK, Replica
  <2> QED
    BY <2>1, CapsTyped
<1>4. DecisionKept(h, n)
  BY CapsStep DEF CapsInv
<1>5. CASE log'[h].setcaps[n] = log[h].setcaps[n]
  BY <1>1, <1>5 DEF GrantedCaps, CapsFor, k
<1>6. CASE /\ log'[h].setcaps[n] = NoSetCaps
           /\ \/ log[h].setcaps[n].ts <= log[h].tomb[n]
              \/ log[h].setcaps[n].ts <= file[h].tomb[n]
  <2>1. log[h].setcaps[n].ts < k.iat
    BY <1>6, DeadDecision DEF k
  <2>2. ~(log[h].setcaps[n].ts >= k.iat) /\ ~(log'[h].setcaps[n].ts >= k.iat)
    BY <1>2, <1>3, <1>6, <2>1
  <2>3. GrantedCaps(h, n) = k.caps
    BY <2>2 DEF GrantedCaps, CapsFor, k
  <2>4. GrantedCaps(h, n)' = k.caps
    BY <1>1, <2>2 DEF GrantedCaps, CapsFor
  <2> QED
    BY <2>3, <2>4
<1>7. n \notin log'[h].revoke
  BY DEF Known, RevokedAt
<1> QED
  BY <1>3, <1>4, <1>5, <1>6, <1>7 DEF DecisionKept

\* A renewal copies what was granted, so the next one grants it again.
LEMMA RenewalGrants ==
  ASSUME Base, Registry, CapsInv, Reliable, NEW h \in Holder, NEW n \in Node,
         NEW name \in Name, Renew(n, h, name)
  PROVE  GrantedCaps(h, n)' = GrantedCaps(h, n)
<1> DEFINE s == log[h].setcaps[n]
<1> SUFFICES ASSUME NEW c, c = RenewedCred(h, n, name)
             PROVE  GrantedCaps(h, n)' = GrantedCaps(h, n)
  OBVIOUS
<1>1. /\ Renewable(h, n, name)
      /\ Known(h, n) # None /\ n \notin RevokedAt(h)
      /\ UNCHANGED <<now, log, legacy>>
      /\ recent' = Issued(h, n, c) /\ dir' = [dir EXCEPT ![n][n] = OwnRecord(n, c)]
      /\ last[n] < now
  BY DEF Renew, Renewable, MayIssue, NewSecond, Reliable
<1>2. c = [iat |-> now, name |-> name, caps |-> CapsFor(log[h], n, Known(h, n))]
  BY DEF RenewedCred, NewCred
<1>3. c \in Cred /\ c # None
  BY <1>1, RenewedCredType, NoneIsNoData DEF Base
<1>4. h \in Replica /\ n \in Replica /\ h # n /\ log[h] \in Log /\ now \in Nat
  BY Disjoint DEF Base, TypeOK, Replica
<1>5. recent'[h][n] = c
  BY <1>1, ViewTypes DEF Issued, Base, TypeOK, Credentials
<1>6. dir'[h][n] = dir[h][n]
  BY <1>1, <1>4 DEF Base, TypeOK
<1>7. ~CaughtUp(h, n)'
  <2>1. dir[h][n] # None => /\ dir[h][n].cred.iat <= last[n]
                            /\ dir[h][n].cred.iat \in Nat /\ last[n] \in Nat
    <3>1. dir[h][n] # None => /\ cred[n] # None /\ cred[n].iat \in Nat
                              /\ dir[h][n].cred.iat <= cred[n].iat /\ cred[n].iat <= last[n]
                              /\ dir[h][n].cred.iat \in Nat /\ last[n] \in Nat
      BY Typed DEF Base, Registry, NoneNewer, Dated
    <3> QED
      BY <3>1
  <2>2. c.iat = now
    BY <1>2
  <2> QED
    BY <1>1, <1>4, <1>5, <1>6, <2>1, <2>2 DEF CaughtUp
<1>8. ~Expired(c)'
  BY <1>1, <1>2, <1>4, Durations DEF Expired
<1>9. Known(h, n)' = c
  <2>1. Overlay(h)'[n] = c
    BY <1>3, <1>5, <1>7, <1>8 DEF Overlay
  <2>2. n \notin RevokedAt(h)'
    BY <1>1 DEF RevokedAt
  <2> QED
    BY <1>3, <2>1, <2>2 DEF Known
<1>10. GrantedCaps(h, n)' = IF s.ts >= now THEN s.caps ELSE CapsFor(log[h], n, Known(h, n))
  BY <1>1, <1>2, <1>9 DEF GrantedCaps, CapsFor
<1>11. s.ts >= now => s.ts >= Known(h, n).iat
  <2>1. Known(h, n).iat \in Nat /\ Known(h, n).iat <= now
    BY <1>1, KnownIs
  <2>2. s.ts \in Nat
    BY <1>4, CapsTyped
  <2> QED
    BY <1>4, <2>1, <2>2
<1> QED
  BY <1>10, <1>11 DEF GrantedCaps, CapsFor

\* What the next renewal at the holder grants changes only with a newer decision
\* or an enrollment: not when a renewal copies it, when a prune drops a decision,
\* when the record catches up with the overlay or when a departed node publishes
\* on (CA._caps_for, StatementLog.prune).
THEOREM CapsDecisionsHold == Steady => (Spec => CapsDecisionHolds)
<1> SUFFICES ASSUME Steady PROVE Spec => CapsDecisionHolds
  OBVIOUS
<1> DEFINE Inv == Base /\ Registry /\ CapsInv
           Holds == \A h \in Holder, n \in Node :
                      /\ Known(h, n) # None /\ Known(h, n)' # None
                      /\ Known(h, n)'.iat >= Known(h, n).iat
                      /\ log'[h].setcaps[n].ts <= log[h].setcaps[n].ts
                      /\ cred'[n] = cred[n] \/ \E name \in Name : Renew(n, h, name)
                      => GrantedCaps(h, n)' = GrantedCaps(h, n)
<1>1. Init => Inv
  BY IssuanceInit, CapsInit
<1>2. Inv /\ [Next]_vars => Inv'
  BY BaseNext, RegistryNext, CapsInvNext
<1>3. Inv /\ [Next]_vars => Holds
  <2> SUFFICES ASSUME Inv, [Next]_vars PROVE Holds
    OBVIOUS
  <2>1. Base' /\ Registry'
    BY BaseNext, RegistryNext
  <2> QED
    BY <2>1, GrantStays, RenewalGrants DEF Steady
<1> HIDE DEF Inv, Holds
<1>4. Spec => [][Holds]_vars
  BY <1>1, <1>2, <1>3, PTL DEF Spec
<1> QED
  BY <1>4 DEF CapsDecisionHolds, Holds
=============================================================================
