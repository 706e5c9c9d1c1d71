----------------------------- MODULE Membership -----------------------------
(***************************************************************************)
(* The membership control plane of greasewood: credentials issued by the   *)
(* holders of the anchor file, the NodeRecords that carry them, the        *)
(* CA-signed statements (revoke, tombstone, setcaps) that end or change a  *)
(* membership, and the directory pull that spreads records and statements. *)
(* It composes ca.py, directory.py, statements.py, sync.py, sweep.py and   *)
(* the handlers of server.py and enroll.py that call them.                 *)
(*                                                                         *)
(* One unit of "now" is one second: the code truncates every iat and ts to *)
(* the second.  Signatures always verify (an invalid one is dropped before *)
(* it has an effect) and the records of the holders themselves, which only *)
(* make them dialable, are taken as known to everybody.                    *)
(***************************************************************************)
EXTENDS Integers, FiniteSets

CONSTANTS
  Holder,    \* nodes that hold the anchor file
  Node,      \* the other members: subjects of decisions, and replicas
  Name,      \* hostnames, after sanitizing
  Caps,      \* capability sets a credential can carry
  Pinned,    \* the members of Caps that contain "hostname-pinned"
  None,      \* the absence of a record or a credential
  Seed,      \* replica -> the holder behind the first URL it tries
  TTL,       \* lifetime of a credential
  GRACE,     \* DROP_GRACE
  Faults,    \* what may go wrong, see FaultKind
  Syncing,   \* bound: the replicas whose sync loop this instance runs
  MaxTime,   \* bound on the clock
  MaxSeq     \* bound on the sequence number of a record

Replica == Holder \cup Node

\* "flaky": a dial may time out, so a later URL answers or none does.
\* "lostReply": a reply of a holder is lost after the holder acted.
\* "installFail": the door cannot install the WireGuard peer of a joiner.
\* "restart": a daemon may stop and start again.
\* "sameSecond": two decisions about one node may share a second.
FaultKind == {"flaky", "lostReply", "installFail", "restart", "sameSecond"}

Cred == [iat : Nat \ {0}, name : Name, caps : Caps]
Record == [seq : Nat \ {0}, cred : Cred]

\* A setcaps statement with ts 0 stands for none.
SetCapsStmt == [ts : Nat, caps : Caps]

\* The newest statement per (kind, id).  Of a revoke only the presence
\* matters; a tombstone is its ts, 0 for none.
Log == [revoke : SUBSET Node, tomb : [Node -> Nat], setcaps : [Node -> SetCapsStmt]]

ASSUME Disjoint == Holder \cap Node = {}
ASSUME NoneIsNoData == None \notin Cred /\ None \notin Record
ASSUME SeedType == Seed \in [Holder \cup Node -> Holder]
ASSUME Durations == TTL \in Nat \ {0} /\ GRACE \in Nat
ASSUME PinnedType == Pinned \subseteq Caps
ASSUME CapsNonEmpty == Caps # {}
ASSUME FaultsType == Faults \subseteq FaultKind
ASSUME Bounds == Syncing \subseteq Holder \cup Node /\ MaxTime \in Nat /\ MaxSeq \in Nat

VARIABLES
  now,       \* the clock, the same everywhere
  dir,       \* replica -> node -> its record in that directory, or None
  log,       \* replica -> the daemon's StatementLog
  file,      \* replica -> statements.json, which a one-shot CLI also writes
  legacy,    \* replica -> revoked.json
  recent,    \* holder -> node -> CA._recent, the credential just issued
  cred,      \* node -> the credential the node last received
  last,      \* history: node -> the second of the last decision about it
  gone,      \* history: nodes that left and did not enroll again
  revoked    \* history: nodes some operator revoked

vars == <<now, dir, log, file, legacy, recent, cred, last, gone, revoked>>

-----------------------------------------------------------------------------
(* Credentials and records *)

\* Credential.verify refuses from exp on.
Expired(c) == now >= c.iat + TTL

\* directory._past_drop
PastDrop(c) == now >= c.iat + TTL + GRACE

\* Faulty variant: drops a record when it expires, without the grace.
PruneAtExpiry(d) ==
  [n \in Node |-> IF d[n] # None /\ Expired(d[n].cred) THEN None ELSE d[n]]

\* Directory.prune_stale as the sync loop and the sweep call it.
PruneStale(d) ==
  [n \in Node |-> IF d[n] # None /\ PastDrop(d[n].cred) THEN None ELSE d[n]]

\* Faulty variant: no fleet deadline on incoming records.
AcceptsPastDrop(old, r) == r # None /\ (old # None => r.seq > old.seq)

\* Directory.merge accepts r over what it holds of the same node.
Accepts(old, r) == /\ r # None
                   /\ ~PastDrop(r.cred)
                   /\ old # None => r.seq > old.seq

MergeRecord(old, r) == IF Accepts(old, r) THEN r ELSE old

\* Directory.merge of everything another directory serves.
MergeDir(d, e) == [n \in Node |-> MergeRecord(d[n], e[n])]

-----------------------------------------------------------------------------
(* Statements *)

NoSetCaps == [ts |-> 0, caps |-> CHOOSE c \in Caps : TRUE]

EmptyLog == [revoke |-> {}, tomb |-> [n \in Node |-> 0],
             setcaps |-> [n \in Node |-> NoSetCaps]]

\* StatementLog.merge: the newer statement of each (kind, id) stays.
MergeLog(l, m) ==
  [revoke  |-> l.revoke \cup m.revoke,
   tomb    |-> [n \in Node |-> IF m.tomb[n] > l.tomb[n] THEN m.tomb[n] ELSE l.tomb[n]],
   setcaps |-> [n \in Node |-> IF m.setcaps[n].ts > l.setcaps[n].ts
                               THEN m.setcaps[n] ELSE l.setcaps[n]]]

\* Faulty variant: a revoke goes with the tombstone minted beside it.
PruneRevokesToo(l) ==
  LET old == {n \in Node : now >= l.tomb[n] + GRACE}
  IN [revoke  |-> l.revoke \ old,
      tomb    |-> [n \in Node |-> IF n \in old THEN 0 ELSE l.tomb[n]],
      setcaps |-> l.setcaps]

\* StatementLog.prune: an old tombstone goes, and a setcaps whose membership
\* a tombstone or a revoke ended; revokes stay.
SetCapsEnded(l, n) == \/ l.tomb[n] > 0 /\ l.tomb[n] >= l.setcaps[n].ts
                      \/ n \in l.revoke

PruneLog(l) ==
  [revoke  |-> l.revoke,
   tomb    |-> [n \in Node |-> IF now >= l.tomb[n] + GRACE THEN 0 ELSE l.tomb[n]],
   setcaps |-> [n \in Node |-> IF SetCapsEnded(l, n) THEN NoSetCaps ELSE l.setcaps[n]]]

\* StatementLog.is_dead
IsDead(l, n, iat) == l.tomb[n] > 0 /\ iat <= l.tomb[n]

\* StatementLog.drop_dead_records, protecting the replica's own record.
DropDead(d, l, own) ==
  [n \in Node |-> IF n # own /\ d[n] # None /\ IsDead(l, n, d[n].cred.iat)
                  THEN None ELSE d[n]]

\* StatementLog.add of a statement minted now.
AddTombstone(l, n) == [l EXCEPT !.tomb[n] = now]
AddRevoke(l, n) == [l EXCEPT !.revoke = @ \cup {n}]
AddSetCaps(l, n, c) == [l EXCEPT !.setcaps[n] = [ts |-> now, caps |-> c]]

-----------------------------------------------------------------------------
(* What a holder answers from: the directory, the log and the overlay *)

\* CA.load_revoked_set; a plain member reads revoked.json alone.
RevokedAt(r) == IF r \in Holder THEN legacy[r] \cup log[r].revoke ELSE legacy[r]

\* The set GET /revoked answers with.
ServedRevoked(h) == legacy[h] \cup log[h].revoke

\* CA._gc_recent: an entry goes once the directory caught up or it expired.
CaughtUp(h, n) == dir[h][n] # None /\ dir[h][n].cred.iat >= recent[h][n].iat

Overlay(h) ==
  [n \in Node |-> IF recent[h][n] # None /\ (CaughtUp(h, n) \/ Expired(recent[h][n]))
                  THEN None ELSE recent[h][n]]

\* Faulty variant: tombstones are not consulted.
AnyRecord(h, n) == dir[h][n] # None

\* CA._live_record: there is a record and no tombstone ended its membership.
LiveRecord(h, n) == dir[h][n] # None /\ ~IsDead(log[h], n, dir[h][n].cred.iat)

\* Faulty variant: the record is asked before the overlay.
RecordFirst(h, n) ==
  IF n \in RevokedAt(h) THEN None
  ELSE IF LiveRecord(h, n) THEN dir[h][n].cred
  ELSE Overlay(h)[n]

\* CA.node_info: the credential a renewal copies from, None if unknown.
Known(h, n) ==
  IF n \in RevokedAt(h) THEN None
  ELSE IF Overlay(h)[n] # None THEN Overlay(h)[n]
  ELSE IF LiveRecord(h, n) THEN dir[h][n].cred
  ELSE None

\* CA._caps_for: a setcaps at or after the issue replaces the caps.
CapsFor(l, n, c) == IF l.setcaps[n].ts >= c.iat THEN l.setcaps[n].caps ELSE c.caps

\* CA.hostname_owner: the overlay is asked first, then the live records.
OverlayClaims(h, name) ==
  {n \in Node \ RevokedAt(h) : Overlay(h)[n] # None /\ Overlay(h)[n].name = name}
RecordClaims(h, name) ==
  {n \in Node \ RevokedAt(h) : LiveRecord(h, n) /\ dir[h][n].cred.name = name}

\* Faulty variant: the overlay of just-issued names is not consulted.
RecordOwners(h, name) == RecordClaims(h, name)

Owners(h, name) ==
  IF OverlayClaims(h, name) # {} THEN OverlayClaims(h, name) ELSE RecordClaims(h, name)

\* CA.issue signs for n under this name.
MayIssue(h, n, name) == /\ n \notin RevokedAt(h)
                        /\ Owners(h, name) \subseteq {n} \/ n \in Owners(h, name)

NewCred(name, caps) == [iat |-> now, name |-> name, caps |-> caps]

\* The overlay after CA.issue.
Issued(h, n, c) == [recent EXCEPT ![h] = [Overlay(h) EXCEPT ![n] = c]]

\* Faulty variant: counts from 0.
SeqFromZero(n) == IF dir[n][n] = None THEN 0 ELSE dir[n][n].seq + 1

\* The record a node signs next: its own seq + 1, or 1 when it has none.
NextSeq(n) == IF dir[n][n] = None THEN 1 ELSE dir[n][n].seq + 1
OwnRecord(n, c) == [seq |-> NextSeq(n), cred |-> c]

\* Bounds the model, not the code.
SeqLeft(n) == NextSeq(n) <= MaxSeq

\* Without "sameSecond" two decisions about one node get distinct seconds.
NewSecond(n) == "sameSecond" \in Faults \/ last[n] < now
Stamp(n) == last' = [last EXCEPT ![n] = now]

-----------------------------------------------------------------------------
(* Enrollment through the door of holder h *)

\* The joiner got its credential; its first record reached h or did not.
Enroll(h, n, name, caps, landed) ==
  LET c == NewCred(name, caps)
      r == OwnRecord(n, c)
  IN /\ NewSecond(n) /\ SeqLeft(n)
     /\ MayIssue(h, n, name)
     /\ recent' = Issued(h, n, c)
     /\ cred' = [cred EXCEPT ![n] = c]
     /\ dir' = IF landed
               THEN [dir EXCEPT ![n][n] = r, ![h][n] = MergeRecord(@, r)]
               ELSE [dir EXCEPT ![n][n] = r]
     /\ gone' = gone \ {n}
     /\ Stamp(n)
     /\ UNCHANGED <<now, log, file, legacy, revoked>>

\* The reply with the credential is lost: the overlay keeps the claim.
EnrollLost(h, n, name, caps) ==
  /\ "lostReply" \in Faults
  /\ NewSecond(n)
  /\ MayIssue(h, n, name)
  /\ recent' = Issued(h, n, NewCred(name, caps))
  /\ Stamp(n)
  /\ UNCHANGED <<now, dir, log, file, legacy, cred, gone, revoked>>

\* The peer cannot be installed: the claim is rolled back, unless n was a
\* known member before the attempt.
EnrollRefused(h, n, name, caps) ==
  /\ "installFail" \in Faults
  /\ NewSecond(n)
  /\ MayIssue(h, n, name)
  /\ recent' = Issued(h, n, IF Known(h, n) = None THEN None ELSE NewCred(name, caps))
  /\ Stamp(n)
  /\ UNCHANGED <<now, dir, log, file, legacy, cred, gone, revoked>>

-----------------------------------------------------------------------------
(* Renewal and rename: POST /renew at h, then the node's own next record *)

Renewable(h, n, name) ==
  LET k == Known(h, n)
  IN /\ k # None
     /\ name = k.name \/ CapsFor(log[h], n, k) \notin Pinned
     /\ MayIssue(h, n, name)

\* Faulty variant: the caps are copied without the operator's decision.
RenewedOldCaps(h, n, name) == NewCred(name, Known(h, n).caps)

RenewedCred(h, n, name) == NewCred(name, CapsFor(log[h], n, Known(h, n)))

Renew(n, h, name) ==
  /\ cred[n] # None
  /\ NewSecond(n) /\ SeqLeft(n)
  /\ Renewable(h, n, name)
  /\ LET c == RenewedCred(h, n, name)
     IN /\ recent' = Issued(h, n, c)
        /\ cred' = [cred EXCEPT ![n] = c]
        /\ dir' = [dir EXCEPT ![n][n] = OwnRecord(n, c)]
  /\ Stamp(n)
  /\ UNCHANGED <<now, log, file, legacy, gone, revoked>>

RenewLost(n, h, name) ==
  /\ "lostReply" \in Faults
  /\ cred[n] # None
  /\ NewSecond(n)
  /\ Renewable(h, n, name)
  /\ recent' = Issued(h, n, RenewedCred(h, n, name))
  /\ Stamp(n)
  /\ UNCHANGED <<now, dir, log, file, legacy, cred, gone, revoked>>

\* A request that CA.node_info refuses still garbage-collects the overlay.
RefuseUnknown(h) ==
  /\ recent' = [recent EXCEPT ![h] = Overlay(h)]
  /\ UNCHANGED <<now, dir, log, file, legacy, cred, last, gone, revoked>>

\* _republish_own_record: the same credential under the next seq.
Republish(n) ==
  /\ dir[n][n] # None
  /\ SeqLeft(n)
  /\ dir' = [dir EXCEPT ![n][n] = OwnRecord(n, @.cred)]
  /\ UNCHANGED <<now, log, file, legacy, recent, cred, last, gone, revoked>>

\* POST /publish: h verifies expiry and revocation, not tombstones, and merges.
Push(n, h) ==
  LET r == dir[n][n]
  IN /\ r # None
     /\ ~Expired(r.cred)
     /\ n \notin RevokedAt(h)
     /\ dir' = [dir EXCEPT ![h][n] = MergeRecord(@, r)]
     /\ UNCHANGED <<now, log, file, legacy, recent, cred, last, gone, revoked>>

-----------------------------------------------------------------------------
(* Decisions *)

\* POST /leave runs in h's daemon: CA.forget_node.  The daemon writes its
\* log over statements.json.  A node whose confirmation is lost runs on.
Leave(n, h) ==
  /\ cred[n] # None
  /\ NewSecond(n)
  /\ recent' = [recent EXCEPT ![h][n] = None]
  /\ log' = [log EXCEPT ![h] = AddTombstone(@, n)]
  /\ file' = [file EXCEPT ![h] = AddTombstone(log[h], n)]
  /\ dir' = [dir EXCEPT ![h][n] = None]
  /\ gone' = gone \cup {n}
  /\ Stamp(n)
  /\ UNCHANGED <<now, legacy, cred, revoked>>

\* `gw revoke` is a process of its own: it writes revoked.json, which the
\* daemon reads on every use, and adds to statements.json, which the daemon
\* merges at its next pull.
Revoke(h, n) ==
  /\ NewSecond(n)
  /\ legacy' = [legacy EXCEPT ![h] = @ \cup {n}]
  /\ file' = [file EXCEPT ![h] = AddTombstone(AddRevoke(@, n), n)]
  /\ revoked' = revoked \cup {n}
  /\ Stamp(n)
  /\ UNCHANGED <<now, dir, log, recent, cred, gone>>

\* `gw set-caps`, likewise: its CA has an empty overlay and sees what
\* loading the two files leaves.
SetCaps(h, n, caps) ==
  /\ NewSecond(n)
  /\ n \notin legacy[h] \cup file[h].revoke
  /\ dir[h][n] # None
  /\ ~PastDrop(dir[h][n].cred) /\ ~IsDead(file[h], n, dir[h][n].cred.iat)
  /\ file' = [file EXCEPT ![h] = AddSetCaps(@, n, caps)]
  /\ Stamp(n)
  /\ UNCHANGED <<now, dir, log, legacy, recent, cred, gone, revoked>>

-----------------------------------------------------------------------------
(* The daemon's loops *)

\* SyncLoop._pull_once re-reads statements.json before it dials.
Reread(r) == MergeLog(log[r], file[r])

\* Faulty variant: every holder dials itself first, as its renewal loop does.
AnsweringSelfFirst(r) == IF r \in Holder THEN {r} ELSE {Seed[r]}

\* The holders r may get an answer from: it stops at the first, and a holder
\* that dials its own loopback address always gets one.
Answering(r) ==
  IF Seed[r] = r \/ "flaky" \notin Faults THEN {Seed[r]} ELSE {Seed[r]} \cup (Holder \ {r})

\* A pull answered by h.  The second request, for /revoked, may fail.
Pull(r, h, revokedToo) ==
  LET mine  == Reread(r)
      heard == MergeLog(mine, IF h = r THEN mine ELSE log[h])
      kept  == PruneLog(heard)
      recs  == MergeDir(PruneStale(dir[r]), dir[h])
  IN /\ h \in Answering(r)
     /\ revokedToo \/ "flaky" \in Faults
     /\ log' = [log EXCEPT ![r] = kept]
     /\ file' = IF heard # mine THEN [file EXCEPT ![r] = kept] ELSE file
     /\ dir' = [dir EXCEPT ![r] = DropDead(recs, kept, r)]
     /\ legacy' = IF revokedToo
                  THEN [legacy EXCEPT ![r] = IF h = r THEN legacy[r] \cup kept.revoke
                                             ELSE ServedRevoked(h)]
                  ELSE legacy
     /\ UNCHANGED <<now, recent, cred, last, gone, revoked>>

\* A pull that no holder answered.
PullUnanswered(r) ==
  /\ "flaky" \in Faults /\ Seed[r] # r
  /\ log' = [log EXCEPT ![r] = Reread(r)]
  /\ dir' = [dir EXCEPT ![r] = PruneStale(@)]
  /\ UNCHANGED <<now, file, legacy, recent, cred, last, gone, revoked>>

\* StaleSweep._tick on a holder
Sweep(h) ==
  /\ dir' = [dir EXCEPT ![h] = PruneStale(@)]
  /\ log' = [log EXCEPT ![h] = PruneLog(@)]
  /\ UNCHANGED <<now, file, legacy, recent, cred, last, gone, revoked>>

\* A daemon stops and starts again: it reloads its files; the overlay of a
\* holder is in-process only.
Restart(r) ==
  /\ "restart" \in Faults
  /\ log' = [log EXCEPT ![r] = file[r]]
  /\ dir' = [dir EXCEPT ![r] = PruneStale(@)]
  /\ recent' = IF r \in Holder
               THEN [recent EXCEPT ![r] = [n \in Node |-> None]]
               ELSE recent
  /\ UNCHANGED <<now, file, legacy, cred, last, gone, revoked>>

Tick == /\ now < MaxTime
        /\ now' = now + 1
        /\ UNCHANGED <<dir, log, file, legacy, recent, cred, last, gone, revoked>>

-----------------------------------------------------------------------------
Init ==
  /\ now = 1
  /\ dir = [r \in Replica |-> [n \in Node |-> None]]
  /\ log = [r \in Replica |-> EmptyLog]
  /\ file = [r \in Replica |-> EmptyLog]
  /\ legacy = [r \in Replica |-> {}]
  /\ recent = [h \in Holder |-> [n \in Node |-> None]]
  /\ cred = [n \in Node |-> None]
  /\ last = [n \in Node |-> 0]
  /\ gone = {}
  /\ revoked = {}

DoorStep(h, n) ==
  \E name \in Name, caps \in Caps :
     \/ \E landed \in BOOLEAN : Enroll(h, n, name, caps, landed)
     \/ EnrollLost(h, n, name, caps)
     \/ EnrollRefused(h, n, name, caps)

NodeStep(n, h) ==
  \/ \E name \in Name : Renew(n, h, name) \/ RenewLost(n, h, name)
  \/ Push(n, h)
  \/ Leave(n, h)

OperatorStep(h, n) == Revoke(h, n) \/ \E caps \in Caps : SetCaps(h, n, caps)

SyncStep(r) == (\E h \in Holder, b \in BOOLEAN : Pull(r, h, b)) \/ PullUnanswered(r)

Next ==
  \/ \E h \in Holder, n \in Node : DoorStep(h, n) \/ NodeStep(n, h) \/ OperatorStep(h, n)
  \/ \E n \in Node : Republish(n)
  \/ \E h \in Holder : RefuseUnknown(h) \/ Sweep(h)
  \/ \E r \in Syncing : SyncStep(r)
  \/ \E r \in Replica : Restart(r)
  \/ Tick

Spec == Init /\ [][Next]_vars

\* The sync loop of every daemon ticks for ever, and the holder behind its
\* first URL answers again and again.
Fairness == \A r \in Syncing : WF_vars(Pull(r, Seed[r], TRUE))

FairSpec == Spec /\ Fairness

-----------------------------------------------------------------------------
(* Properties *)

\* Every variable has its type: what the code keeps in each cache.
TypeOK ==
  /\ now \in Nat \ {0}
  /\ dir \in [Replica -> [Node -> Record \cup {None}]]
  /\ log \in [Replica -> Log]
  /\ file \in [Replica -> Log]
  /\ legacy \in [Replica -> SUBSET Node]
  /\ recent \in [Holder -> [Node -> Cred \cup {None}]]
  /\ cred \in [Node -> Cred \cup {None}]
  /\ last \in [Node -> Nat]
  /\ gone \subseteq Node
  /\ revoked \subseteq Node

\* A member in good standing: its credential is unexpired and nobody ended
\* its membership.
InGoodStanding(n) == /\ cred[n] # None /\ ~Expired(cred[n])
             /\ n \notin gone \cup revoked

\* Within one holder two members never hold the same hostname: the overlay
\* of just-issued credentials covers the gap until a record lands, through
\* renames, departures and re-enrollments (CA.issue, CA.hostname_owner).
NameExclusive ==
  \A m, n \in Node :
     m # n /\ InGoodStanding(m) /\ InGoodStanding(n) => cred[m].name # cred[n].name

\* There is no private registry: what a holder would renew a member from,
\* overlay or record, is exactly the credential the member holds, so no
\* renewal brings back an older hostname or older caps (CA.node_info).
RegistryIsCurrent ==
  \A h \in Holder, n \in Node : InGoodStanding(n) => Known(h, n) = cred[n]

\* What the next renewal at a holder grants changes only when the daemon
\* merges a newer setcaps statement or the node enrolls again: not by a
\* renewal, a prune, or the record catching up (CA._caps_for).  Only an
\* overlay entry that expires unpublished takes the holder's view back.
GrantedCaps(h, n) == CapsFor(log[h], n, Known(h, n))

CapsDecisionHolds ==
  [][\A h \in Holder, n \in Node :
       /\ Known(h, n) # None /\ Known(h, n)' # None
       /\ Known(h, n)'.iat >= Known(h, n).iat
       /\ log'[h].setcaps[n].ts <= log[h].setcaps[n].ts
       /\ cred'[n] = cred[n] \/ \E name \in Name : Renew(n, h, name)
       => GrantedCaps(h, n)' = GrantedCaps(h, n)]_vars

\* A node that left is unknown to the holder it left at for as long as that
\* holder keeps the tombstone, although its daemon may go on publishing its
\* record (CA.forget_node, ControlHandler._handle_leave).
DepartedUnknown ==
  \A h \in Holder, n \in Node : n \in gone /\ log[h].tomb[n] > 0 => Known(h, n) = None

\* The copies of a node's record that the fleet still admits are ordered:
\* copies with one seq are the same record, and a higher seq never carries
\* an older credential, although seq restarts at 1 whenever a node lost its
\* own record (Directory.merge, prune_stale without protection in sync.py).
Current(d) == d # None /\ ~PastDrop(d.cred)

SeqOrder ==
  \A p, q \in Replica, n \in Node :
     LET d == dir[p][n]
         e == dir[q][n]
     IN Current(d) /\ Current(e) =>
          /\ d.seq = e.seq => d = e
          /\ d.seq < e.seq => d.cred.iat <= e.cred.iat

\* A directory that replaces a record never goes back to a credential that
\* was issued earlier (Directory.merge compares seq alone).
NeverOlder ==
  [][\A r \in Replica, n \in Node :
       dir[r][n] # None /\ dir'[r][n] # None =>
         dir'[r][n].cred.iat >= dir[r][n].cred.iat]_vars

\* The revoke statements the daemons know implement RevokeSet: a restart, a
\* prune or a write over statements.json takes none away from a daemon.
Abstract == INSTANCE RevokeSet WITH
  Member <- Replica, Subject <- Node,
  decided <- revoked, seen <- [r \in Replica |-> log[r].revoke]

RevokeSetSpec == Abstract!Spec

\* A revocation that reached the holder everybody dials first takes effect
\* everywhere in the end, and for good.
RevokeSticks ==
  \A h \in Holder, n \in Node :
     Seed[h] = h /\ n \in log[h].revoke ~> [](\A r \in Replica : n \in RevokedAt(r))

-----------------------------------------------------------------------------
(* What the repository says and the code does not keep: see the findings *)

\* statements.py: the record a pruned tombstone could still kill expired
\* long past the grace.
PrunedTombstoneKillsNothing ==
  [][\A r, q \in Replica, n \in Node :
       /\ log[r].tomb[n] > 0 /\ log'[r].tomb[n] = 0
       /\ q # n /\ dir[q][n] # None /\ IsDead(log[r], n, dir[q][n].cred.iat)
       => PastDrop(dir[q][n].cred)]_vars

\* ca.py: departed nodes hold no hostname.
DepartedHoldNothing ==
  \A h \in Holder, name \in Name :
     \A n \in OverlayClaims(h, name) : ~IsDead(log[h], n, Overlay(h)[n].iat)

\* wire.py: a re-enrollment mints a credential the tombstones of the earlier
\* membership do not touch.
ReenrollmentLives ==
  [][\A n \in Node : n \in gone /\ n \notin gone' =>
       \A r \in Replica : ~IsDead(log[r], n, cred'[n].iat)]_vars

\* wire.py: once a holder has seen a revoke, the id stays revoked; a member
\* never takes a revoked id back.
RevokeNeverLapses == [][\A r \in Replica : RevokedAt(r) \subseteq RevokedAt(r)']_vars

\* daemon.py: holders pull from the other holders, so a revocation one of
\* them knows reaches every holder.
RevokeReachesHolders ==
  \A h, g \in Holder, n \in Node : n \in log[h].revoke ~> n \in log[g].revoke
=============================================================================
