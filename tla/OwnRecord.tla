----------------------------- MODULE OwnRecord -----------------------------
(***************************************************************************)
(* One node's own record and everything that signs it anew: the renewal    *)
(* loop, the reconcile loop when the set of live links changed, the        *)
(* endpoint loop, the daemon at its start, and a `gw renew` or             *)
(* `gw rename-node` beside it.  Each reads the record of its directory,    *)
(* signs a successor with the next seq, puts it into the directory, saves  *)
(* directory.json and pushes the successor to a holder; no lock spans two  *)
(* of these steps.  A holder keeps the record with the higher seq.         *)
(***************************************************************************)
EXTENDS Naturals

CONSTANTS Addr,        \* the addresses the host may have
          Configured,  \* the one in its config file
          Undisturbed, \* no publication starts while another is under way,
                       \* and no save fails
          MaxGen,      \* bound: credentials issued
          MaxChanges,  \* bound: changes of the address and of the live links
          MaxFaults    \* bound: lost contacts, stops, lost files

ASSUME OwnRecordAssumption ==
    /\ Configured \in Addr /\ Undisturbed \in BOOLEAN
    /\ MaxGen \in Nat \ {0} /\ MaxChanges \in Nat /\ MaxFaults \in Nat

Threads == {"startup", "renewal", "reconcile", "endpoints"}
Publishers == Threads \cup {"command"}

\* A record: its seq, the credential in it by order of issue, the address it
\* advertises and the live links it names.
None == [seq |-> 0, gen |-> 0, addr |-> Configured, links |-> 0]
Idle == [at |-> "idle", rec |-> None]
Joined == [None EXCEPT !.seq = 1, !.gen = 1]

VARIABLES
    dir,      \* the own record in the daemon's Directory
    file,     \* the own record in directory.json
    anchor,   \* the node's record at the holder
    work,     \* the publications under way
    held,     \* RenewalLoop._cred, 0 when the loop was not started
    renewed,  \* its last attempt succeeded
    sent,     \* ReconcileLoop._last_reachable, MaxChanges + 1 for None
    started,  \* "down", "starting" or "up"
    issued,   \* credentials issued to the node
    real,     \* the address the host has
    live,     \* the links that carry traffic
    net,      \* the holder can be reached
    changes, faults

vars == <<dir, file, anchor, work, held, renewed, sent, started, issued, real,
          live, net, changes, faults>>
daemon == <<dir, held, renewed, sent, started>>
world == <<issued, real, live, net, changes, faults>>

Higher(r, s) == IF s.seq > r.seq THEN s ELSE r

NoneSent == MaxChanges + 1

Init ==
    /\ dir = Joined /\ file = Joined /\ anchor = Joined
    /\ work = [t \in Publishers |-> Idle]
    /\ held = 1 /\ renewed = FALSE /\ sent = NoneSent /\ started = "up"
    /\ issued = 1 /\ real = Configured /\ live = 0 /\ net = TRUE
    /\ changes = 0 /\ faults = 0

MayPublish(t) == Undisturbed => \A u \in Publishers : work[u] = Idle

At(t, step) == work[t].at = step
Goto(t, step, rec) == work' = [work EXCEPT ![t] = [at |-> step, rec |-> rec]]

\* A successor of what was read, for the caller to change.
SameSeq(r) == r
NextOf(r) == [r EXCEPT !.seq = @ + 1]

Begin(t, rec) == At(t, "idle") /\ MayPublish(t) /\ Goto(t, "put", rec)

(***************************************************************************)
(* Who publishes what.                                                     *)
(***************************************************************************)

\* A holder answers the renewal; the loop signs the addresses it was started
\* with and keeps the links.
RenewCredential ==
    /\ started = "up" /\ held > 0 /\ net
    /\ issued < MaxGen /\ issued' = issued + 1
    /\ held' = issued + 1 /\ renewed' = FALSE
    /\ Begin("renewal",
             [NextOf(dir) EXCEPT !.gen = issued + 1, !.addr = Configured])
    /\ UNCHANGED <<dir, file, anchor, sent, started, real, live, net, changes, faults>>

\* Nothing is signed before the node knows its record.
Anyhow == TRUE
Known == dir # None

PublishLinks ==
    /\ started # "down" /\ live # sent /\ Known
    /\ Begin("reconcile", [NextOf(dir) EXCEPT !.links = live])
    /\ UNCHANGED <<daemon, file, anchor, world>>

\* Detection is compared with what the record advertises.
SinceStart == Configured
Advertised == IF dir # None THEN dir.addr ELSE Configured

Readvertise ==
    /\ started = "up" /\ real # Advertised /\ Known
    /\ Begin("endpoints", [NextOf(dir) EXCEPT !.addr = real])
    /\ UNCHANGED <<daemon, file, anchor, world>>

\* At its start the daemon goes back to the configured address.
HonorConfig ==
    /\ started = "starting"
    /\ IF dir # None /\ dir.addr # Configured
       THEN Begin("startup", [NextOf(dir) EXCEPT !.addr = Configured])
       ELSE At("startup", "idle") /\ MayPublish("startup")
            /\ Goto("startup", "push", dir)
    /\ UNCHANGED <<daemon, file, anchor, world>>

\* The command loads the file and signs beside the daemon.
RunCommand ==
    /\ net /\ issued < MaxGen /\ issued' = issued + 1 /\ file # None
    /\ Begin("command", [NextOf(file) EXCEPT !.gen = issued + 1])
    /\ UNCHANGED <<daemon, file, anchor, real, live, net, changes, faults>>

(***************************************************************************)
(* The steps they share.                                                   *)
(***************************************************************************)

Put(t) ==
    /\ At(t, "put") /\ Goto(t, "save", work[t].rec)
    /\ dir' = IF t = "command" THEN dir ELSE work[t].rec
    /\ UNCHANGED <<file, anchor, held, renewed, sent, started, world>>

\* The daemon saves what its directory holds by now.
Unsaved(t) == file
Saved(t) == IF t = "command" THEN work[t].rec ELSE dir

Save(t) ==
    /\ At(t, "save") /\ Goto(t, "push", work[t].rec)
    /\ file' = Saved(t)
    /\ UNCHANGED <<daemon, anchor, world>>

\* Publishing to the own directory is not enough for a renewal.
Local == TRUE
Answered == net

\* What a push leaves at the holder, and what its caller makes of it: the
\* renewal loop tries again unless it was answered, the others do not.
Push(t) ==
    /\ At(t, "push") /\ t # "command"
    /\ work' = [work EXCEPT ![t] = Idle]
    /\ anchor' = IF net THEN Higher(anchor, work[t].rec) ELSE anchor
    /\ renewed' = IF t = "renewal" THEN Answered ELSE renewed
    /\ sent' = IF t = "reconcile" THEN work[t].rec.links ELSE sent
    /\ started' = IF t = "startup" THEN "up" ELSE started
    /\ held' = IF t = "startup" THEN work[t].rec.gen ELSE held
    /\ UNCHANGED <<dir, file, world>>

\* A command restarts the daemon when it is done.
Stopped ==
    /\ started' = "down" /\ dir' = None /\ held' = 0 /\ renewed' = FALSE
    /\ sent' = NoneSent

NotRestarted == UNCHANGED daemon
AfterCommand == Stopped

FinishCommand ==
    /\ At("command", "push")
    /\ anchor' = IF net THEN Higher(anchor, work["command"].rec) ELSE anchor
    /\ AfterCommand /\ work' = [t \in Publishers |-> Idle]
    /\ UNCHANGED <<file, world>>

\* After a failure the whole renewal is done again.
Retry ==
    /\ started = "up" /\ held > 0 /\ ~renewed /\ held > anchor.gen /\ net
    /\ Begin("renewal", [NextOf(dir) EXCEPT !.gen = held, !.addr = Configured])
    /\ UNCHANGED <<daemon, file, anchor, world>>

\* One pull of the sync loop: the file first, then what the holder serves.
Pull ==
    /\ started # "down"
    /\ LET merged == Higher(Higher(dir, file), IF net THEN anchor ELSE None)
       IN  /\ dir' = merged
           /\ file' = IF net /\ anchor.seq > Higher(dir, file).seq
                      THEN merged ELSE file
    /\ UNCHANGED <<anchor, work, held, renewed, sent, started, world>>

Start ==
    /\ started = "down"
    /\ started' = "starting" /\ dir' = file
    /\ UNCHANGED <<file, anchor, work, held, renewed, sent, world>>

Stop ==
    /\ started # "down" /\ faults < MaxFaults /\ faults' = faults + 1
    /\ Stopped
    /\ work' = [t \in Publishers |-> IF t = "command" THEN work[t] ELSE Idle]
    /\ UNCHANGED <<file, anchor, issued, real, live, net, changes>>

\* directory.json becomes unreadable while the daemon is down.
LoseFile ==
    /\ started = "down" /\ faults < MaxFaults /\ faults' = faults + 1
    /\ At("command", "idle") /\ file' = None
    /\ UNCHANGED <<daemon, anchor, work, issued, real, live, net, changes>>

CutOff ==
    /\ net /\ faults < MaxFaults /\ faults' = faults + 1 /\ net' = FALSE
    /\ UNCHANGED <<daemon, file, anchor, work, issued, real, live, changes>>

Reach ==
    /\ ~net /\ net' = TRUE
    /\ UNCHANGED <<daemon, file, anchor, work, issued, real, live, changes, faults>>

Change ==
    /\ changes < MaxChanges /\ changes' = changes + 1
    /\ \/ live' = live + 1 /\ UNCHANGED real
       \/ real' \in Addr \ {real} /\ UNCHANGED live
    /\ UNCHANGED <<daemon, file, anchor, work, issued, net, faults>>

Step(t) == Put(t) \/ Save(t) \/ Push(t)

Next ==
    \/ RenewCredential \/ Retry \/ PublishLinks \/ Readvertise \/ HonorConfig
    \/ RunCommand \/ FinishCommand \/ Pull \/ Start
    \/ \E t \in Publishers : Step(t)
    \/ Stop \/ LoseFile \/ CutOff \/ Reach \/ Change

Spec == Init /\ [][Next]_vars

\* The daemon's threads and a command under way go on; a daemon is started
\* again, a lost holder comes back.
FairSpec ==
    /\ Spec
    /\ WF_vars(Retry) /\ WF_vars(PublishLinks) /\ SF_vars(Readvertise)
    /\ WF_vars(HonorConfig) /\ WF_vars(FinishCommand) /\ WF_vars(Pull)
    /\ WF_vars(Start) /\ WF_vars(Reach)
    /\ \A t \in Publishers : WF_vars(Step(t))

----------------------------------------------------------------------------

MaxSeq == 20
Records ==
    [seq : 1..MaxSeq, gen : 1..issued, addr : Addr, links : 0..MaxChanges] \cup {None}

OwnTypeOK ==
    /\ {dir, file, anchor} \subseteq Records
    /\ \A t \in Publishers :
          work[t] \in [at : {"idle", "put", "save", "push"}, rec : Records]
    /\ held \in 0..MaxGen /\ renewed \in BOOLEAN /\ sent \in 0..NoneSent
    /\ started \in {"down", "starting", "up"}
    /\ issued \in 1..MaxGen /\ real \in Addr /\ live \in 0..MaxChanges

\* No two different records of the node carry one seq: the copies compose
\* (_republish_own_record).
SeqOnce ==
    \A r, s \in {dir, file, anchor} : r.seq = s.seq => r = s

\* What a holder was told is on disk, so that a restart never signs a seq
\* again (Directory.save before push_record).
OnDisk == file # None => anchor.seq <= file.seq

\* A credential whose renewal succeeded is the one the holder serves, and no
\* later publication of another thread takes it back (renewal.py).
Served == renewed => anchor.gen >= held

\* The holder never goes back to an older credential of the node.
GenGrows == [][anchor'.gen >= anchor.gen]_anchor

\* If no publication fails, the holder ends up with the address the host has
\* and the links that are live.
Announced ==
    [](faults = 0) => <>[](anchor.addr = real /\ anchor.links = live)
=============================================================================
