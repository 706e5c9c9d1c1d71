------------------------------ MODULE Upgrade -------------------------------
(***************************************************************************)
(* The fleet's release announcements (gw upgrade-all) and what a host does *)
(* about them: the UpgradeManager of each daemon, which fetches, verifies  *)
(* and reinstalls, and the operator's own gw upgrade.                      *)
(*                                                                         *)
(* One host, several memberships: each daemon follows the announcements of *)
(* its own mesh, and all of them run from the one pipx install.  How an    *)
(* announcement travels is Membership's subject; here it arrives with the  *)
(* daemon's next pull.                                                     *)
(***************************************************************************)
EXTENDS Integers

CONSTANTS
  Daemons,     \* the memberships of this host
  Opted,       \* those with auto_upgrade on (a pipx install, not macOS)
  Managed,     \* those a service manager restarts
  MaxVersion, MaxAnnounced, MaxMoves, MaxHands, MaxFaults   \* bounds

ASSUME OptedAssumption == Opted \subseteq Daemons /\ Managed \subseteq Daemons
ASSUME UpgradeBounds == /\ MaxVersion \in Nat \ {0} /\ MaxAnnounced \in Nat
                        /\ MaxMoves \in Nat /\ MaxHands \in Nat /\ MaxFaults \in Nat

VARIABLES
  tag,         \* version -> the tarball that its tag serves
  announced,   \* announcements so far: the announcing clock
  hint,        \* daemon -> the newest announcement of its mesh
  disk,        \* the installed release, if there is one
  torn,        \* history: an installer gave up between its uninstall and its install
  runs,        \* daemon -> the version it loaded
  try,         \* daemon -> its scheduled or running attempt
  failed,      \* daemon -> ts of the announcement that failed
  cooling,     \* daemon -> has its hour of back-off not passed
  hand,        \* the operator's gw upgrade
  hands, faults   \* how often: upgrades by hand, failures

mesh == <<tag, announced, hint>>
manager == <<try, failed, cooling>>
counts == <<hands, faults>>
install == <<disk, torn>>
vars == <<mesh, install, runs, manager, hand, counts>>

Versions == 1..MaxVersion

\* The tarballs of one version, in the order in which its tag served them.
Tarballs == 0..MaxMoves

Absent == [v |-> 0]
Down == 0
NoHint == [ts |-> 0]
NoTry == [pc |-> "none"]
NoHand == [pc |-> "none"]

\* upgrade announcement: version and sha256, latest ts wins.
Hint == [ts : 1..MaxAnnounced, v : Versions, sha : Tarballs]

Release == [v : Versions, art : Tarballs, by : {"hand", "manager"}]

\* A release the operator installed, from wherever.
ByHand(v) == [v |-> v, art |-> 0, by |-> "hand"]

Init ==
  /\ tag = [v \in Versions |-> 0] /\ announced = 0
  /\ hint = [d \in Daemons |-> NoHint]
  /\ disk = ByHand(1) /\ torn = FALSE
  /\ runs = [d \in Daemons |-> 1]
  /\ try = [d \in Daemons |-> NoTry] /\ failed = [d \in Daemons |-> 0]
  /\ cooling = [d \in Daemons |-> FALSE]
  /\ hand = NoHand /\ hands = 0 /\ faults = 0

\* gw upgrade-all: a holder hashes what the tag serves and signs it.
Announce(d, v) ==
  /\ announced < MaxAnnounced /\ announced' = announced + 1
  /\ hint' = [hint EXCEPT ![d] = [ts |-> announced + 1, v |-> v, sha |-> tag[v]]]
  /\ UNCHANGED <<tag, install, runs, manager, hand, counts>>

\* upgrade_hint.
Told(d, v) == hint[d] # NoHint /\ hint[d].v = v

\* is_newer; without an install the version reads 0.0.0+unknown.
Newer(v) == v > disk.v

-----------------------------------------------------------------------------
(* UpgradeManager *)

\* After every pull: one attempt at a time, and an hour's back-off from an
\* announcement that failed.
Offer(d) ==
  /\ d \in Opted /\ runs[d] # Down /\ hint[d] # NoHint /\ Newer(hint[d].v)
  /\ try[d] = NoTry /\ ~(failed[d] = hint[d].ts /\ cooling[d])
  /\ try' = [try EXCEPT ![d] = [pc |-> "check", hint |-> hint[d]]]
  /\ UNCHANGED <<mesh, install, runs, failed, cooling, hand, counts>>

\* Faulty variant: the old release goes before the new one is fetched.
UninstallFirst == [check |-> "uninstall", uninstall |-> "fetch", fetch |-> "install",
                   install |-> "restart"]

\* The step that comes after pc in an attempt.
Succ == [check |-> "fetch", fetch |-> "uninstall", uninstall |-> "install",
         install |-> "restart"]

At(d, pc) == try[d].pc = pc
Proceed(d) == try' = [try EXCEPT ![d].pc = Succ[@]] /\ UNCHANGED <<failed, cooling>>

\* Faulty variant: an attempt that fails leaves its timer behind.
KeepTimer(d) ==
  /\ failed' = [failed EXCEPT ![d] = try[d].hint.ts] /\ cooling' = [cooling EXCEPT ![d] = TRUE]
  /\ try' = [try EXCEPT ![d].pc = "failed"]

\* _attempt's except and finally.
Fail(d) ==
  /\ failed' = [failed EXCEPT ![d] = try[d].hint.ts] /\ cooling' = [cooling EXCEPT ![d] = TRUE]
  /\ try' = [try EXCEPT ![d] = NoTry]

Done(d) == try' = [try EXCEPT ![d] = NoTry] /\ UNCHANGED <<failed, cooling>>

\* The timer fires: somebody else may have upgraded meanwhile.
Check(d) ==
  /\ At(d, "check")
  /\ IF Newer(try[d].hint.v) THEN Proceed(d) ELSE Done(d)
  /\ UNCHANGED <<mesh, install, runs, hand, counts>>

\* Faulty variant: a tarball of the announced version will do.
AnyTarball(h) == tag[h.v] \in Tarballs

Verified(h) == tag[h.v] = h.sha

\* Fetch and hash, before anything is touched.
Fetch(d) ==
  /\ At(d, "fetch")
  /\ IF Verified(try[d].hint)
     THEN try' = [try EXCEPT ![d] = [pc |-> Succ["fetch"], hint |-> try[d].hint,
                                     art |-> tag[try[d].hint.v]]]
          /\ UNCHANGED <<failed, cooling>>
     ELSE Fail(d)
  /\ UNCHANGED <<mesh, install, runs, hand, counts>>

\* Whoever gives up at pc leaves the host without a release if it has
\* uninstalled the old one and not installed the new one.
GivesUp(pc) == torn' = (torn \/ (pc = "install" /\ disk = Absent))

\* The network fails, or pipx does.
AttemptFails(d) ==
  /\ try[d].pc \in {"fetch", "uninstall", "install"}
  /\ faults < MaxFaults /\ faults' = faults + 1 /\ Fail(d) /\ GivesUp(try[d].pc)
  /\ UNCHANGED <<mesh, disk, runs, hand, hands>>

\* pipx finds nothing to uninstall: an error.
Uninstall(d) ==
  /\ At(d, "uninstall")
  /\ IF disk = Absent THEN Fail(d) ELSE Proceed(d)
  /\ disk' = Absent
  /\ UNCHANGED <<mesh, torn, runs, hand, counts>>

\* pipx leaves an install alone that is already there.
Install(d) ==
  /\ At(d, "install") /\ Proceed(d)
  /\ disk' = IF disk = Absent
             THEN [v |-> try[d].hint.v, art |-> try[d].art, by |-> "manager"] ELSE disk
  /\ torn' = FALSE
  /\ UNCHANGED <<mesh, runs, hand, counts>>

\* The daemon goes down, and with it its manager's memory and the pipx that
\* an attempt is waiting for.
Stopped(d) ==
  /\ runs' = [runs EXCEPT ![d] = Down] /\ try' = [try EXCEPT ![d] = NoTry]
  /\ failed' = [failed EXCEPT ![d] = 0] /\ cooling' = [cooling EXCEPT ![d] = FALSE]
  /\ GivesUp(try[d].pc)

\* _self_restart: this mesh's unit; without a service manager, nobody's.
Restart(d) ==
  /\ At(d, "restart")
  /\ IF d \in Managed THEN Stopped(d) ELSE Done(d) /\ UNCHANGED <<torn, runs>>
  /\ UNCHANGED <<mesh, disk, hand, counts>>

\* _RETRY_AFTER has passed.
Cooled(d) ==
  /\ cooling[d] /\ cooling' = [cooling EXCEPT ![d] = FALSE]
  /\ UNCHANGED <<mesh, install, runs, try, failed, hand, counts>>

-----------------------------------------------------------------------------
(* gw upgrade --from github, by an operator who says yes *)

\* The clone comes first: when it fails, nothing was touched.
HandBegin(d, v) ==
  /\ hand = NoHand /\ hands < MaxHands /\ hands' = hands + 1
  /\ disk # Absent /\ hand' = [pc |-> "uninstall", for |-> d, v |-> v]
  /\ UNCHANGED <<mesh, install, runs, manager, faults>>

HandUninstall ==
  /\ hand.pc = "uninstall"
  /\ hand' = IF disk = Absent THEN NoHand ELSE [hand EXCEPT !.pc = "install"]
  /\ disk' = Absent
  /\ UNCHANGED <<mesh, torn, runs, manager, counts>>

HandInstall ==
  /\ hand.pc = "install" /\ hand' = [hand EXCEPT !.pc = "restart"]
  /\ disk' = IF disk = Absent THEN ByHand(hand.v) ELSE disk
  /\ torn' = FALSE
  /\ UNCHANGED <<mesh, runs, manager, counts>>

\* The service manager restarts the daemon, whatever its UpgradeManager is at.
HandRestart ==
  /\ hand.pc = "restart" /\ hand' = NoHand
  /\ IF hand.for \in Managed THEN Stopped(hand.for) ELSE UNCHANGED <<torn, runs, manager>>
  /\ UNCHANGED <<mesh, disk, counts>>

\* A pipx command fails, or the operator's session dies.
HandFails ==
  /\ hand # NoHand /\ faults < MaxFaults /\ faults' = faults + 1
  /\ hand' = NoHand /\ GivesUp(hand.pc)
  /\ UNCHANGED <<mesh, disk, runs, manager, hands>>

\* The install line that both commands print for this case.
Recover(v) ==
  /\ torn /\ torn' = FALSE /\ disk' = ByHand(v)
  /\ UNCHANGED <<mesh, runs, manager, hand, counts>>

-----------------------------------------------------------------------------
(* The host and the repository *)

\* A unit that is down is started, which needs the install.
Boot(d) ==
  /\ runs[d] = Down /\ disk # Absent /\ runs' = [runs EXCEPT ![d] = disk.v]
  /\ UNCHANGED <<mesh, install, manager, hand, counts>>

Kill(d) ==
  /\ runs[d] # Down /\ faults < MaxFaults /\ faults' = faults + 1 /\ Stopped(d)
  /\ UNCHANGED <<mesh, disk, hand, hands>>

\* The tag is moved.  Before its announcement nobody could tell, and once it
\* is installed nobody asks.
Retag(v) ==
  /\ Newer(v) /\ \E d \in Opted : Told(d, v)
  /\ tag[v] < MaxMoves /\ tag' = [tag EXCEPT ![v] = @ + 1]
  /\ UNCHANGED <<announced, hint, install, runs, manager, hand, counts>>

Attempt(d) == Check(d) \/ Fetch(d) \/ Uninstall(d) \/ Install(d) \/ Restart(d)
Hand == HandUninstall \/ HandInstall \/ HandRestart

Next ==
  \/ Hand \/ HandFails
  \/ \E d \in Daemons : \/ Offer(d) \/ Attempt(d) \/ AttemptFails(d) \/ Cooled(d)
                        \/ Boot(d) \/ Kill(d)
                        \/ \E v \in Versions : Announce(d, v) \/ HandBegin(d, v)
  \/ \E v \in Versions : Retag(v) \/ Recover(v)

\* Daemons pull, timers fire, subprocesses end or fail, daemons that are down
\* are started; a command by hand ends or dies.  Nobody need ever Recover.
Fairness ==
  /\ WF_vars(Hand)
  /\ \A d \in Daemons : /\ WF_vars(Offer(d)) /\ WF_vars(Attempt(d))
                        /\ WF_vars(Cooled(d)) /\ WF_vars(Boot(d))

Spec == Init /\ [][Next]_vars
FairSpec == Spec /\ Fairness

-----------------------------------------------------------------------------
(* Properties *)

\* The state is of the shape the code keeps.
UpgradeTypeOK ==
  /\ tag \in [Versions -> Tarballs] /\ announced \in 0..MaxAnnounced
  /\ hint \in [Daemons -> Hint \cup {NoHint}] /\ disk \in Release \cup {Absent}
  /\ runs \in [Daemons -> Versions \cup {Down}]
  /\ failed \in [Daemons -> 0..MaxAnnounced] /\ cooling \in [Daemons -> BOOLEAN]

\* "The signal cannot express 'run this code', only 'install this specific
\* published artifact'": a manager installs what a holder hashed when it
\* announced, even if the tag moves between two of its steps.
OnlyPinned ==
  [][disk' # disk /\ disk' # Absent /\ disk'.by = "manager" =>
       \E d \in Opted : try[d] # NoTry /\ try[d].hint.v = disk'.v
                          /\ try[d].hint.sha = disk'.art]_vars

\* A host is left without a greasewood only by an installer that gave up
\* between its own uninstall and its own install: not by a download that fails,
\* a tarball that was replaced, or two that reinstall at the same time.
NeverStranded == disk = Absent ~> disk # Absent \/ torn

\* A host that opted in reaches the version announced to it, unless a later
\* announcement or a moved tag stands in the way, or an installer tore the
\* install: every later attempt then fails, until the operator recovers it.
CatchesUp ==
  \A d \in Opted, v \in Versions :
    Told(d, v) ~> disk.v >= v \/ ~Told(d, v) \/ ~Verified(hint[d]) \/ torn

\* "retrying in about an hour": an attempt that fails is one that a later one
\* makes good.
TriesAgain ==
  \A d \in Opted, v \in Versions :
    Told(d, v) ~> disk.v >= v \/ ~Told(d, v) \/ ~Verified(hint[d])

\* Every daemon that opted in comes to run the version announced to it.
RunsIt ==
  \A d \in Opted, v \in Versions :
    Told(d, v) ~> runs[d] >= v \/ ~Told(d, v) \/ ~Verified(hint[d])

\* "Downgrades are refused": a manager replaces no release by an older one.
NoDowngrade ==
  [][\A d \in Daemons : At(d, "uninstall") /\ disk # Absent /\ disk' = Absent
       /\ try'[d].pc = "install" => try[d].hint.v > disk.v]_vars
=============================================================================
