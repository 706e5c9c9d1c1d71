# greasewood: a verification project

greasewood (`gw`) runs a WireGuard mesh without a coordinator. Every node keeps
the whole roster (`directory.json`); the nodes that hold the *anchor file* (the
CA key and the door key), called **holders** here, sign credentials and
membership decisions; a pull loop spreads records and decisions. Nothing is
agreed on by a protocol: the code rests on merge rules, timestamps and
lifetimes, and these are what this project models, checks with TLC and proves
with TLAPS.

## Inventory

| component (`src/greasewood/`) | state it keeps | operations | interacts with |
|---|---|---|---|
| CA `ca.py` | `_recent` (overlay of just-issued credentials), `revoked.json` | `issue`, `renew`, `set_caps`, `add_revoke`, `forget_node`, `discard_recent`, `hostname_owner` | the directory and statement log of its process |
| directory `directory.py` | id → `NodeRecord`, `directory.json` | `merge`, `put`, `remove`, `prune_stale`, `save`/`load` | every loop and handler |
| statement log `statements.py` | newest statement per (kind, id), `statements.json` | `merge`, `add`, `prune`, `is_dead`, `drop_dead_records` | CA, sync, sweep, one-shot CLI processes through the file |
| sync loop `sync.py` | – | pull from the first holder that answers; re-read files; apply statements; replace `revoked.json` | all holders |
| sweep `sweep.py` | – | hourly prune on holders | directory, log |
| control server `server.py` | replay guard, worker pool | `/directory`, `/revoked`, `/publish`, `/renew`, `/leave`, `/attest`, `/anchor-claim`, `/cert` | CA, directory, log |
| enrollment `enroll.py`, `door.py` | the window, the attempts left, the door interface | one attempt: validate, issue, install, reply, first record; `DoorWatcher` | CA, WireGuard |
| renewal `renewal.py` | the credential, the schedule | wait, renew, sign and push the next record, retry | CA of any holder, own record |
| own record `cli/_common.py`, `renewal.py`, `cli/membership.py` | the node's own entry in its directory | read, sign seq + 1, put, push: from three threads and from CLI processes | directory |
| reconcile `reconcile.py`, `endpoints.py` | WireGuard peers, endpoint trackers, reachable set | desired peers from verified, authorised records | directory, policy, hosts, port filter |
| policy `policy.py` | the grant table and its cache | seq-monotone `offer`, refresh, sign on holders | sync, reconcile |
| port filter, hosts `portfilter.py`, `hosts.py` | nft table, `/etc/hosts` block | render and apply | reconcile |
| attestations `attest.py` | endpoint testimony per (attester, subject) | merge, prune | sync, server |
| anchor file `anchorfile.py` | `anchor.gwa`, one offer | offer, claim, consume | server |
| anchor commands `cli/anchorcmds.py`, `backup.py` | the command's step, the archive | adopt, drop, transfer to another host, re-root | CA, service manager, ssh |
| upgrade `upgrade.py` | the attempt, its timer, the back-off | offer, check, fetch and verify, uninstall, install, restart | sync, the pipx install all memberships share |
| membership on one host `cli/bootstrap.py`, `cli/membership.py`, `service.py` | config, data directory, interface, unit, hosts block, nft table | create, join, rename-mesh, leave, purge | daemons, the door of another host |
| loops, watchdog `loop.py`, `cli/daemon.py` | stamps, health age | tick; exit when wedged | every thread of the daemon |
| TLS, keys, wire, drivers, service, status, configuration | files | – | – |

What is hard in this code: decisions taken at several holders at once and
spread by pulls that may fail over to a holder that lags; three places that
must agree about a member (overlay, record, tombstone); caches on disk that a
one-shot CLI writes beside the daemon; a clock truncated to seconds; lifetimes
of different kinds of data that refer to each other; replies that are lost
after the holder acted; restarts that forget what is kept in process only. The
list with lines is `hazards` in `PROJECT.json`; the properties were chosen
from it.

What makes each component correct:

- CA: one hostname has one member in good standing; a renewal never brings
  back an older name or older capabilities; an operator's decision about
  capabilities is neither lost nor applied to a later membership; departed and
  revoked identities are refused.
- directory: copies of one record converge, and never to an older credential.
- statement log: what was decided is never forgotten, and ends exactly the
  membership it was about.
- sync: what one holder knows reaches everybody; a revocation stays effective.
- door: one live window at a time; a failed attempt leaves no claim behind.
- own record: one record per seq; a renewed credential is never replaced by
  the previous one.
- renewal and watchdog: the credential is renewed before it runs out; a wedged
  daemon ends, a healthy one does not.
- reconcile and policy: peers, filter and names derive from one verified view
  and in the end follow it; the table in force never goes back.
- anchor file: an offer is opened once; an adopter ends up with the roles; a
  transfer that fails leaves an anchor, and one that succeeds leaves one.
- host: no half membership starts at boot, no second identity is enrolled, and
  nothing purged comes back.
- upgrade: only what a holder hashed is installed, and a host
  that opted in gets there.

## The modules

| module | what it is |
|---|---|
| `Membership.tla` | CA, directory, statements, sync, sweep, the handlers and the first half of enrollment and renewal, composed |
| `RevokeSet.tla` | what the replicated revocations promise, abstractly |
| `MembershipProofs.tla` | the theorems about `Membership`: for every fleet, and for one holder with a reliable daemon |
| `Door.tla` | the enrollment door: window file, `DoorWatcher`, `EnrollServer` threads, gw-door, the operator's commands |
| `DoorProofs.tla` | the theorems about `Door` |
| `Grants.tla` | what a grant table permits: tunnels and ports |
| `DataPlane.tla`, `DataPlaneProofs.tla` | one node's reconcile loop over kernel, port filter and names (extends `Grants`); its theorems |
| `PolicyStore.tla`, `PolicyProofs.tla` | the grant table: holders that apply, offers, files, re-root; its theorems |
| `OwnRecord.tla` | everything that signs the node's own record |
| `Renewal.tla` | the renewal schedule, the retries, the watchdog, over time |
| `OwnRecordProofs.tla` | the theorems about `OwnRecord` and `Renewal` |
| `Authority.tla` | the anchor file, its offer, and the roles that go with it |
| `Handover.tla` | `gw anchor-transfer` |
| `AnchorProofs.tla` | the theorems about `Authority` and `Handover` |
| `Host.tla`, `HostProofs.tla` | create, join, rename-mesh, leave and purge on one host; its theorems |
| `Upgrade.tla`, `UpgradeProofs.tla` | announcements, the upgrade manager and `gw upgrade` on one host; its theorems |
| `MC*.tla` | model values, symmetry and small data for the runs |

The modules meet at facts rather than at variables. `Membership` says what a
directory, a log and a credential do; the others take from it that a record with
the higher seq wins (`OwnRecord`, `Authority`), that a statement arrives with a
pull (`Upgrade`, `Authority`), or that a door attempt enrolls (`Door`, `Host`),
and go into what `Membership` does in one step.

### Membership

Two kinds of replicas: `Holder`, which run CA, control server and sweep, and
`Node`, the members decisions are about. Each replica is a daemon with a
directory and a statement log, and all run the sync loop.

| variable | code |
|---|---|
| `dir[r][n]` | `Directory._records` of the daemon of `r`; `dir[n][n]` is the node's own record |
| `log[r]`, `file[r]` | the daemon's `StatementLog`, and `statements.json`, which `gw revoke` and `gw set-caps` write in processes of their own |
| `legacy[r]` | `revoked.json` |
| `recent[h][n]` | `CA._recent` |
| `cred[n]` | the credential the node last received |
| `now` | the clock, in the seconds the code truncates to |
| `last`, `gone`, `revoked` | history: read by properties (`last` also by `NewSecond`, below) |

Each action is one handler, loop tick or command with everything it calls:

- `Enroll`, `EnrollLost`, `EnrollRefused`: one attempt at the door
  (`EnrollServer._handle`), completed with or without the first record
  landing, with the reply lost, or refused after the claim was noted.
- `Renew`, `RenewLost`, `RefuseUnknown`: `POST /renew` with the node's next
  record; a rename is a renewal under another name. `RefuseUnknown` also
  stands for every request that only garbage-collects the overlay.
- `Republish`, `Push`: the next record under the same credential, and
  `POST /publish`.
- `Leave`, `Revoke`, `SetCaps`: the decisions. `Leave` runs in the daemon,
  which writes its own log over `statements.json`; the other two run in a CLI
  process whose CA has an empty overlay.
- `Pull`, `PullUnanswered`: one tick of the sync loop, in its order: re-read
  `statements.json`, prune the directory, fetch from the first holder that
  answers, merge records and statements, prune the log, drop the dead, save,
  fetch and replace `revoked.json`.
- `Sweep`, `Restart`, `Tick`.

Abstractions. Signatures always verify. The records of the holders themselves
only make them dialable and are taken as known, so a holder is never the subject
of a decision. A pull, a renewal and an enrollment are one step, although the
holder computes its answer before the other side merges or adopts it: answers in
flight are left to a later extension. Keys, addresses, endpoints, aliases and
reachable sets are left out. A record is signed in one step (the race for the
own record is a module `OwnRecord`). `directory.json` equals the memory: every
change is saved at once, and an edit of the file by a CLI is overwritten by the
daemon's next save. A revoke is its presence, since nothing reads its second.

Fault switches. `Faults` says what an instance allows: `flaky` (a dial times
out, so a later URL answers or none does; the second request of a pull
fails), `lostReply`, `installFail`, `restart`, and `sameSecond` (two
decisions about one node within a second). A run names the faults it allows,
because several properties are true only of a holder that keeps its overlay:
the code says so itself (`ca.py:93-96`), and what happens otherwise is below.

Bounds. `MaxTime` and `MaxSeq` stop the clock and the sequence numbers;
`Syncing` names the replicas whose sync loop an instance runs. They bound the
exploration only, so no cfg checks for deadlock: at the bounds every instance
comes to rest.

### RevokeSet

`decided` only grows, `seen[m]` of a member only grows and stays within
`decided`. `Membership` implements it with `decided <- revoked` and
`seen[r] <- log[r].revoke`, for every fault.

### Door

The door is where three kinds of actors meet without a common lock: the
operator's commands (processes of their own), the watcher's tick, and the
server threads it starts. Every one of them works on the same path and the same
interface name.

| variable | code |
|---|---|
| `window` | `door_window.json`, by content: two timed invites of one second with the same grant are the same file, a standing one carries its token's guest key |
| `iface` | gw-door: the token whose guest key and PSK it accepts |
| `tick`, `seen`, `fp`, `slot` | `DoorWatcher`: the next step of its tick, the window the tick read, `_window_fp`, `_enroll` |
| `srv[s]` | one `EnrollServer` thread: where it is, its window, the attempts left, `_stopped`, the token of its connection |
| `op` | an invite between raising gw-door and writing the window, a close-door between its two steps |
| `uses`, `fails`, `granted`, `invite` | history, for the properties |

A tick is split where other actors can come between: `Look`, then `Clear`,
`Destroy`, `UnlinkExpired`, or `Start`, `StartSkipped`, `StartFails` (the part
under the lock is one step). A thread binds, accepts, serves one attempt
(`Admit` or `Refuse`, decided by what `Membership` models as `Enroll`), leaves
the loop, and ends in the three steps of its `finally` and `on_done`: read the
file, remove it, empty the slot. The port is held by a thread that polls
`accept()` even after `stop()` closed the socket (`Holds`): on Linux the close
takes effect when the poll returns, which a two-second timeout allows to be
late. `Restart` drops threads and watcher state; a reboot takes gw-door as well.

`Overlap` says whether an invite may be issued while something of an earlier
one is left. `cmd_invite` only warns against that, so the runs that allow it
are the findings. Left out: the door's status file, which only displays read,
the role menu, and clock steps (the deadline of a server is monotonic, that of
the window is not).

### DataPlane and Grants

`Grants` is pure: the grants that apply to two members, whether they may have a
tunnel (`PeersAllowed`) and which sources a node admits on which port.
`DataPlane` is one node's `ReconcileLoop` between its inputs (directory,
revocations, table, own roles) and its outputs (interface, peers, routes, nft
table, hosts block).

A tick is a sequence of steps, because each external command can fail alone and
the rest goes on: check the interface, read everything into `view`
(`reconcile_once` reads each input once), set peers one by one, remove stale
ones with their routes, apply the filter unless the cache says it is unchanged,
write the names. The environment publishes records, revokes, delivers tables,
renews roles in two steps (`AdoptCaps`: the daemon's list first, the filter's a
moment later, as `on_renewed` does), deletes the interface and flushes the
ruleset. Left out: endpoint rotation by handshake age and the relay choice.

### PolicyStore

`mem` is `GrantPolicy`, `file` is `policy.json`, `seen` its mtime note. Two
threads offer a table (the pull and the reconcile loop's refresh); memory
changes under the lock, the file afterwards, whoever writes last. A holder's
`gw policy apply` is a process that reads, asks, and writes later. `Promote`,
`TrustNew` and `DropOld` are the re-root of the runbook. A pull tries the holder
of `root_url` first (`Root`) and the others in the order `Rank`; the created
holder is its own root, so its pull is answered by itself as long as it runs,
and it never hears a table that was applied at another holder (the finding
`spread`, for tables).

Two restrictions, as constants. `Waits`: operators apply at one holder, the one
the mesh pulls from (`Home`, or after a re-root the holder of the new key), only
once its daemon has taken up their last table, and promote a node that has it.
Nothing in the code asks this of them; without it numbers are given twice and
tables do not spread (below). `Resigns`: after a re-root somebody signs the
table again, which `gw` does not do by itself.

### OwnRecord and Renewal

`OwnRecord` follows the copies of one node's record (directory, file, holder)
through five publishers: the renewal loop, the reconcile loop when the live
links changed, the endpoint loop, the daemon at its start, and a command. Each
reads, signs seq + 1, puts, saves and pushes in separate steps.
`Undisturbed` says whether a publication may start while another is under way.
The code's threads and commands do not exclude that; what is checked and proved
of the records is for publications that do not overlap.

`Renewal` has the clock: ticks of a fixed length, a credential that ages, the
stamps of three loops, a ladder of retries, the renew hint, sleeps of the whole
host, stuck threads, and the watchdog (its own off systemd, systemd's pings
otherwise). `Tick` needs every thread that runs to have had its turn, so a
thread misses a tick only if it is stuck, which is a fault. A hint is acted on
once: its timer wakes the renewal loop, and if that renewal fails the hint is not
taken up again. `Unpushed` is a renewal whose record does not reach the holder,
so that the loop, which has the new credential, goes up its ladder. A host is in order
again (`InOrder`) when all threads run, a holder is in reach, the own record is
there, and the renewal loop is on its schedule with no retry and no pause of an
earlier failure left.

### Authority and Handover

`Authority`: `file` is who has `anchor.gwa`, `daemon` what each node runs as,
since a daemon looks at the file only when it starts. A claim is a request of
its own (`reqs`), served by a thread of its holder: it reads the offer, and then
consumes it and answers, without a lock in between, next to the other requests
(`Requests`), also of the same node: those of a command that timed out or died
may still be served, and two commands may run at once (`twice`). The
adopter saves the file, decides its own roles with a setcaps statement, and
restarts. The roles take effect when the next renewal reads that decision.
`Offer`s may name strangers, to whom nothing is answered.

`Handover`: `gw anchor-transfer` as the sequence backup, restore, config, stop
here, start there, verify, and the rollback, with two hosts whose daemons die and
restart and which reboot at any time, a command that is killed between any two
steps (`Killed`; a reboot of its host kills it too), and a second attempt.
`disk[h]` is what a host's files say: CA, config, known members, decisions; the
archive carries CA and decisions and no directory. A config that is copied over a
breaking connection may be cut short. The local `systemctl` commands are taken to
work.

### Host

All that one membership leaves on a host is keyed by the mesh's name, and each
command changes it piece by piece. `op` is the command in progress with its next
step; `CutOff` ends it between any two. Daemons run meanwhile (`Work` restores
the interface, the hosts block and the nft table, as a tick does), die and are
started again. A name may have two daemons: that of its unit (`run`) and one that
`gw run` started by hand (`hand`), which a purge finds by its command line and
kills (`PurgeStray`; it does not match the `python -m greasewood` of a unit), and
a reboot ends. One is started between commands only. Anchors elsewhere rename
their meshes at any time (`Retitle`), also while a join of such a mesh is cut off
here; `strayed` remembers those.

Two restrictions. `Frail` names the steps before which no command is cut off:
the moves of a rename after its data directory moved, and the last step of a
purge. `Careful` is about operators: they rename a membership here before they
join its renamed mesh again, with no directory in the rename's way and no daemon
run by hand on it, and give no two meshes one name. Without either, `OneIdentity`
fails, and without its exception for `strayed` meshes it fails in any case
(below).

### Upgrade

One host with several memberships that share the one pipx install. A manager's
attempt is check, fetch and verify, uninstall, install, restart; `gw upgrade` by
hand is a second path over the same install; tags move; a release may be gone
between two steps. Every command of pipx can fail, and daemons and the operator's
session die at any step: `gw upgrade` restarts a daemon whatever its manager is at,
which kills the pipx the manager waits for. `torn` remembers that an installer
gave up between its uninstall and its install. From then on every attempt fails
at its uninstall, and only the install line that both commands print (`Recover`)
brings the host back; nobody is obliged to run it.

## The runs

| run | instance | shows |
|---|---|---|
| `issuance` | 1 holder, 2 members, 2 names, 2 capability sets, TTL 2, grace 4, 3 seconds, 3 records per node; members and names symmetric | `NameExclusive`, `RegistryIsCurrent`, `DepartedUnknown`, `CapsDecisionHolds` |
| `gossip` | 2 holders, 1 member, all loops, TTL 1, grace 1, 3 seconds, 2 records, all faults except `sameSecond`, fair loops | `TypeOK`, `SeqOrder`, `NeverOlder`, `RevokeSetSpec`, `RevokeSticks` |
| `spread` | 2 holders, fair loops | violated: `RevokeReachesHolders` |
| `door` | 2 threads, 2 tokens of either kind, window of 1 second, 2 attempts, 1 restart, no overlap, fair loops | `DoorTypeOK`, `UsedUp`, `AttemptsBounded`, `WindowKept`, `DeadForGood`, `Served` |
| `dataplane` | self, an anchor and a peer with changing keys, roles and credentials, 3 tables, 2 changes, 2 faults, fair ticks | `OneView`, `LinksKept`, `Settles` |
| `policy` | the created holder, another that the member joined through, 2 tables, 3 numbers, 3 stops, 1 failed read or write, operators that wait and re-sign, fair threads | `OneTablePerNumber`, `FileFollows`, `Converges` |
| `ownrecord` | 5 publishers, 2 addresses, 3 credentials, 2 changes, 2 faults, publications that do not overlap, fair threads | `SeqOnce`, `Served`, `Announced` |
| `renewal` | life 6, jitter 1, margin 2, threshold 1, ladder of 2 pauses, off systemd, 3 faults (sleep, lost contact, lost push, stuck thread, stop, lost cache), fair threads and time | `InTime`, `SparesHealthy`, `Renews`, `Recovers` |
| `authority` | the created holder and a member that adopts and drops, a stranger, 2 requests served at once, 3 seconds, 3 commands, 2 faults, 1 renewal by hand, fair loops | `OncePerOffer`, `GrantTakesEffect` |
| `handover` | 2 members, 1 decision, 5 faults (remote steps, daemons, reboots, killed commands), 2 transfers, fair command and restarts | `StopsLast`, `StaysDown`, `NeverAnchorless` |
| `host` | 3 names of which 2 derive one interface, 2 foreign meshes and an own one, 4 identities, 4 commands, 1 fault, 1 rename by an anchor at any time, daemons by hand, systemd | `EnabledIsWhole`, `OneIdentity`, `OwnLinks`, `NothingHaunts` |
| `upgrade` | 2 memberships, 1 of them managed, 2 versions, 2 announcements, 1 moved tag, 1 upgrade by hand, 1 fault (a failed or killed step of either), fair daemons | `OnlyPinned`, `NeverStranded`, `CatchesUp` |

Each run uses the bounds in its cfg, and every bound is a guard of the module. No
cfg checks for deadlock where the bounds let an instance come to rest; the
others do.

Why the bounds are enough. Names are exclusive or not between two members, so
two members and two names show a collision, a swap and a rename to a name just
freed. Three seconds hold issue, decision and renewal in three different
seconds, and an overlay entry (TTL 2) expires within them. In `gossip` TTL and
grace are 1, so that within three seconds a record is issued, expires, passes
the drop deadline, is dropped by its own node while other copies exist, and is
signed again at seq 1. Two holders are enough for a decision known to one and
not to the other, and a member for a replica that fails over between them.

In `issuance` the grace covers the horizon, so no tombstone is pruned in it:
that a pruned tombstone lets a departed member come back is below. It also runs
without `lostReply`, `installFail` and `restart`: a claim known only to an
overlay that is lost, or to a credential the member never received, is exactly
what `NameExclusive` and `RegistryIsCurrent` cannot promise.

In `door` the first window can expire, the second comes after it in a state
with nothing left of the first, and one restart or reboot falls anywhere. Two
threads are more than enough: without overlap only one exists at a time, which
`ServersExclude` proves. A
single-use token is not quite single-use: `UsedUp` states the bound that holds
in one life of the daemon, two, and two is reached, when a tick reads the window
just before the server that enrolled somebody removes it and empties the slot. A
daemon that dies between an enrollment and the removal of the window leaves the
token to its next life, and the count starts anew; so does that of
`AttemptsBounded`.

In `dataplane` two changes let a peer rotate its key and lose its role, or the
table change while a member is revoked; two faults let the repair of one fail as
well. In `policy` three numbers hold a table, its successor and the re-signed
one, and three stops the restarts with which two nodes take up the new key, with
one to spare for a crash. In `authority` two requests served at once are those
of one node or of two. In `ownrecord` three credentials let a renewal follow a
command that follows a renewal. In `renewal` half the life plus the margin lies
within the life with a tick to spare, as in the code (the default life is 30
days; the margin is 15 % of it and at least ten minutes, the jitter 10 % of the
half): a daemon that is never asleep must be caught in that span. In `host` two
names share an interface, which needs fifteen characters in the code and two
strings here; four commands hold a join, a rename, a leave and a join again. In
`handover` five faults break a remote step, kill the command, and reboot or
crash both hosts in one attempt. In `upgrade` two memberships show the one
install being replaced under the other's feet, and its one fault is enough to
tear the install, to fail a download or to kill a daemon between any two steps.

Fairness. In `Membership`, `Fairness` is weak fairness of a completed pull from
the first URL, for each daemon: `Loop.run` ticks for ever and the holder behind
the first URL answers again and again. Failovers stay possible in between. No
fairness is assumed of operators, nodes or the sweep. In `Door` it is weak for
the steps of a tick and of a thread (a connection times out after 30 seconds, so
an attempt ends) and for finishing a command that began, and strong for `Start`:
raising gw-door may fail, but not for ever. A joiner never has to come. The
other modules assume only that threads take their turns, that a service manager
starts a daemon again, that a subprocess ends or fails (`DataPlane`, `Upgrade`),
that a command under way ends (`PolicyStore`) or is killed, which it may be
between any two steps (`Handover`, `Upgrade`), and that an unreachable holder
comes back (`OwnRecord`; in `Renewal` it is a premise of the property).
`OwnRecord` needs strong fairness of `Readvertise`, which any publication in
progress disables: the endpoint loop waits for a quiet moment and finds one
again and again. `Renewal` also assumes that time passes. Nothing is assumed of
operators, and faults are bounded, since no liveness survives a host that
crashes for ever.

## What the code does not keep

`spread` is a listed run. A holder made by `gw create` has its own loopback
address as its first URL and always gets an answer from itself, so it never
hears the other holders.

The others are properties of the modules stated from what a doc, a comment or a
message says, each with a cfg that finds the counterexample in seconds. They
are not among the listed runs.

| cfg | property | what happens |
|---|---|---|
| `MCPrunedTombstone` | `PrunedTombstoneKillsNothing` | a tombstone goes at ts + 7 days, the record it kills at its expiry + 7 days; a replica that was offline brings the departed member back |
| `MCDeparted` | `DepartedHoldNothing` | the overlay is asked before the tombstones, and only the holder that serves the leave clears its own |
| `MCRevokeLapse` | `RevokeNeverLapses` | a plain member's `revoked.json` is replaced by the answer of a holder that lags |
| `MCSameSecond` | `ReenrollmentLives` | leave and re-enrollment within one second give a credential dead at birth |
| `MCDoorRebind` | `RebindWorks` | a server that supersedes another cannot bind while the old thread still polls; it ends, and removes the window of the new token |
| `MCDoorTerms` | `TermsMatch` | until the next tick the server of the old window serves the joiners of the new token, under the old terms |
| `MCPolicyReroot` | `NeverFlat` | after a re-root as the runbook describes it (RUNBOOK.md:231-260) no table is signed by the new key; once the old key is dropped, a restarted node finds none and is flat (`policy.py:320-325`) |
| `MCOwnOverlap` | `Served` | two publications that overlap sign one seq; the holder keeps the one without the new credential, while the renewal loop believes itself published (`_common.py:491-498`) |
| `MCDropSheds` | `DropSheds` | `gw anchor drop` decides on its own log alone; the other holders go on renewing it with the anchor roles (`anchorcmds.py:515-517`) |
| `MCRenewByHand` | `GrantStands` | `gw renew` after `set-roles` asks a holder that has not heard of the decision and gets the old roles (`membership.py:531-532`) |
| `MCDropSheds` with `OfferSpared` | `OfferSpared` | minting an offer replaces the one outstanding, and a claim that read the old one consumes the new one (`server.py:319`) |
| `MCOneAnchor` | `OneAnchor` | while the local unit is stopped but enabled, a reboot in the transfer brings up two anchors (`anchorcmds.py:809`) |
| `MCOneAnchor` with `FleetReconnects` | `FleetReconnects` | the archive has no directory at all, to be "rebuilt from live node records" (`backup.py:30-33`), but the new host has no tunnels to hear them through: it knows nobody and refuses their handshakes until they enroll again (RUNBOOK.md:324 says the fleet reconnects by itself) |
| `MCHandover` with `AlwaysAnchor` | `AlwaysAnchor` | a command killed between the stop here and the rollback leaves no anchor: "a failed transfer never leaves you anchorless" (RUNBOOK.md:351-352) is a promise of the command alone |
| `MCHandover` with `NothingLost` | `NothingLost` | a revocation decided between the backup and the stop is in no archive and stays on the old host |
| `MCAuthority` with `SingleUse` | `SingleUse` | two claims of one node, from two `gw anchor adopt` at once, are both answered from one offer: it is read and deleted in two steps without a lock (`server.py:338-351`), against "single-use" (`server.py:315`) |
| `MCPolicyStore` with `Waits = FALSE` | `OneTablePerNumber` | operators at two holders, or before the daemon has taken up the last table, give one number to two tables, and no sync mends it |
| `MCPolicyStore` with `Waits = FALSE` | `Converges` | a table applied at the second holder never reaches the created one, whose root is itself: "nodes adopt it on their next directory sync" (`cli/parser.py:418-419`) |
| `MCHost` with `IdentityKept` | `IdentityKept` | a mesh is renamed by its anchor after a join of it was cut off here: the re-run finds no directory under the new name, makes new keys and enrolls the host a second time (`bootstrap.py:817-824`) |
| `MCTargetIsMember` | `NeverAnchorless` | a target that already runs as a member is verified by its old daemon |
| `MCHostApart` | `NeverApart` | an anchor's rename leaves config file, domain and directory under different names |
| `MCHostBuried`, `MCHostCutOff` | `OneIdentity` | reusing a name over leftovers, or a rename cut off between its moves, enrolls the host a second time |
| `MCNamesRetire` | `NamesRetire` | the block of an old name stays in `/etc/hosts` when the grace ends with the daemon down |
| `MCHostBuried` with `NothingLeft` | `NothingLeft` | a purge of a membership whose config is gone leaves links, blocks or units |

`Upgrade` states three more, which fail under the constants of `MCUpgrade.cfg`:
`TriesAgain` (an attempt whose `pipx install` fails leaves the host without a
release, and every later attempt fails at its uninstall, against "retrying in
about an hour", `upgrade.py:207`), `RunsIt` (the daemon of another membership
does not restart, because `_upgrade` returns when the disk is already at the
version) and `NoDowngrade` (the check and the uninstall are separate steps).
`Renewal.ExitsOnlyWedged` fails too: the watchdog ends a daemon that just woke
from sleep, which is why `SparesHealthy` is about daemons that have not slept
since they were last in order.

Behaviour met while modelling and not stated as a property: `gw create` on
a name whose config belongs to another mesh overwrites it; systemd's `enable
--now` leaves an active unit as it is, so a re-join is not loaded until the next
restart; on macOS `rename-mesh` never enables the new instance; `gw policy
apply`'s preview takes an empty old table for none; the mtime of `policy.json`
is noted before the read; a daemon that finds no own record at its start never
starts the renewal loop, although a later pull brings the record back.

## What is proved

Everything below is for every value of the constants that the named assumptions
allow, without the bounds of the runs playing any part beyond being naturals.

`MembershipProofs.tla` (holders are not subjects, `None` is no datum, each
replica's first URL is a holder, durations are naturals, at least one
capability set; any fault set):

- `TypeCorrect`: `Spec => []TypeOK`, one lemma per group of actions.
- `RevokesImplementRevokeSet`: `Spec => RevokeSetSpec`. The refinement is not
  inductive alone: a restart reloads the file, so it needs `Persisted`, that a
  daemon's revocations are in its file (although a pull saves only when it
  changed something) and that nothing is in a file that was not decided.
- `CopiesOrdered` (`[]SeqOrder`) and `DirectoryNeverOlder` (`NeverOlder`).
  The invariant is `OrderInv`: credentials are not of the future, and
  `OwnNewest`, while a copy of a node's record is admitted anywhere the node
  has its own and it is the newest. That is why starting again at seq 1 is
  safe: a node drops its own record only past the deadline, and then every
  other copy, being no younger, is past it too. All actions fall into two
  kinds, `CopyStep` (copies stay, go, or are replaced by admitted ones) and
  `OwnStep` (a node signs), and each kind preserves the invariant.

The second half of `MembershipProofs.tla` is about the fleets with one holder
whose replies arrive and whose daemon is not restarted (`Steady`; dials may
fail, members may pull or not):

- `RegistryCurrent` (`Steady => RegistryIsCurrent`). The invariant `Registry`
  relates the places that know a member: its own record carries its credential
  (`OwnIsCred`), the holder has nothing newer and nothing else of that second
  (`NoneNewer`), overlay or directory has the credential of every member
  (`Registered`), and no tombstone touches it (`Spared`), since decisions about
  one node fall into distinct seconds (`Dated`). Steps are of two kinds: an
  enrollment or a renewal (`IssueStep`), and everything else (`QuietStep`),
  which may drop, land or forget but changes no credential.
- `NamesExclusive` (`NameExclusive`) and `DepartedStaysUnknown`
  (`DepartedUnknown`) need more: that the copies of a departed node are dead or
  dropped (`Ended`), and that of all claims to a name, also those of members
  past their expiry, there is one claimant (`Exclusive`). Both are false once a
  tombstone is pruned while a copy that it killed is still admitted, because
  that copy revives the claim. So these two theorems have a premise,
  `TombstonesOutlast`: a pruned tombstone kills nothing the fleet still admits,
  what `statements.py` says of the pruning. The code keeps it only up to the
  lifetimes (`MCPrunedTombstone`, above); `issuance` has a grace that keeps it.
- `CapsDecisionsHold` (`Steady => (Spec => CapsDecisionHolds)`) needs no such
  premise. What the next renewal grants can change behind a decision's back in
  three places, and `CapsInv` has one conjunct for each: where the record at the
  holder carries another credential than the member's, the overlay has the
  member's or that has expired (`Superseded`); no tombstone, in the log or in
  the file, touches an overlay entry (`OverlaySpared`); and no decision is of
  the future, while a tombstone of the file that ends one of the log's decisions
  never comes alone, the log has one that ends it too (`CapsDated`). So a
  decision goes with a prune only after a tombstone ended it, and then the
  credential the holder knows is younger than both (`DeadDecision`): the
  decision no longer counted. A renewal puts what it granted into the credential it knows
  next (`RenewalGrants`), any other step leaves it knowing the same credential
  or an older one (`KnownStays`).

`DoorProofs.tla`: `DoorTypeCorrect`, for every number of threads, tokens and
restarts and with overlap. The invariant `DoorInv` adds that a thread which is
yet to end has an attempt left, that one which serves a connection knows its
token, that an invite in progress has a number left, and that a tick about to
start a server has read a window. The safety properties hold where invites do
not overlap: `TokenUsedUp`, `TokenAttemptsBounded`, `ServersExclude` and
`WindowsKept`. The first two count within one life of the daemon, for any number
of lives. `SafeInv` adds `Alone` (file, tick, interface and thread are all
about the last token, there is at most one thread, and nothing is left while an
invite is in progress) and `Budget` (a timed token has one server, and one more
only while its window is there or a tick has read it, and has cost that much
less), which is where the two in `UsedUp` comes from.

`OwnRecordProofs.tla`: `RecordsCompose` (`Undisturbed => SeqOnce`),
`RenewalIsServed` (`Undisturbed => Served`) and `ToldIsOnDisk` (`Undisturbed =>
OnDisk`). All three have the premise that publications do not overlap, which the
code's threads and commands do not give. `OwnInv` is one long invariant, because
the three support each other: at most one publication is under way (`Alone`),
without one the directory is the file or absent (`Settled`), the holder never
knows more than the file (`Backed`), where each publication stands relative to
directory and file (`ThreadOK`, `CommandOK`), and that nothing falls behind the
credential of a finished renewal (`Fresh`). One lemma per step. From it follows
`CredentialNeverBack` (`Undisturbed => (Spec => GenGrows)`): the holder, which
compares seq alone, never goes back to an older credential, because no copy and
no publication carries an older one than the holder has (`Covered`).

`Renewal`, in the same module: `RenewedInTime` (`RenewalSpec => []InTime`) and
`HealthySpared` (`[]SparesHealthy`), for every life, jitter and margin that
`RenewalAssumption` allows (the margin above the jitter, half a life to spare)
and every ladder of pauses. Neither speaks of hosts that slept, were cut off, lost
their record or had a stuck thread and are not in order since; a renewal whose
push is lost is such a cut. Both properties look at the moment something ends;
the invariant `RenewalInv` says what keeps a host away from it: one without an
excuse is `Punctual`, its threads all run, its credential is no older than half
a life and the jitter, younger when the renewal loop has had its turn in this
tick, and no loop has been silent for more than a tick.

`PolicyProofs.tla`: `PolicyTypeCorrect`; `NumbersNameTables`
(`Waits => OneTablePerNumber`). The invariant `DeskInv` says that copies with
one number are one table (`Distinct`); that the file of the desk, the one holder
operators apply at (`AtDesk`), is the highest of all copies, that its daemon
writes nothing else to it, and that a command which waits for its answer still has
its number (`DeskOK`): a number one higher is therefore new, however far the other
nodes lag; and that the new key has one holder, where its tables come from
(`KeysOK`, `NewTables`). Its premise is about operators: nothing in
the code makes them keep to one holder or wait for its daemon;
`MemberFileFollows` (`FileFollows`), which holds without any restriction: on a
member only the thread that adopted a table can be about to write, so a later
writer never carries an older one.

`AnchorProofs.tla`: `OffersAreSingleUse` (`OncePerOffer`) for any finite set of
nodes: the answers opened plus the claims that may still be answered never
exceed the offers minted, a count over sets that uses `FiniteSetTheorems`. It
excepts nodes on which two adopts ran at once (`twice`): the requests of a node
that claims with one command at a time outlive their commands, but a command
opens only the answer to the claim it waits for (`Single`).
`AuthorityTypeCorrect` (`[]AuthTypeOK`) adds to the types that no copy of a
record is newer than the node's own. About `Handover`: `HandoverTypeCorrect`,
`AnchorStopsLast` (`StopsLast`) and `OldAnchorStaysDown` (`StaysDown`), for
commands that fail, are killed or repeated and for boots of either host. The
invariant ties each step of the command to what the target's disk has by then
and to what the unit here may do.

`HostProofs.tla`, for any names, meshes, interfaces and commands:
`HostTypeCorrect`, `UnitsAreWhole` (`EnabledIsWhole`), `KnownByOneIdentity`
(`OneIdentity`), `LinksAreOwn` (`OwnLinks`), `HostIsClean` (`NothingHaunts`) and
`NamesNeverPart` (`NeverApart`). Their premise `Kept` is weaker than what the
run `host` assumes: operators are `Careful`, a rename is not cut off between
moving its data and dropping the old config, and the foreign meshes start with
distinct names. Meshes may be renamed at any time, and daemons be run by hand;
`OneIdentity` excepts the meshes renamed while a join of them was not done here.
`MCHostBuried` and `MCHostApart` drop the first, `MCHostCutOff` the second, and
show what happens then (above). `HostInv` says that everything of a membership
carries the name of its config (`Named`); that a unit has config and keys, a
daemon a config, and an interface one owner (`Whole`); that an identity is in
one directory, and the CA key in one (`Identities`); that every identity a mesh
knows and no purge erased is kept here and is its only one (`Seated`); that
meshes have distinct names (`Titles`); and, step by step, what the command in
progress relies on (`OpOK`), among it the exceptions the others make for it.

`DataPlaneProofs.tla`, for any records, tables, ports and faults:
`DataPlaneTypeCorrect`, `TicksEndInOneView` (`Spec => OneView`) and
`WorkingLinksKept` (`Spec => LinksKept`). The invariant `DataPlaneInv` says that
what a tick has read has one record for an address and drops nobody it wants
(`ViewOK`), that a ruleset in the kernel is the one loaded last (`CacheOK`), and
how far a tick has got that nothing disturbed (`Progress`). One lemma carries
the agreement of filter and tunnels: whom a grant lets in, it also connects
(`AllowedArePeers`). Assumed are `RecordsAssumption` (a key has one owner)
and `NoneAssumption` (`None` is no ruleset).

`UpgradeProofs.tla`: `UpgradeTypeCorrect`, `ManagersInstallPinned`
(`OnlyPinned`) and `OnlyTheGapStrands`. The invariant says of an attempt past its
fetch that the tarball it carries has the announced hash (`Late`); the tag plays
no part from then on. `OnlyTheGapStrands` is the safety behind `NeverStranded`: a
host without a release has an installer between its uninstall and its install, or
one that gave up there (`GapHeld`).

Every invariant and every action property of the passing runs is proved. Only
model-checked is what the prover cannot do: the liveness properties
(`RevokeSticks`, `GrantTakesEffect`, `DeadForGood`, `Settles`,
`NeverAnchorless`, `Announced`, `Converges`, `Renews`, `Recovers`,
`NeverStranded`, `CatchesUp`, and `Served` of the door), which need fairness.
`OwnTypeOK` has a bound on seq that only an instance needs; for every instance,
the types of `OwnRecord` are the first part of `OwnInv`.

## The plan

Done: every module of the first plan except two small ones, and the theorems of
the plan. What is left, in order of worth:

1. `CapsDecisionHolds` and `RegistryIsCurrent` with several holders: which of
   their parts survive when a decision is known to one holder only.
2. Answers in flight in `Membership`: a pull that merges what a holder computed
   before a decision.
3. Endpoint rotation across sleeps, the replay guard, and the attestation log
   as small machines with their boundaries.

## Not modelled

TLS certificates, keys, the wire format, the command lines of WireGuard and
firewall drivers, unit files, status displays, audit, configuration parsing and
the command-line parser: cryptography, external tools and wording, with no
state of their own that these properties are about. Attestations are a
diagnostic layer. The replay guard is left out because a replayed request is
refused by the seq of its record or repeats what was already done. Endpoint
rotation by handshake age needs handshakes, which `DataPlane` does not have.
`PROJECT.json` lists every component with its status.

## Running

`tlc -config MCGossip.cfg MCMembership.tla` checks a run,
`tlapm MembershipProofs.tla` the proofs.
