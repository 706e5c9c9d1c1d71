-------------------------------- MODULE Host --------------------------------
(***************************************************************************)
(* What a membership leaves on one host, and the commands that lay it down *)
(* and clear it away: gw create, join, rename-mesh, leave and purge.       *)
(* Everything is keyed to the mesh's name: the config file, the data       *)
(* directory, the WireGuard interface, the service unit, the block in      *)
(* /etc/hosts and the nftables table.  A command is a sequence of steps    *)
(* that can be cut off after each; meanwhile the daemons of the host work. *)
(*                                                                         *)
(* One command runs at a time.  Own is the mesh that gw create makes here; *)
(* the other meshes have their anchors elsewhere, which may rename them.   *)
(***************************************************************************)
EXTENDS Integers, FiniteSets

CONSTANTS
  Names,      \* mesh names: the key of every artifact
  Links,      \* interface names
  LinkOf,     \* name -> the interface derived from it, cut to 15 characters
  Foreign, Own,
  Called,     \* foreign mesh -> its name at first
  Manager,    \* the service manager: "systemd" or "launchd"
  Frail,      \* restriction: steps before which no command is cut off
  Careful,    \* restriction: operators rename a membership before they join
              \* its mesh again, with no directory in the rename's way and no
              \* daemon run by hand, and give no two meshes one name
  MaxIds, MaxCommands, MaxFaults, MaxRetitles   \* bounds

ASSUME LinksAssumption == LinkOf \in [Names -> Links]
ASSUME MeshesAssumption == Called \in [Foreign -> Names] /\ Own \notin Foreign
ASSUME CarefulType == Careful \in BOOLEAN
ASSUME HostBounds == /\ MaxIds \in Nat /\ MaxCommands \in Nat
                     /\ MaxFaults \in Nat /\ MaxRetitles \in Nat

VARIABLES
  conf,      \* name -> /etc/greasewood_<name>.toml
  data,      \* name -> /var/lib/greasewood_<name>
  links,     \* interfaces that exist
  unit,      \* name -> is its unit enabled
  run,       \* name -> the config the daemon of its unit loaded
  hand,      \* name -> the config that a `gw run` by hand loaded
  blocks,    \* names with a managed block in /etc/hosts
  tables,    \* names with an nftables table
  known,     \* pairs of a mesh and an identity its holders know
  title,     \* mesh -> its name now, which its tokens carry
  strayed,   \* history: meshes renamed while a join of them was not done here
  op,        \* the command in progress
  gone,      \* history: identities that a purge erased
  ids, commands, faults, retitles   \* how often: identities made, ...

files == <<conf, data>>
kernel == <<links, tables>>
service == <<unit, run, hand>>
mesh == <<known, title, strayed, retitles>>
history == <<gone, ids>>
counts == <<commands, faults>>
vars == <<files, kernel, service, blocks, mesh, history, op, counts>>

Meshes == Foreign \cup {Own}

NoConf == [absent |-> TRUE]
NoDir == [absent |-> TRUE]
NotRunning == [absent |-> TRUE]
Nothing == "nothing"
Idle == [pc |-> "idle"]

Conf == [mesh : Meshes, name : Names, dir : Names, link : Links, anchor : BOOLEAN]

\* A data directory: the node's identity, whether the anchor file is in it,
\* and the name that rename_grace.json keeps resolving.
Dir == [id : 1..MaxIds, root : BOOLEAN, grace : Names \cup {Nothing}]

Init ==
  /\ conf = [n \in Names |-> NoConf] /\ data = [n \in Names |-> NoDir]
  /\ links = {} /\ tables = {} /\ blocks = {}
  /\ unit = [n \in Names |-> FALSE] /\ run = [n \in Names |-> NotRunning]
  /\ hand = [n \in Names |-> NotRunning]
  /\ known = {} /\ strayed = {} /\ title = [c \in Meshes |-> IF c = Own THEN Nothing ELSE Called[c]]
  /\ op = Idle /\ gone = {} /\ ids = 0
  /\ commands = 0 /\ faults = 0 /\ retitles = 0

Exists(n) == conf[n] # NoConf

\* _holds_anchor: by the config's role or by the anchor file.
HoldsAnchor(c) == c.anchor \/ (data[c.dir] # NoDir /\ data[c.dir].root)

\* _iface_collision: another config already uses the interface.
Clash(l, n) == \E m \in Names \ {n} : Exists(m) /\ conf[m].link = l

Begin(pc, n, c, new) ==
  /\ op = Idle /\ commands < MaxCommands
  /\ op' = [pc |-> pc, at |-> n, cfg |-> c, new |-> new]
  /\ commands' = commands + 1 /\ UNCHANGED faults

At(pc) == op.pc = pc /\ UNCHANGED counts
Goto(pc) == op' = [op EXCEPT !.pc = pc]
End == op' = Idle

\* NodeKeys.load_or_generate: keys that are there are kept, and a directory
\* without them gets a new identity.
KeysIn(d, root) ==
  /\ data[d] = NoDir => ids < MaxIds
  /\ ids' = IF data[d] = NoDir THEN ids + 1 ELSE ids
  /\ data' = [data EXCEPT ![d] =
       IF data[d] = NoDir THEN [id |-> ids + 1, root |-> root, grace |-> Nothing]
       ELSE [data[d] EXCEPT !.root = data[d].root \/ root]]

\* enable_systemd_now: a unit that is active is left alone.
SystemdEnable(n) ==
  IF run[n] # NotRunning THEN UNCHANGED service
  ELSE unit' = [unit EXCEPT ![n] = TRUE] /\ UNCHANGED <<run, hand>>

\* launchd_install: the job is unloaded and loaded again.
LaunchdInstall(n) ==
  /\ unit' = [unit EXCEPT ![n] = TRUE] /\ run' = [run EXCEPT ![n] = NotRunning]
  /\ UNCHANGED hand

Enable(n) == IF Manager = "systemd" THEN SystemdEnable(n) ELSE LaunchdInstall(n)

\* Faulty variant: the unit is stopped, and starts again at the next boot.
OnlyStop(n) == run' = [run EXCEPT ![n] = NotRunning] /\ UNCHANGED <<unit, hand>>

\* disable_now: stop it, and take it out of the boot.
Disable(n) == /\ unit' = [unit EXCEPT ![n] = FALSE] /\ run' = [run EXCEPT ![n] = NotRunning]
              /\ UNCHANGED hand

-----------------------------------------------------------------------------
(* gw create *)

BeginCreate(n) ==
  /\ \A m \in Names \ {n} : data[m] # NoDir => ~data[m].root
  /\ ~Clash(LinkOf[n], n)
  /\ Begin("create keys", n,
       [mesh |-> Own, name |-> n, dir |-> n, link |-> LinkOf[n], anchor |-> TRUE], n)
  /\ UNCHANGED <<files, kernel, service, blocks, mesh, history>>

CreateKeys == /\ At("create keys") /\ KeysIn(op.cfg.dir, TRUE) /\ Goto("create config")
              /\ UNCHANGED <<conf, kernel, service, blocks, mesh, gone>>

CreateConfig == /\ At("create config") /\ conf' = [conf EXCEPT ![op.at] = op.cfg]
                /\ title' = [title EXCEPT ![Own] = op.cfg.name] /\ Goto("create issue")
                /\ UNCHANGED <<data, kernel, service, blocks, known, strayed, retitles, history>>

CreateIssue == /\ At("create issue") /\ known' = known \cup {<<Own, data[op.cfg.dir].id>>}
               /\ Goto("enable")
               /\ UNCHANGED <<files, kernel, service, blocks, title, strayed, retitles, history>>

\* The unit of the config's path: the last step of create, join and rename.
EnableUnit == /\ At("enable") /\ Enable(op.new) /\ End
              /\ UNCHANGED <<files, kernel, blocks, mesh, history>>

-----------------------------------------------------------------------------
(* gw join *)

\* Faulty variant: a join is routed by the mesh's name, not by its CA.
ByName(c) == {n \in Names : Exists(n) /\ n = title[c]}

\* _membership_for_ca: the memberships here that trust the token's CA.
Refreshed(c) == {n \in Names : Exists(n) /\ conf[n].mesh = c}

\* The door is a singleton: a host that holds an anchor joins nothing.
NoAnchorHere == \A n \in Names : Exists(n) => ~HoldsAnchor(conf[n])

\* A mesh that this host is on is refreshed where it is, a new one goes where
\* its name says.
Route(c) == IF Refreshed(c) # {} THEN Refreshed(c) ELSE {title[c]}

\* No membership but the refreshed one has the token's domain.
DomainFree(c, n) ==
  \A m \in Names : Exists(m) /\ conf[m].name = title[c] => m = n /\ m \in Refreshed(c)

\* Every refusal comes before the door, and leaves no trace.
BeginJoin(c) ==
  /\ NoAnchorHere
  /\ \E n \in Route(c) :
       LET old == n \in Refreshed(c) IN
       /\ DomainFree(c, n)
       /\ Careful /\ old => conf[n].name = title[c]
       /\ old \/ ~Clash(LinkOf[n], n)
       /\ Begin("join keys", n,
            [mesh |-> c, name |-> title[c], anchor |-> FALSE,
             dir  |-> IF old THEN conf[n].dir ELSE n,
             link |-> IF old THEN conf[n].link ELSE LinkOf[n]], n)
  /\ UNCHANGED <<files, kernel, service, blocks, mesh, history>>

JoinKeys == /\ At("join keys") /\ KeysIn(op.cfg.dir, FALSE) /\ Goto("join door")
            /\ UNCHANGED <<conf, kernel, service, blocks, mesh, gone>>

\* The holder takes the identity on.
EnrolledAt(c, i) == known' = known \cup {<<c, i>>}

\* Enrolled over the door; directory and policy go to disk.
JoinDoor == /\ At("join door") /\ EnrolledAt(op.cfg.mesh, data[op.cfg.dir].id)
            /\ Goto("join config")
            /\ UNCHANGED <<files, kernel, service, blocks, title, strayed, retitles, history>>

\* The config comes last, and takes the token's domain.
JoinConfig == /\ At("join config") /\ conf' = [conf EXCEPT ![op.at] = op.cfg] /\ Goto("enable")
              /\ UNCHANGED <<data, kernel, service, blocks, mesh, history>>

\* The door does not answer or refuses; no holder answers a leave.
GiveUp == /\ op.pc \in {"join door", "leave ask"} /\ End
          /\ UNCHANGED <<files, kernel, service, blocks, mesh, history, counts>>

-----------------------------------------------------------------------------
(* gw leave *)

BeginLeave(n) == /\ Exists(n) /\ ~HoldsAnchor(conf[n])
                 /\ Begin("leave ask", n, conf[n], n)
                 /\ UNCHANGED <<files, kernel, service, blocks, mesh, history>>

\* The holder forgets the node; the answer may get lost on its way back.
LeaveAsk == /\ At("leave ask") /\ KeysIn(op.cfg.dir, FALSE)
            /\ known' = known \ {<<op.cfg.mesh, data'[op.cfg.dir].id>>}
            /\ Goto("leave stop") \/ End
            /\ UNCHANGED <<conf, kernel, service, blocks, title, strayed, retitles, gone>>

\* Only after the confirmation: the unit of the config's domain, ...
LeaveStop == /\ At("leave stop") /\ Disable(op.cfg.name) /\ Goto("leave link")
             /\ UNCHANGED <<files, kernel, blocks, mesh, history>>

LeaveLink == /\ At("leave link") /\ links' = links \ {op.cfg.link} /\ Goto("leave hosts")
             /\ UNCHANGED <<files, tables, service, blocks, mesh, history>>

LeaveHosts == /\ At("leave hosts") /\ blocks' = blocks \ {op.cfg.name} /\ End
              /\ UNCHANGED <<files, kernel, service, mesh, history>>

-----------------------------------------------------------------------------
(* gw purge *)

\* Faulty variant: the interface goes before the daemon does.
LinkFirst == "purge link"

\* The daemon is stopped first: a running one restores what is deleted.
PurgeFrom == "purge stop"

BeginPurge(n) == /\ Exists(n) /\ Begin(PurgeFrom, n, conf[n], n)
                 /\ UNCHANGED <<files, kernel, service, blocks, mesh, history>>

PurgeStop == /\ At("purge stop") /\ Disable(op.cfg.name) /\ Goto("purge stray")
             /\ UNCHANGED <<files, kernel, blocks, mesh, history>>

\* A daemon run by hand on this very config file is killed; the command line of
\* a unit's daemon does not match.
PurgeStray == /\ At("purge stray") /\ hand' = [hand EXCEPT ![op.at] = NotRunning]
              /\ Goto("purge link")
              /\ UNCHANGED <<files, kernel, unit, run, blocks, mesh, history>>

PurgeLink == /\ At("purge link") /\ links' = links \ {op.cfg.link}
             /\ tables' = tables \ {op.cfg.name} /\ Goto("purge data")
             /\ UNCHANGED <<files, service, blocks, mesh, history>>

\* Faulty variant: the keys are wiped, and the directory stays.
PurgeKeys == /\ At("purge data") /\ data' = [data EXCEPT ![op.cfg.dir] =
                                              IF @ = NoDir THEN @ ELSE [@ EXCEPT !.id = 0]]
             /\ gone' = gone \cup (IF data[op.cfg.dir] = NoDir THEN {} ELSE {data[op.cfg.dir].id})
             /\ Goto("purge config")
             /\ UNCHANGED <<conf, kernel, service, blocks, mesh, ids>>

\* rmtree.
PurgeData == /\ At("purge data") /\ data' = [data EXCEPT ![op.cfg.dir] = NoDir]
             /\ gone' = gone \cup (IF data[op.cfg.dir] = NoDir THEN {} ELSE {data[op.cfg.dir].id})
             /\ Goto("purge config")
             /\ UNCHANGED <<conf, kernel, service, blocks, mesh, ids>>

PurgeConfig == /\ At("purge config") /\ conf' = [conf EXCEPT ![op.at] = NoConf]
               /\ Goto("purge hosts")
               /\ UNCHANGED <<data, kernel, service, blocks, mesh, history>>

PurgeHosts == /\ At("purge hosts") /\ blocks' = blocks \ {op.cfg.name} /\ End
              /\ UNCHANGED <<files, kernel, service, mesh, history>>

-----------------------------------------------------------------------------
(* gw rename-mesh *)

\* Faulty variant: the derived interface is taken without a look.
AnyLink(new) == ~Exists(new)

\* A data directory without a config, of a join that did not end.
Leftover(n) == data[n] # NoDir /\ ~Exists(n)

\* The new name is free here, and so is the interface derived from it.
Free(new) == ~Exists(new) /\ ~Clash(LinkOf[new], new)

BeginRename(n, new) == /\ Exists(n) /\ n # new /\ Free(new)
                       /\ Careful => ~Leftover(new) /\ hand[n] = NotRunning
                       /\ Begin("rename stop", n, conf[n], new)
                       /\ UNCHANGED <<files, kernel, service, blocks, mesh, history>>

RenameStop == /\ At("rename stop") /\ Disable(op.cfg.name) /\ Goto("rename data")
              /\ UNCHANGED <<files, kernel, blocks, mesh, history>>

\* shutil.move fails without a source, and moves into a directory that is
\* already there.
RenameData ==
  /\ At("rename data")
  /\ IF op.cfg.dir = op.new THEN Goto("rename link") /\ UNCHANGED data
     ELSE IF data[op.cfg.dir] = NoDir THEN End /\ UNCHANGED data
     ELSE /\ Goto("rename link")
          /\ data' = [data EXCEPT ![op.cfg.dir] = NoDir,
                                  ![op.new] = IF @ = NoDir THEN data[op.cfg.dir] ELSE @]
  /\ UNCHANGED <<conf, kernel, service, blocks, mesh, history>>

\* The kernel takes no name twice.
RenameLink ==
  /\ At("rename link")
  /\ IF op.cfg.link \notin links THEN Goto("rename config") /\ UNCHANGED links
     ELSE IF LinkOf[op.new] \in links THEN End /\ UNCHANGED links
     ELSE /\ Goto("rename config")
          /\ links' = (links \ {op.cfg.link}) \cup {LinkOf[op.new]}
  /\ UNCHANGED <<files, tables, service, blocks, mesh, history>>

\* The new config; on an anchor, tokens and directory carry the new name.
RenameConfig ==
  /\ At("rename config")
  /\ conf' = [conf EXCEPT ![op.new] =
       [op.cfg EXCEPT !.name = op.new, !.dir = op.new, !.link = LinkOf[op.new]]]
  /\ title' = IF op.cfg.anchor THEN [title EXCEPT ![op.cfg.mesh] = op.new] ELSE title
  /\ Goto("rename drop")
  /\ UNCHANGED <<data, kernel, service, blocks, known, strayed, retitles, history>>

RenameDrop == /\ At("rename drop") /\ conf' = [conf EXCEPT ![op.at] = NoConf]
              /\ Goto("rename grace")
              /\ UNCHANGED <<data, kernel, service, blocks, mesh, history>>

\* The old name resolves for another credential lifetime.
RenameGrace ==
  /\ At("rename grace") /\ data' = [data EXCEPT ![op.new].grace = op.cfg.name]
  /\ IF Manager = "systemd" \/ \E n \in Names : unit[n] THEN Goto("enable") ELSE End
  /\ UNCHANGED <<conf, kernel, service, blocks, mesh, history>>

-----------------------------------------------------------------------------
(* The daemons, the service manager, other hosts *)

\* A daemon starts: the identity is read or made, the interface set up.
StartOn(c) == KeysIn(c.dir, FALSE) /\ links' = links \cup {c.link}

\* An enabled unit that is down is started; without a config it cannot.
Boot(n) == /\ unit[n] /\ run[n] = NotRunning /\ Exists(n)
           /\ run' = [run EXCEPT ![n] = conf[n]] /\ StartOn(conf[n])
           /\ UNCHANGED <<conf, tables, unit, hand, blocks, mesh, gone, op, counts>>

\* `gw run`, between the commands, and its end.
HandRun(n) == /\ op = Idle /\ commands < MaxCommands /\ commands' = commands + 1
              /\ Exists(n) /\ hand[n] = NotRunning
              /\ hand' = [hand EXCEPT ![n] = conf[n]] /\ StartOn(conf[n])
              /\ UNCHANGED <<conf, tables, unit, run, blocks, mesh, gone, op, faults>>
HandEnd(n) == /\ hand[n] # NotRunning /\ hand' = [hand EXCEPT ![n] = NotRunning]
              /\ UNCHANGED <<files, kernel, unit, run, blocks, mesh, history, op, counts>>

Daemons(n) == {run[n], hand[n]} \ {NotRunning}

\* A tick of the reconcile loop restores the interface, the block, the table
\* and, during the grace, the block of the old name.
Work(n) ==
  \E c \in Daemons(n) :
    /\ links' = links \cup {c.link} /\ tables' = tables \cup {c.name}
    /\ blocks' = blocks \cup {c.name} \cup
                    (IF data[c.dir] = NoDir THEN {} ELSE {data[c.dir].grace} \ {Nothing})
    /\ UNCHANGED <<files, service, mesh, history, op, counts>>

\* The grace is over.
Retire(n) ==
  \E c \in Daemons(n) :
    /\ data[c.dir] # NoDir /\ data[c.dir].grace # Nothing
    /\ blocks' = blocks \ {data[c.dir].grace}
    /\ data' = [data EXCEPT ![c.dir].grace = Nothing]
    /\ UNCHANGED <<conf, kernel, service, mesh, history, op, counts>>

Fault == faults < MaxFaults /\ faults' = faults + 1 /\ UNCHANGED commands

\* The daemon dies; the command in progress is cut off; the host reboots.
Die(n) == /\ Fault /\ run[n] # NotRunning /\ run' = [run EXCEPT ![n] = NotRunning]
          /\ UNCHANGED <<files, kernel, unit, hand, blocks, mesh, history, op>>

CutOff == /\ Fault /\ op # Idle /\ op.pc \notin Frail /\ End
          /\ UNCHANGED <<files, kernel, service, blocks, mesh, history>>

Reboot == /\ Fault /\ op.pc \notin Frail /\ End /\ links' = {} /\ tables' = {}
          /\ run' = [n \in Names |-> NotRunning] /\ hand' = run'
          /\ UNCHANGED <<files, unit, blocks, mesh, history>>

\* A join of c is in progress here, or was cut off after the holder's answer.
Unfinished(c) ==
  \/ op.pc \in {"join keys", "join door", "join config"} /\ op.cfg.mesh = c
  \/ \E n \in Names :
       /\ Leftover(n) /\ <<c, data[n].id>> \in known
       /\ op.pc \in {"rename link", "rename config"} => op.new # n

\* The anchor of a foreign mesh renames it.
Retitle(c) ==
  /\ retitles < MaxRetitles /\ retitles' = retitles + 1
  /\ \E n \in Names \ {title[m] : m \in IF Careful THEN Meshes ELSE {c}} :
       title' = [title EXCEPT ![c] = n]
  /\ strayed' = IF Unfinished(c) THEN strayed \cup {c} ELSE strayed
  /\ UNCHANGED <<files, kernel, service, blocks, known, history, op, counts>>

Command == \/ CreateKeys \/ CreateConfig \/ CreateIssue \/ EnableUnit
           \/ JoinKeys \/ JoinDoor \/ JoinConfig \/ GiveUp
           \/ LeaveAsk \/ LeaveStop \/ LeaveLink \/ LeaveHosts
           \/ PurgeStop \/ PurgeStray \/ PurgeLink \/ PurgeData \/ PurgeConfig \/ PurgeHosts
           \/ RenameStop \/ RenameData \/ RenameLink \/ RenameConfig \/ RenameDrop
           \/ RenameGrace

Next ==
  \/ Command \/ CutOff \/ Reboot
  \/ \E n \in Names : BeginCreate(n) \/ BeginLeave(n) \/ BeginPurge(n)
                        \/ Boot(n) \/ HandRun(n) \/ HandEnd(n)
                        \/ Work(n) \/ Retire(n) \/ Die(n)
  \/ \E c \in Foreign : BeginJoin(c) \/ Retitle(c)
  \/ \E n, new \in Names : BeginRename(n, new)

\* Enabled units are started, running daemons tick, graces end.
Fairness == \A n \in Names : WF_vars(Boot(n)) /\ WF_vars(Work(n)) /\ WF_vars(Retire(n))

Spec == Init /\ [][Next]_vars
FairSpec == Spec /\ Fairness

-----------------------------------------------------------------------------
(* Properties *)

\* The state is of the shape the code keeps.
HostTypeOK ==
  /\ conf \in [Names -> Conf \cup {NoConf}] /\ data \in [Names -> Dir \cup {NoDir}]
  /\ links \subseteq Links /\ blocks \subseteq Names /\ tables \subseteq Names
  /\ unit \in [Names -> BOOLEAN] /\ run \in [Names -> Conf \cup {NotRunning}]
  /\ hand \in [Names -> Conf \cup {NotRunning}] /\ strayed \subseteq Foreign
  /\ known \subseteq Meshes \X (1..MaxIds)
  /\ title \in [Meshes -> Names \cup {Nothing}] /\ gone \subseteq 1..MaxIds

\* A unit that starts at boot has a config to start from and a data directory
\* with the node's keys: otherwise the daemon crash-loops, or makes itself a
\* new identity.
EnabledIsWhole == \A n \in Names : unit[n] => Exists(n) /\ data[conf[n].dir] # NoDir

\* The identities c knows this host by, but for those that a purge erased.
KnownAs(c) == {i \in 1..MaxIds \ gone : <<c, i>> \in known}

\* A mesh knows this host by one identity, however commands follow each other and
\* are cut off: unless the mesh was renamed between a join of it that did not end
\* and its re-run, an operator was not Careful, or a cut fell inside a rename
\* (Frail).
OneIdentity == \A c \in Meshes \ strayed : Cardinality(KnownAs(c)) <= 1

\* ... and the mesh may have been renamed at any time.
IdentityKept == \A c \in Meshes : Cardinality(KnownAs(c)) <= 1

\* No two memberships share an interface, derived names being cut short.
OwnLinks == \A m, n \in Names : m # n /\ Exists(m) /\ Exists(n) => conf[m].link # conf[n].link

\* Between commands an interface belongs to a membership of this host, and a
\* daemon runs on the data directory and interface of its config: nothing
\* that was purged or renamed away haunts the host.
NothingHaunts ==
  op = Idle =>
    /\ \A l \in links : \E n \in Names : Exists(n) /\ conf[n].link = l
    /\ \A n \in Names : \A c \in Daemons(n) :
         Exists(n) /\ c.link = conf[n].link /\ c.dir = conf[n].dir

\* A mesh's name is one thing everywhere: the config file of a membership, its
\* domain and its data directory carry the same one.
NeverApart == \A n \in Names : Exists(n) => conf[n].name = n /\ conf[n].dir = n

\* The old names of a renamed mesh are retired in the end.
NamesRetire ==
  \A n \in Names : (n \in blocks /\ \A m \in Names : Exists(m) => conf[m].name # n)
    ~> (n \notin blocks \/ \E m \in Names : Exists(m) /\ conf[m].name = n)

\* A purge leaves nothing of the mesh behind.
NothingLeft ==
  op = Idle /\ (\A n \in Names : ~Exists(n) /\ data[n] = NoDir)
    => links = {} /\ blocks = {} /\ tables = {} /\ \A n \in Names : ~unit[n]
=============================================================================
