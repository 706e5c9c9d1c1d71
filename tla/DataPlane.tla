----------------------------- MODULE DataPlane -----------------------------
(***************************************************************************)
(* The reconcile loop of one node, Self: it turns the directory, the       *)
(* revoked set and the grant table into WireGuard peers, routes, the port  *)
(* filter and the names of the hosts block, while other threads change     *)
(* what it reads and anything outside the daemon changes what it wrote.    *)
(*                                                                         *)
(* A tick is a sequence of steps, as each external command can fail alone. *)
(* An address is the member that owns it; a credential is "ok", "expired"  *)
(* or "foreign" (not signed by a trusted CA).                              *)
(***************************************************************************)
EXTENDS Grants

CONSTANTS Member, Self,
          Records,     \* the records members may publish
          Dirs,        \* the directories the node may start with
          Tables,      \* the grant tables that may arrive
          Ports,       \* the ports packets are sent to
          None,        \* no endpoint, no filter, nothing
          MaxChanges,  \* bound: changes of what the loop reads
          MaxFaults    \* bound: failed commands, outside interference, restarts

Addr(recs) == {r.addr : r \in recs}
Keys(recs) == {r.key : r \in recs}

ASSUME RecordsAssumption ==
    /\ Self \in Member
    /\ \A r \in Records : r.addr \in Member /\ r.cred \in {"ok", "expired", "foreign"}
    /\ \A r, s \in Records : r.key = s.key => r.addr = s.addr
    /\ \A d \in Dirs : /\ d \subseteq Records /\ Self \in Addr(d)
                        /\ \A r, s \in d : r.addr = s.addr => r = s
    /\ NoTable \in Tables
    /\ MaxChanges \in Nat /\ MaxFaults \in Nat

\* No filter is no filter at all, not an empty one.
ASSUME NoneAssumption ==
    None \notin [open : BOOLEAN, control : BOOLEAN,
                 allow : [Ports \cup {AllPorts} -> SUBSET Member]]

VARIABLES
    dir,       \* the directory: a set of records, one for each address
    revoked,   \* the members revoked
    table,     \* GrantPolicy.table
    caps,      \* ReconcileLoop._local_caps
    fcaps,     \* PortFilter._local_caps, set by the same thread a moment later
    iface,     \* the mesh interface: "none", "half" configured, "up"
    wg,        \* key -> [addr, ep]: the peers of the interface
    routes,    \* the addresses routed to the interface
    nft,       \* the rules of the mesh's own table, None when it is absent
    applied,   \* PortFilter._applied
    names,     \* the addresses named in the hosts block
    pc,        \* where the tick is
    view,      \* what the tick has read
    changes, faults

inputs == <<dir, revoked, table, caps, fcaps>>
kernel == <<iface, wg, routes>>
vars == <<inputs, kernel, nft, applied, names, pc, view, changes, faults>>

IsAnchor(c) == Any \in RoleTags(c)

\* Steps 1 to 5 of the verification.  Expiry is waived for an anchor and by one.
Verifies(r) ==
    /\ \/ r.cred = "ok"
       \/ r.cred = "expired" /\ (IsAnchor(caps) \/ IsAnchor(r.caps))
    /\ r.addr \notin revoked

Trusted == {r \in dir : Verifies(r)}

\* Step 6, the policy; the peers that should exist.
Desired(recs) ==
    {r \in recs : /\ r.addr # Self
                  /\ PeersAllowed(NodeTags(caps, Self), NodeTags(r.caps, r.name), table)}

\* A peer is set again when its addresses or its pinned endpoint differ.
Outdated(r, live) ==
    \/ live[r.key].addr # {r.addr}
    \/ r.ep # None /\ live[r.key].ep # r.ep

Blank == [trusted |-> {}, want |-> {}, set |-> {}, drop |-> {}, live |-> <<>>, ok |-> TRUE]

ViewOf(recs, live) ==
    LET want == Desired(recs)
    IN  [trusted |-> recs, want |-> want, live |-> live, ok |-> TRUE,
         set  |-> {r \in want : r.key \notin DOMAIN live \/ Outdated(r, live)},
         drop |-> DOMAIN live \ Keys(want)]

\* Mutant: the filter takes every record of the directory.
RulesUnverified == Ruleset(dir, fcaps, Self, table, Ports)

Rules == Ruleset(view.trusted, fcaps, Self, table, Ports)

OwnCaps == UNION {r.caps : r \in {x \in dir : x.addr = Self}}

Init ==
    /\ dir \in Dirs /\ revoked = {} /\ table = NoTable
    /\ caps = OwnCaps /\ fcaps = OwnCaps
    /\ iface = "up" /\ wg = <<>> /\ routes = {}
    /\ nft = None /\ applied = None /\ names = {}
    /\ pc = "idle" /\ view = Blank
    /\ changes = 0 /\ faults = 0

-----------------------------------------------------------------------------
(* One tick.                                                                *)

Fault == faults < MaxFaults /\ faults' = faults + 1
NoFault == UNCHANGED faults

Goto(l) == pc' = l /\ UNCHANGED changes

\* The interface is recreated when it is gone; a failure ends the tick.  It may
\* fail after the link exists: no key, no port, not up.
CheckInterface ==
    /\ pc = "idle"
    /\ \/ iface # "none" /\ NoFault /\ Goto("read") /\ UNCHANGED kernel
       \/ iface = "none" /\ NoFault /\ Goto("read")
          /\ iface' = "up" /\ UNCHANGED <<wg, routes>>
       \/ iface = "none" /\ Fault /\ Goto("idle")
          /\ iface' \in {"none", "half"} /\ UNCHANGED <<wg, routes>>
    /\ UNCHANGED <<inputs, nft, applied, names, view>>

\* One pass over the directory.  Without the dump of the live peers the diff is
\* skipped, and the tick goes on with nothing verified.
Read ==
    /\ pc = "read"
    /\ \/ iface # "none" /\ NoFault
          /\ view' = ViewOf(Trusted, wg) /\ Goto("set")
       \/ (IF iface = "none" THEN NoFault ELSE Fault)
          /\ view' = [Blank EXCEPT !.ok = FALSE] /\ Goto("filter")
    /\ UNCHANGED <<inputs, kernel, nft, applied, names>>

\* `wg set`: the kernel takes the address away from any other peer.
SetPeer(r) ==
    wg' = [k \in DOMAIN wg \cup {r.key} |->
             IF k # r.key THEN [wg[k] EXCEPT !.addr = @ \ {r.addr}]
             ELSE [addr |-> {r.addr},
                   ep   |-> IF r.ep = None /\ k \in DOMAIN wg THEN wg[k].ep ELSE r.ep]]

\* The command fails, or the peer is set and its route may still fail; a route
\* never takes on an interface that is not up.
Install(r) ==
    /\ pc = "set" /\ r \in view.set
    /\ \/ iface # "none" /\ SetPeer(r)
          /\ \/ iface = "up" /\ NoFault /\ routes' = routes \cup {r.addr}
                /\ view' = [view EXCEPT !.set = @ \ {r}]
             \/ (IF iface = "half" THEN NoFault ELSE Fault) /\ UNCHANGED routes
                /\ view' = [view EXCEPT !.set = @ \ {r}, !.ok = FALSE]
       \/ (IF iface = "none" THEN NoFault ELSE Fault)
          /\ view' = [view EXCEPT !.set = @ \ {r}, !.ok = FALSE]
          /\ UNCHANGED <<wg, routes>>
    /\ Goto("set") /\ UNCHANGED <<inputs, iface, nft, applied, names>>

Installed == pc = "set" /\ view.set = {} /\ Goto("drop") /\ NoFault
             /\ UNCHANGED <<inputs, kernel, nft, applied, names, view>>

\* Mutant: the routes of a removed peer go, whoever wants them.
AllRoutes(k) == view.live[k].addr

\* The routes a removed peer leaves behind that no remaining peer wants.
StaleRoutes(k) == view.live[k].addr \ Addr(view.want)

Remove(k) ==
    /\ pc = "drop" /\ k \in view.drop
    /\ \/ iface # "none" /\ NoFault /\ view' = [view EXCEPT !.drop = @ \ {k}]
          /\ wg' = [j \in DOMAIN wg \ {k} |-> wg[j]] /\ routes' = routes \ StaleRoutes(k)
       \/ (IF iface = "none" THEN NoFault ELSE Fault)
          /\ view' = [view EXCEPT !.drop = @ \ {k}, !.ok = FALSE] /\ UNCHANGED <<wg, routes>>
    /\ Goto("drop") /\ UNCHANGED <<inputs, iface, nft, applied, names>>

Removed == pc = "drop" /\ view.drop = {} /\ Goto("filter") /\ NoFault
           /\ UNCHANGED <<inputs, kernel, nft, applied, names, view>>

\* Mutant: the rules loaded last are taken for the rules in the kernel.
TrustCache ==
    /\ pc = "filter"
    /\ \/ Rules = applied /\ NoFault /\ UNCHANGED <<nft, applied, view>>
       \/ Rules # applied
          /\ \/ nft' = Rules /\ applied' = Rules /\ NoFault /\ UNCHANGED view
             \/ Fault /\ view' = [view EXCEPT !.ok = FALSE] /\ UNCHANGED <<nft, applied>>
    /\ Goto("hosts") /\ UNCHANGED <<inputs, kernel, names>>

\* The rules are rendered from the table and the roles of this moment, and
\* loaded when they changed or the table is no longer in the kernel.
ApplyFilter ==
    /\ pc = "filter"
    /\ \/ Rules = applied /\ nft # None /\ NoFault /\ UNCHANGED <<nft, applied, view>>
       \/ (Rules # applied \/ nft = None)
          /\ \/ nft' = Rules /\ applied' = Rules /\ NoFault /\ UNCHANGED view
             \/ Fault /\ view' = [view EXCEPT !.ok = FALSE] /\ UNCHANGED <<nft, applied>>
    /\ Goto("hosts") /\ UNCHANGED <<inputs, kernel, names>>

SyncHosts ==
    /\ pc = "hosts"
    /\ \/ names' = Addr(view.trusted) /\ NoFault
       \/ Fault /\ UNCHANGED names
    /\ Goto("idle") /\ view' = Blank
    /\ UNCHANGED <<inputs, kernel, nft, applied>>

Tick == \/ CheckInterface \/ Read \/ Installed \/ Removed \/ ApplyFilter \/ SyncHosts
        \/ \E r \in Records : Install(r)
        \/ \E k \in Keys(Records) : Remove(k)

-----------------------------------------------------------------------------
(* What the other threads change under the loop.                            *)

Change == changes < MaxChanges /\ changes' = changes + 1
          /\ UNCHANGED <<kernel, nft, applied, names, pc, faults>>

\* This tick is no longer made of one reading.
Disturb == view' = [view EXCEPT !.ok = pc = "idle"]

\* Mutant: the record it replaces stays.
PublishBeside(r) ==
    /\ r \notin dir /\ dir' = dir \cup {r}
    /\ Change /\ UNCHANGED <<revoked, table, caps, fcaps, view>>

\* A record arrives, by a sync or a renewal.
Publish(r) ==
    /\ r \notin dir
    /\ dir' = {x \in dir : x.addr # r.addr} \cup {r}
    /\ Change /\ UNCHANGED <<revoked, table, caps, fcaps, view>>

Revoke(m) ==
    /\ m \notin revoked /\ revoked' = revoked \cup {m}
    /\ Change /\ UNCHANGED <<dir, table, caps, fcaps, view>>

TakeTable(t) ==
    /\ t.seq > table.seq /\ table' = t
    /\ Change /\ Disturb /\ UNCHANGED <<dir, revoked, caps, fcaps>>

\* The roles of the renewed credential: the loop's first, then the filter's.
AdoptCaps ==
    /\ caps # OwnCaps \/ fcaps # caps
    /\ \/ caps # OwnCaps /\ caps' = OwnCaps /\ UNCHANGED fcaps
       \/ caps = OwnCaps /\ fcaps' = caps /\ UNCHANGED caps
    /\ Disturb
    /\ UNCHANGED <<dir, revoked, table, kernel, nft, applied, names, pc, changes, faults>>

-----------------------------------------------------------------------------
(* What is outside the daemon, and its restart.                             *)

DeleteInterface ==
    /\ iface # "none" /\ iface' = "none" /\ wg' = <<>> /\ routes' = {}
    /\ Fault /\ Disturb
    /\ UNCHANGED <<inputs, nft, applied, names, pc, changes>>

\* An operator's `nft -f` that begins with `flush ruleset`.
FlushRuleset ==
    /\ nft # None /\ nft' = None
    /\ Fault /\ Disturb
    /\ UNCHANGED <<inputs, kernel, applied, names, pc, changes>>

\* The filter and the peers outlive the process.  It brings the interface up
\* before the loop starts, or does not start.
Restart ==
    /\ Fault /\ pc' = "idle" /\ view' = Blank /\ applied' = None
    /\ iface' = "up" /\ caps' = OwnCaps /\ fcaps' = OwnCaps
    /\ UNCHANGED <<dir, revoked, table, wg, routes, nft, names, changes>>

Environment == \/ \E r \in Records : Publish(r)
               \/ \E m \in Member : Revoke(m)
               \/ \E t \in Tables : TakeTable(t)
               \/ DeleteInterface \/ FlushRuleset \/ Restart

Next == Tick \/ AdoptCaps \/ Environment

Spec == Init /\ [][Next]_vars

\* The loop's thread runs and a renewed credential is adopted.
FairSpec == Spec /\ WF_vars(Tick) /\ WF_vars(AdoptCaps)

-----------------------------------------------------------------------------
(* Properties.                                                              *)

TypeOK ==
    /\ dir \subseteq Records /\ \A r, s \in dir : r.addr = s.addr => r = s
    /\ revoked \subseteq Member /\ table \in Tables
    /\ iface \in {"none", "half", "up"}
    /\ DOMAIN wg \subseteq Keys(Records)
    /\ \A k \in DOMAIN wg : wg[k].addr \subseteq Member
    /\ routes \subseteq Member /\ names \subseteq Member
    /\ pc \in {"idle", "read", "set", "drop", "filter", "hosts"}
    /\ changes \in 0..MaxChanges /\ faults \in 0..MaxFaults

Peers == UNION {wg[k].addr : k \in DOMAIN wg}

\* Who the filter lets in for some port that a grant names.
Admitted == UNION {nft.allow[p] : p \in DOMAIN nft.allow}

Ends == pc = "hosts" /\ pc' = "idle"

\* A tick that nothing disturbed leaves peers, names and filter that come from
\* one verified set: every peer is named, and whoever the filter admits is a
\* peer or Self.  Stale names, or a filter wider than the tunnels, would be a
\* revoked or unauthorised member that still gets in by one of the three.
OneView ==
    [][Ends /\ view.ok /\ caps = fcaps /\ faults' = faults
         => Peers \subseteq names' /\ Admitted \subseteq Peers \cup {Self}]_vars

Linked(r) == r.key \in DOMAIN wg /\ r.addr \in wg[r.key].addr /\ r.addr \in routes

\* No command of a tick breaks the working link of a peer that should exist:
\* removing the peer of a rotated WireGuard key leaves the route of its owner.
LinksKept ==
    [][\A r \in view.want : Linked(r) => Linked(r)' \/ iface' = "none"]_vars

\* What the last tick should leave, whatever failed on the way.
Settled ==
    /\ DOMAIN wg = Keys(Desired(Trusted))
    /\ \A r \in Desired(Trusted) : wg[r.key].addr = {r.addr}
    /\ names = Addr(Trusted)
    /\ nft = Ruleset(Trusted, caps, Self, table, Ports)

\* Once nothing changes any more the kernel follows the directory: a failed
\* command, a misread dump, a flushed ruleset, a deleted interface, a restart
\* or a role adopted in two steps is repaired by later ticks.
Settles == <>[]Settled

\* Without a change of what it reads, a tick takes no verified name away.
NamesKept ==
    [][changes = 0 => \A m \in names \ names' : m \notin Addr(Trusted)]_vars

\* An interface that is gone comes back.
Recreated == iface = "none" ~> iface = "up"

\* In the end every peer that should exist has its route.
Routed == <>[](\A r \in Desired(Trusted) : Linked(r))
=============================================================================
