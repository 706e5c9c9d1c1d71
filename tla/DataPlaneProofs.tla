--------------------------- MODULE DataPlaneProofs --------------------------
(***************************************************************************)
(* Theorems about DataPlane, for any records, grant tables, faults and     *)
(* changes under the loop.  The invariant says how far a tick has got that *)
(* nothing disturbed, so that its end is one reading of the directory.     *)
(***************************************************************************)
EXTENDS DataPlane, TLAPS

Endpoint == {None} \cup {r.ep : r \in Records}
Peer == [addr : SUBSET Member, ep : Endpoint]

\* What the tick has read: at most one record of an owner, and nobody who should
\* be a peer is to be dropped.
ViewOK ==
    /\ view = [trusted |-> view.trusted, want |-> view.want, set |-> view.set,
               drop |-> view.drop, live |-> view.live, ok |-> view.ok]
    /\ view.ok \in BOOLEAN
    /\ view.trusted \subseteq Records
    /\ \A r, s \in view.trusted : r.addr = s.addr => r = s
    /\ view.want \subseteq view.trusted /\ view.set \subseteq view.want
    /\ \A r \in view.want : r.key \notin view.drop

\* The rules loaded last are in the kernel, if any are.
CacheOK == nft = None \/ applied = None \/ nft = applied

Reading == pc \in {"set", "drop", "filter", "hosts"}

\* How far an undisturbed tick has got.
Progress ==
    /\ view.want = Desired(view.trusted)
    /\ \A r \in view.want \ view.set : r.key \in DOMAIN wg /\ wg[r.key].addr = {r.addr}
    /\ DOMAIN wg \subseteq Keys(view.want) \cup view.drop
    /\ pc # "set" => view.set = {}
    /\ pc \in {"filter", "hosts"} => view.drop = {}
    /\ pc = "hosts" => nft = Rules

DataPlaneInv ==
    /\ TypeOK /\ ViewOK /\ CacheOK
    /\ \A k \in DOMAIN wg : wg[k] \in Peer
    /\ Reading /\ view.ok => Progress

USE RecordsAssumption

-----------------------------------------------------------------------------
(* The filter and the tunnels *)

\* Whom the filter lets in by a grant, the grant connects.
LEMMA AllowedArePeers ==
  ASSUME NEW recs, NEW roles, NEW t, NEW port, NEW n,
         NEW m \in Allowance(recs, NodeTags(roles, n), t, port)
  PROVE  \E r \in recs : /\ r.addr = m
                         /\ PeersAllowed(NodeTags(roles, n), NodeTags(r.caps, r.name), t)
<1>1. PICK g \in t.grants :
        Matches(g.to, NodeTags(roles, n)) /\ m \in Sources(g, recs)
  BY DEF Allowance
<1>2. PICK r \in recs : r.addr = m /\ Matches(g.from, NodeTags(r.caps, r.name))
  BY <1>1 DEF Sources
<1> QED
  BY <1>1, <1>2 DEF PeersAllowed, Connects

\* A rendered filter is a filter, and lets in only members of the records.
LEMMA RulesetIs ==
  ASSUME NEW recs, recs \subseteq Records, NEW roles, NEW t
  PROVE  /\ Ruleset(recs, roles, Self, t, Ports) # None
         /\ \A p \in DOMAIN Ruleset(recs, roles, Self, t, Ports).allow :
            \A m \in Ruleset(recs, roles, Self, t, Ports).allow[p] :
              \E r \in recs : /\ r.addr = m
                              /\ PeersAllowed(NodeTags(roles, Self), NodeTags(r.caps, r.name), t)
<1> DEFINE rs == Ruleset(recs, roles, Self, t, Ports)
           A(p) == IF FullyOpen(t) THEN {} ELSE Allowance(recs, NodeTags(roles, Self), t, p)
<1>1. /\ rs = [open |-> FullyOpen(t), control |-> Any \in RoleTags(roles),
               allow |-> [p \in Ports \cup {AllPorts} |-> A(p)]]
      /\ \A p : \A m \in A(p) :
           \E r \in recs : /\ r.addr = m
                           /\ PeersAllowed(NodeTags(roles, Self), NodeTags(r.caps, r.name), t)
  BY AllowedArePeers DEF Ruleset
<1>2. \A p : A(p) \in SUBSET Member
  BY <1>1
<1> HIDE DEF A
<1>3. rs.allow = [p \in Ports \cup {AllPorts} |-> A(p)]
  BY <1>1
<1>4. rs.allow \in [Ports \cup {AllPorts} -> SUBSET Member]
  BY <1>2, <1>3
<1>5. FullyOpen(t) \in BOOLEAN /\ (Any \in RoleTags(roles)) \in BOOLEAN
  <2>1. FullyOpen(t) \in BOOLEAN
    BY DEF FullyOpen
  <2>2. (Any \in RoleTags(roles)) \in BOOLEAN
    OBVIOUS
  <2> QED
    BY <2>1, <2>2
<1>6. rs \in [open : BOOLEAN, control : BOOLEAN,
              allow : [Ports \cup {AllPorts} -> SUBSET Member]]
  BY <1>1, <1>3, <1>4, <1>5
<1>7. rs # None
  BY <1>6, NoneAssumption
<1>8. ASSUME NEW p \in DOMAIN rs.allow, NEW m \in rs.allow[p]
      PROVE  \E r \in recs : /\ r.addr = m
                             /\ PeersAllowed(NodeTags(roles, Self), NodeTags(r.caps, r.name), t)
  <2>1. rs.allow[p] = A(p)
    BY <1>3, <1>8
  <2> QED
    BY <1>1, <1>8, <2>1
<1> QED
  BY <1>7, <1>8

\* A rendered filter is never mistaken for none.
LEMMA NotNone ==
  ASSUME NEW recs, recs \subseteq Records, NEW roles, NEW t
  PROVE  Ruleset(recs, roles, Self, t, Ports) # None
BY RulesetIs

-----------------------------------------------------------------------------
(* The peers *)

\* `wg set` gives r its address, and takes it from nobody who has another.
LEMMA SetPeerDoes ==
  ASSUME DataPlaneInv, NEW r \in Records, SetPeer(r)
  PROVE  /\ DOMAIN wg' = DOMAIN wg \cup {r.key}
         /\ wg'[r.key].addr = {r.addr}
         /\ \A k \in DOMAIN wg' : wg'[k] \in Peer
         /\ \A k \in DOMAIN wg \ {r.key} : wg'[k].addr = wg[k].addr \ {r.addr}
<1>1. r.addr \in Member /\ r.ep \in Endpoint
  BY DEF Endpoint
<1>2. \A k \in DOMAIN wg : wg[k] \in Peer
  BY DEF DataPlaneInv
<1> DEFINE new == [addr |-> {r.addr},
                   ep   |-> IF r.ep = None /\ r.key \in DOMAIN wg THEN wg[r.key].ep ELSE r.ep]
           old(k) == [wg[k] EXCEPT !.addr = wg[k].addr \ {r.addr}]
<1>3. new \in Peer /\ new.addr = {r.addr}
  BY <1>1, <1>2 DEF Peer
<1>4. \A k \in DOMAIN wg : old(k) \in Peer /\ old(k).addr = wg[k].addr \ {r.addr}
  BY <1>2 DEF Peer
<1>5. DOMAIN wg' = DOMAIN wg \cup {r.key}
  BY DEF SetPeer
<1>6. \A k \in DOMAIN wg' : k # r.key => wg'[k] = old(k)
  BY DEF SetPeer
<1>7. wg'[r.key] = new
  BY DEF SetPeer
<1> HIDE DEF new, old
<1> QED
  BY <1>3, <1>4, <1>5, <1>6, <1>7

\* Records of a verified set that share a key or an address are one.
LEMMA OneOwner ==
  ASSUME DataPlaneInv, NEW r \in view.want, NEW s \in view.want,
         r.key = s.key \/ r.addr = s.addr
  PROVE  r = s
<1>1. r \in view.trusted /\ s \in view.trusted /\ r \in Records /\ s \in Records
  BY DEF DataPlaneInv, ViewOK
<1>2. r.addr = s.addr
  BY <1>1
<1> QED
  BY <1>1, <1>2 DEF DataPlaneInv, ViewOK

\* What striking an entry off the view gives.
LEMMA Struck ==
  ASSUME ViewOK, NEW s, NEW ok
  PROVE  /\ [view EXCEPT !.set = s, !.ok = ok]
              = [trusted |-> view.trusted, want |-> view.want, set |-> s,
                 drop |-> view.drop, live |-> view.live, ok |-> ok]
         /\ [view EXCEPT !.drop = s, !.ok = ok]
              = [trusted |-> view.trusted, want |-> view.want, set |-> view.set,
                 drop |-> s, live |-> view.live, ok |-> ok]
         /\ [view EXCEPT !.set = s]
              = [trusted |-> view.trusted, want |-> view.want, set |-> s,
                 drop |-> view.drop, live |-> view.live, ok |-> view.ok]
         /\ [view EXCEPT !.drop = s]
              = [trusted |-> view.trusted, want |-> view.want, set |-> view.set,
                 drop |-> s, live |-> view.live, ok |-> view.ok]
         /\ [view EXCEPT !.ok = ok]
              = [trusted |-> view.trusted, want |-> view.want, set |-> view.set,
                 drop |-> view.drop, live |-> view.live, ok |-> ok]
<1> DEFINE t == view.trusted
           w == view.want
           e == view.set
           d == view.drop
           l == view.live
           o == view.ok
<1>0. view = [trusted |-> t, want |-> w, set |-> e, drop |-> d, live |-> l, ok |-> o]
  BY DEF ViewOK
<1> HIDE DEF t, w, e, d, l, o
<1>1. [view EXCEPT !.set = s]
        = [trusted |-> t, want |-> w, set |-> s, drop |-> d, live |-> l, ok |-> o]
  BY <1>0
<1>2. [view EXCEPT !.drop = s]
        = [trusted |-> t, want |-> w, set |-> e, drop |-> s, live |-> l, ok |-> o]
  BY <1>0
<1>3. [view EXCEPT !.ok = ok]
        = [trusted |-> t, want |-> w, set |-> e, drop |-> d, live |-> l, ok |-> ok]
  BY <1>0
<1>4. [view EXCEPT !.set = s, !.ok = ok] = [[view EXCEPT !.set = s] EXCEPT !.ok = ok]
  OBVIOUS
<1>5. [view EXCEPT !.drop = s, !.ok = ok] = [[view EXCEPT !.drop = s] EXCEPT !.ok = ok]
  OBVIOUS
<1> DEFINE x == [view EXCEPT !.set = s]
           y == [view EXCEPT !.drop = s]
<1> HIDE DEF x, y
<1>6. [x EXCEPT !.ok = ok]
        = [trusted |-> t, want |-> w, set |-> s, drop |-> d, live |-> l, ok |-> ok]
  <2>1. x = [trusted |-> t, want |-> w, set |-> s, drop |-> d, live |-> l, ok |-> o]
    BY <1>1 DEF x
  <2> QED
    BY <2>1
<1>7. [y EXCEPT !.ok = ok]
        = [trusted |-> t, want |-> w, set |-> e, drop |-> s, live |-> l, ok |-> ok]
  <2>1. y = [trusted |-> t, want |-> w, set |-> e, drop |-> s, live |-> l, ok |-> o]
    BY <1>2 DEF y
  <2> QED
    BY <2>1
<1> QED
  BY <1>1, <1>2, <1>3, <1>4, <1>5, <1>6, <1>7 DEF x, y, t, w, e, d, l, o

-----------------------------------------------------------------------------
(* One tick *)

\* The fields of a view that is built and not yet looked at.
LEMMA BlankIs ==
  /\ Blank.trusted = {} /\ Blank.want = {} /\ Blank.set = {} /\ Blank.drop = {}
  /\ Blank.live = <<>> /\ Blank.ok = TRUE
BY DEF Blank

LEMMA CheckInterfaceKeeps ==
  ASSUME DataPlaneInv, CheckInterface
  PROVE  DataPlaneInv'
<1>1. /\ pc' \in {"idle", "read"} /\ iface' \in {"none", "half", "up"}
      /\ faults' \in 0..MaxFaults
      /\ UNCHANGED <<dir, revoked, table, caps, fcaps, wg, routes, nft, applied, names, view,
                     changes>>
  BY DEF CheckInterface, Goto, Fault, NoFault, inputs, kernel, DataPlaneInv, TypeOK
<1>2. TypeOK' /\ ~Reading'
  BY <1>1 DEF DataPlaneInv, TypeOK, Reading
<1>3. ViewOK' /\ CacheOK'
  BY <1>1 DEF DataPlaneInv, ViewOK, CacheOK
<1> QED
  BY <1>1, <1>2, <1>3 DEF DataPlaneInv

LEMMA ReadKeeps ==
  ASSUME DataPlaneInv, Read
  PROVE  DataPlaneInv'
<1>1. /\ pc' \in {"set", "filter"} /\ faults' \in 0..MaxFaults
      /\ UNCHANGED <<dir, revoked, table, caps, fcaps, iface, wg, routes, nft, applied, names,
                     changes>>
  BY DEF Read, Goto, Fault, NoFault, inputs, kernel, DataPlaneInv, TypeOK
<1>2. TypeOK' /\ CacheOK'
  BY <1>1 DEF DataPlaneInv, TypeOK, CacheOK
<1>3. CASE view' = [Blank EXCEPT !.ok = FALSE]
  <2>1. view' = [trusted |-> {}, want |-> {}, set |-> {}, drop |-> {}, live |-> <<>>, ok |-> FALSE]
    BY <1>3 DEF Blank
  <2>2. ViewOK' /\ ~view'.ok
    BY <2>1 DEF ViewOK
  <2> QED
    BY <1>1, <1>2, <2>2 DEF DataPlaneInv
<1>4. CASE view' = ViewOf(Trusted, wg) /\ pc' = "set"
  <2> DEFINE want == Desired(Trusted)
             set == {r \in want : r.key \notin DOMAIN wg \/ Outdated(r, wg)}
  <2>1. view' = [trusted |-> Trusted, want |-> want, set |-> set,
                 drop |-> DOMAIN wg \ Keys(want), live |-> wg, ok |-> TRUE]
    <3>1. view' = [trusted |-> Trusted, want |-> want, live |-> wg, ok |-> TRUE,
                   set |-> set, drop |-> DOMAIN wg \ Keys(want)]
      BY <1>4 DEF ViewOf
    <3> QED
      BY <3>1
  <2>2. /\ Trusted \subseteq Records /\ \A r, s \in Trusted : r.addr = s.addr => r = s
        /\ want \subseteq Trusted
    BY DEF Trusted, Desired, DataPlaneInv, TypeOK
  <2>3. \A r \in want : r.key \notin DOMAIN wg \ Keys(want)
    BY DEF Keys
  <2>4. \A r \in want \ set : r.key \in DOMAIN wg /\ wg[r.key].addr = {r.addr}
    BY DEF Outdated
  <2>5. want = Desired(Trusted)' /\ Trusted' = Trusted
    BY <1>1 DEF Desired, Trusted, Verifies, Revoke
  <2>6. set \subseteq want
    OBVIOUS
  <2> HIDE DEF want, set
  <2>7. ViewOK'
    BY <2>1, <2>2, <2>3, <2>6 DEF ViewOK
  <2>8. view'.want = Desired(view.trusted)'
    <3>1. view'.trusted = Trusted
      BY <2>1
    <3>2. Desired(view.trusted)' = want
      BY <1>1, <3>1 DEF Desired, want
    <3> QED
      BY <2>1, <3>2
  <2>9. Progress'
    BY <1>1, <1>4, <2>1, <2>4, <2>8 DEF Progress
  <2> QED
    BY <1>1, <1>2, <2>7, <2>9 DEF DataPlaneInv
<1> QED
  BY <1>3, <1>4 DEF Read, Goto

\* An entry of the list of peers to set is struck off, done or failed.
LEMMA InstallKeeps ==
  ASSUME DataPlaneInv, NEW r \in Records, Install(r)
  PROVE  DataPlaneInv'
<1>1. /\ pc = "set" /\ pc' = "set" /\ r \in view.set /\ faults' \in 0..MaxFaults
      /\ UNCHANGED <<dir, revoked, table, caps, fcaps, iface, nft, applied, names, changes>>
      /\ routes' \in {routes, routes \cup {r.addr}}
      /\ \/ SetPeer(r)
         \/ wg' = wg
  BY DEF Install, Goto, Fault, NoFault, inputs, DataPlaneInv, TypeOK
<1>2. PICK ok \in {view.ok, FALSE} :
        view' = [trusted |-> view.trusted, want |-> view.want, set |-> view.set \ {r},
                 drop |-> view.drop, live |-> view.live, ok |-> ok]
  <2>1. \/ view' = [view EXCEPT !.set = view.set \ {r}]
        \/ view' = [view EXCEPT !.set = view.set \ {r}, !.ok = FALSE]
    BY DEF Install
  <2>2. ViewOK
    BY DEF DataPlaneInv
  <2> QED
    BY <2>1, <2>2, Struck
<1>3. r \in view.want /\ r.addr \in Member /\ r.key \in Keys(Records)
  BY <1>1 DEF DataPlaneInv, ViewOK, Keys
<1>4. \A k \in DOMAIN wg : wg[k] \in Peer
  BY DEF DataPlaneInv
<1>5. /\ \A k \in DOMAIN wg' : wg'[k] \in Peer
      /\ DOMAIN wg' \subseteq DOMAIN wg \cup {r.key}
  BY <1>1, <1>4, SetPeerDoes
<1>6. TypeOK'
  <2>1. \A k \in DOMAIN wg' : wg'[k].addr \subseteq Member
    BY <1>5 DEF Peer
  <2>2. DOMAIN wg' \subseteq Keys(Records) /\ routes' \subseteq Member
    BY <1>1, <1>3, <1>5 DEF DataPlaneInv, TypeOK
  <2> QED
    BY <1>1, <2>1, <2>2 DEF DataPlaneInv, TypeOK
<1>7. ViewOK' /\ CacheOK'
  BY <1>1, <1>2 DEF DataPlaneInv, ViewOK, CacheOK
<1>8. ASSUME view'.ok PROVE Progress'
  <2>1. view.ok /\ Reading
    BY <1>1, <1>2, <1>8 DEF Reading
  <2>2. Progress
    BY <2>1 DEF DataPlaneInv
  <2>3. SetPeer(r)
    BY <1>2, <1>8, <2>1 DEF Install
  <2>4. /\ DOMAIN wg' = DOMAIN wg \cup {r.key} /\ wg'[r.key].addr = {r.addr}
        /\ \A k \in DOMAIN wg \ {r.key} : wg'[k].addr = wg[k].addr \ {r.addr}
    BY <2>3, SetPeerDoes
  <2>5. view'.want = Desired(view.trusted)'
    <3>1. view'.want = view.want /\ view'.trusted = view.trusted
      BY <1>2
    <3> QED
      BY <1>1, <2>2, <3>1 DEF Desired, Progress
  <2>6. ASSUME NEW s \in view.want, s \notin view.set \ {r}
        PROVE  s.key \in DOMAIN wg' /\ wg'[s.key].addr = {s.addr}
    <3>1. CASE s = r
      BY <2>4, <3>1
    <3>2. CASE s # r
      <4>1. s.key # r.key /\ s.addr # r.addr
        BY <1>3, <3>2, OneOwner
      <4>2. s.key \in DOMAIN wg /\ wg[s.key].addr = {s.addr}
        BY <2>2, <2>6, <3>2 DEF Progress
      <4> QED
        BY <2>4, <4>1, <4>2
    <3> QED
      BY <3>1, <3>2
  <2>7. DOMAIN wg' \subseteq Keys(view.want) \cup view.drop
    BY <1>3, <2>2, <2>4 DEF Progress, Keys
  <2> QED
    BY <1>1, <1>2, <2>5, <2>6, <2>7 DEF Progress
<1> QED
  BY <1>5, <1>6, <1>7, <1>8 DEF DataPlaneInv

\* An entry of the list of peers to remove is struck off, done or failed.
LEMMA RemoveKeeps ==
  ASSUME DataPlaneInv, NEW k \in Keys(Records), Remove(k)
  PROVE  DataPlaneInv'
<1>1. /\ pc = "drop" /\ pc' = "drop" /\ k \in view.drop /\ faults' \in 0..MaxFaults
      /\ UNCHANGED <<dir, revoked, table, caps, fcaps, iface, nft, applied, names, changes>>
      /\ routes' \subseteq routes
      /\ \/ wg' = [j \in DOMAIN wg \ {k} |-> wg[j]]
         \/ wg' = wg
  BY DEF Remove, Goto, Fault, NoFault, inputs, DataPlaneInv, TypeOK
<1>2. PICK ok \in {view.ok, FALSE} :
        view' = [trusted |-> view.trusted, want |-> view.want, set |-> view.set,
                 drop |-> view.drop \ {k}, live |-> view.live, ok |-> ok]
  <2>1. \/ view' = [view EXCEPT !.drop = view.drop \ {k}]
        \/ view' = [view EXCEPT !.drop = view.drop \ {k}, !.ok = FALSE]
    BY DEF Remove
  <2>2. ViewOK
    BY DEF DataPlaneInv
  <2> QED
    BY <2>1, <2>2, Struck
<1>3. /\ DOMAIN wg' \subseteq DOMAIN wg
      /\ \A j \in DOMAIN wg' : wg'[j] = wg[j]
  BY <1>1
<1>4. TypeOK'
  BY <1>1, <1>3 DEF DataPlaneInv, TypeOK
<1>5. ViewOK' /\ CacheOK'
  BY <1>1, <1>2 DEF DataPlaneInv, ViewOK, CacheOK
<1>6. ASSUME view'.ok PROVE Progress'
  <2>1. view.ok /\ Reading
    BY <1>1, <1>2, <1>6 DEF Reading
  <2>2. Progress
    BY <2>1 DEF DataPlaneInv
  <2>3. wg' = [j \in DOMAIN wg \ {k} |-> wg[j]]
    BY <1>2, <1>6, <2>1 DEF Remove
  <2>4. view'.want = Desired(view.trusted)'
    <3>1. view'.want = view.want /\ view'.trusted = view.trusted
      BY <1>2
    <3> QED
      BY <1>1, <2>2, <3>1 DEF Desired, Progress
  <2>5. \A r \in view.want \ view.set : r.key \in DOMAIN wg' /\ wg'[r.key].addr = {r.addr}
    <3>1. \A r \in view.want : r.key # k
      BY <1>1 DEF DataPlaneInv, ViewOK
    <3> QED
      BY <2>2, <2>3, <3>1 DEF Progress
  <2>6. DOMAIN wg' \subseteq Keys(view.want) \cup (view.drop \ {k})
    BY <2>2, <2>3 DEF Progress
  <2>7. view.set = {}
    BY <1>1, <2>2 DEF Progress
  <2> QED
    BY <1>1, <1>2, <2>4, <2>5, <2>6, <2>7 DEF Progress
<1> QED
  BY <1>3, <1>4, <1>5, <1>6 DEF DataPlaneInv

\* The lists are done; nothing else happens.
LEMMA DoneKeeps ==
  ASSUME DataPlaneInv, Installed \/ Removed
  PROVE  DataPlaneInv'
<1>1. /\ \/ pc = "set" /\ view.set = {} /\ pc' = "drop"
         \/ pc = "drop" /\ view.drop = {} /\ pc' = "filter"
      /\ UNCHANGED <<dir, revoked, table, caps, fcaps, iface, wg, routes, nft, applied, names,
                     view, changes, faults>>
  BY DEF Installed, Removed, Goto, NoFault, inputs, kernel
<1>2. TypeOK' /\ ViewOK' /\ CacheOK'
  BY <1>1 DEF DataPlaneInv, TypeOK, ViewOK, CacheOK
<1>3. ASSUME view'.ok PROVE Progress'
  <2>1. Progress
    BY <1>1, <1>3 DEF DataPlaneInv, Reading
  <2>2. Desired(view.trusted)' = Desired(view.trusted)
    BY <1>1 DEF Desired
  <2> QED
    BY <1>1, <2>1, <2>2 DEF Progress
<1> QED
  BY <1>1, <1>2, <1>3 DEF DataPlaneInv

\* Rules that are the ones loaded last, of a table that is there, are loaded.
LEMMA ApplyFilterKeeps ==
  ASSUME DataPlaneInv, ApplyFilter
  PROVE  DataPlaneInv'
<1>1. /\ pc = "filter" /\ pc' = "hosts" /\ faults' \in 0..MaxFaults
      /\ UNCHANGED <<dir, revoked, table, caps, fcaps, iface, wg, routes, names, changes>>
  BY DEF ApplyFilter, Goto, Fault, NoFault, inputs, kernel, DataPlaneInv, TypeOK
<1>2. TypeOK'
  BY <1>1 DEF DataPlaneInv, TypeOK
<1>3. view.trusted \subseteq Records /\ ViewOK
  BY DEF DataPlaneInv, ViewOK
<1>4. Rules # None
  <2>1. Ruleset(view.trusted, fcaps, Self, table, Ports) # None
    BY <1>3, NotNone
  <2> QED
    BY <2>1 DEF Rules
<1>5. \/ /\ nft' = Rules /\ view' = view /\ applied' = Rules
      \/ /\ view' = [trusted |-> view.trusted, want |-> view.want, set |-> view.set,
                     drop |-> view.drop, live |-> view.live, ok |-> FALSE]
         /\ UNCHANGED <<nft, applied>>
  <2>1. CASE Rules = applied /\ nft # None /\ UNCHANGED <<nft, applied, view>>
    BY <1>4, <2>1 DEF DataPlaneInv, CacheOK
  <2>2. CASE nft' = Rules /\ applied' = Rules /\ UNCHANGED view
    BY <2>2
  <2>3. CASE view' = [view EXCEPT !.ok = FALSE] /\ UNCHANGED <<nft, applied>>
    BY <1>3, <2>3, Struck
  <2> QED
    BY <2>1, <2>2, <2>3 DEF ApplyFilter
<1>6. ViewOK' /\ CacheOK'
  <2>1. CASE nft' = Rules /\ view' = view /\ applied' = Rules
    BY <1>3, <2>1 DEF ViewOK, CacheOK
  <2>2. CASE /\ view' = [trusted |-> view.trusted, want |-> view.want, set |-> view.set,
                         drop |-> view.drop, live |-> view.live, ok |-> FALSE]
             /\ UNCHANGED <<nft, applied>>
    BY <1>3, <2>2 DEF DataPlaneInv, ViewOK, CacheOK
  <2> QED
    BY <1>5, <2>1, <2>2
<1>7. ASSUME view'.ok PROVE Progress'
  <2>1. nft' = Rules /\ view' = view
    BY <1>5, <1>7
  <2>2. Progress
    BY <1>1, <1>7, <2>1 DEF DataPlaneInv, Reading
  <2>3. Desired(view.trusted)' = Desired(view.trusted) /\ Rules' = Rules
    BY <1>1, <2>1 DEF Desired, Rules
  <2> QED
    BY <1>1, <2>1, <2>2, <2>3 DEF Progress
<1> QED
  BY <1>1, <1>2, <1>6, <1>7 DEF DataPlaneInv

LEMMA SyncHostsKeeps ==
  ASSUME DataPlaneInv, SyncHosts
  PROVE  DataPlaneInv'
<1>1. /\ pc' = "idle" /\ view' = Blank /\ faults' \in 0..MaxFaults
      /\ UNCHANGED <<dir, revoked, table, caps, fcaps, iface, wg, routes, nft, applied, changes>>
      /\ names' \in {names, Addr(view.trusted)}
  BY DEF SyncHosts, Goto, Fault, NoFault, inputs, kernel, DataPlaneInv, TypeOK
<1>2. Addr(view.trusted) \subseteq Member
  BY DEF DataPlaneInv, ViewOK, Addr
<1>3. TypeOK'
  BY <1>1, <1>2 DEF DataPlaneInv, TypeOK
<1>4. ViewOK' /\ CacheOK' /\ ~Reading'
  BY <1>1 DEF DataPlaneInv, ViewOK, CacheOK, Blank, Reading
<1> QED
  BY <1>1, <1>3, <1>4 DEF DataPlaneInv

-----------------------------------------------------------------------------
(* The other threads, and what is outside the daemon *)

\* A record or a revocation changes the directory, not what the tick has read.
LEMMA DirectoryKeeps ==
  ASSUME DataPlaneInv, (\E r \in Records : Publish(r)) \/ (\E m \in Member : Revoke(m))
  PROVE  DataPlaneInv'
<1>1. /\ changes' \in 0..MaxChanges
      /\ UNCHANGED <<table, caps, fcaps, iface, wg, routes, nft, applied, names, pc, view, faults>>
  BY DEF Publish, Revoke, Change, kernel, DataPlaneInv, TypeOK
<1>2. dir' \subseteq Records /\ \A r, s \in dir' : r.addr = s.addr => r = s
  <2>1. dir \subseteq Records /\ \A r, s \in dir : r.addr = s.addr => r = s
    BY DEF DataPlaneInv, TypeOK
  <2>2. CASE \E m \in Member : Revoke(m)
    BY <2>1, <2>2 DEF Revoke
  <2>3. CASE \E r \in Records : Publish(r)
    BY <2>1, <2>3 DEF Publish
  <2> QED
    BY <2>2, <2>3
<1>3. revoked' \subseteq Member
  BY DEF Publish, Revoke, DataPlaneInv, TypeOK
<1>4. TypeOK'
  BY <1>1, <1>2, <1>3 DEF DataPlaneInv, TypeOK
<1>5. ViewOK' /\ CacheOK' /\ Reading' = Reading
  BY <1>1 DEF DataPlaneInv, ViewOK, CacheOK, Reading
<1>6. Progress => Progress'
  <2>1. Desired(view.trusted)' = Desired(view.trusted) /\ Rules' = Rules
    BY <1>1 DEF Desired, Rules
  <2> QED
    BY <1>1, <2>1 DEF Progress
<1> QED
  BY <1>1, <1>4, <1>5, <1>6 DEF DataPlaneInv

\* After Disturb no reading counts as one: an undisturbed tick is elsewhere.
LEMMA Disturbed ==
  ASSUME DataPlaneInv, Disturb, pc' = pc
  PROVE  ViewOK' /\ ~(Reading' /\ view'.ok)
<1> DEFINE b == pc = "idle"
<1>1. b \in BOOLEAN
  OBVIOUS
<1>2. view' = [view EXCEPT !.ok = b]
  BY DEF Disturb
<1>3. Reading => ~b
  BY DEF Reading
<1> HIDE DEF b
<1>4. ViewOK
  BY DEF DataPlaneInv
<1>5. view' = [trusted |-> view.trusted, want |-> view.want, set |-> view.set,
               drop |-> view.drop, live |-> view.live, ok |-> b]
  BY <1>2, <1>4, Struck
<1>6. ViewOK'
  BY <1>1, <1>4, <1>5 DEF ViewOK
<1>7. view'.ok = b
  BY <1>5
<1>8. Reading' = Reading
  BY DEF Reading
<1> QED
  BY <1>3, <1>6, <1>7, <1>8

LEMMA DisturbsKeep ==
  ASSUME DataPlaneInv,
         (\E t \in Tables : TakeTable(t)) \/ AdoptCaps \/ DeleteInterface \/ FlushRuleset
  PROVE  DataPlaneInv'
<1>1. /\ Disturb /\ pc' = pc /\ names' = names /\ dir' = dir /\ revoked' = revoked
      /\ table' \in Tables /\ changes' \in 0..MaxChanges /\ faults' \in 0..MaxFaults
      /\ iface' \in {iface, "none"} /\ routes' \subseteq routes
      /\ wg' = wg \/ wg' = <<>>
      /\ applied' = applied /\ nft' \in {nft, None}
  <2>1. CASE \E t \in Tables : TakeTable(t)
    BY <2>1 DEF TakeTable, Change, kernel, DataPlaneInv, TypeOK
  <2>2. CASE AdoptCaps
    BY <2>2 DEF AdoptCaps, kernel, DataPlaneInv, TypeOK
  <2>3. CASE DeleteInterface
    BY <2>3 DEF DeleteInterface, Fault, inputs, DataPlaneInv, TypeOK
  <2>4. CASE FlushRuleset
    BY <2>4 DEF FlushRuleset, Fault, inputs, kernel, DataPlaneInv, TypeOK
  <2> QED
    BY <2>1, <2>2, <2>3, <2>4
<1>2. DOMAIN wg' \subseteq DOMAIN wg /\ \A k \in DOMAIN wg' : wg'[k] = wg[k]
  BY <1>1
<1>3. TypeOK' /\ CacheOK'
  BY <1>1, <1>2 DEF DataPlaneInv, TypeOK, CacheOK
<1> QED
  BY <1>1, <1>2, <1>3, Disturbed DEF DataPlaneInv

LEMMA RestartKeeps ==
  ASSUME DataPlaneInv, Restart
  PROVE  DataPlaneInv'
<1>1. /\ pc' = "idle" /\ view' = Blank /\ applied' = None /\ iface' = "up"
      /\ faults' \in 0..MaxFaults
      /\ UNCHANGED <<dir, revoked, table, wg, routes, nft, names, changes>>
  BY DEF Restart, Fault, DataPlaneInv, TypeOK
<1>2. TypeOK'
  BY <1>1 DEF DataPlaneInv, TypeOK
<1>3. ViewOK' /\ CacheOK' /\ ~Reading'
  BY <1>1 DEF ViewOK, CacheOK, Blank, Reading
<1> QED
  BY <1>1, <1>2, <1>3 DEF DataPlaneInv

LEMMA InitHolds == Init => DataPlaneInv
<1> SUFFICES ASSUME Init PROVE DataPlaneInv
  OBVIOUS
<1>1. DOMAIN wg = {}
  BY DEF Init
<1>2. TypeOK
  BY <1>1 DEF Init, TypeOK
<1>3. ViewOK /\ CacheOK /\ ~Reading
  BY DEF Init, ViewOK, CacheOK, Blank, Reading
<1> QED
  BY <1>1, <1>2, <1>3 DEF DataPlaneInv

LEMMA StutterKeeps ==
  ASSUME DataPlaneInv, UNCHANGED vars
  PROVE  DataPlaneInv'
<1>1. UNCHANGED <<dir, revoked, table, caps, fcaps, iface, wg, routes, nft, applied, names, pc,
                  view, changes, faults>>
  BY DEF vars, inputs, kernel
<1>2. TypeOK' /\ ViewOK' /\ CacheOK' /\ Reading' = Reading
  BY <1>1 DEF DataPlaneInv, TypeOK, ViewOK, CacheOK, Reading
<1>3. Progress => Progress'
  BY <1>1 DEF Progress, Desired, Rules
<1> QED
  BY <1>1, <1>2, <1>3 DEF DataPlaneInv

LEMMA StepKeeps == DataPlaneInv /\ [Next]_vars => DataPlaneInv'
<1> SUFFICES ASSUME DataPlaneInv, [Next]_vars PROVE DataPlaneInv'
  OBVIOUS
<1>1. CASE Tick
  BY <1>1, CheckInterfaceKeeps, ReadKeeps, InstallKeeps, RemoveKeeps, DoneKeeps,
     ApplyFilterKeeps, SyncHostsKeeps DEF Tick
<1>2. CASE AdoptCaps \/ Environment
  BY <1>2, DirectoryKeeps, DisturbsKeep, RestartKeeps DEF Environment
<1>3. CASE UNCHANGED vars
  BY <1>3, StutterKeeps
<1> QED
  BY <1>1, <1>2, <1>3 DEF Next

LEMMA DataPlaneInvHolds == Spec => []DataPlaneInv
<1> QED
  BY InitHolds, StepKeeps, PTL DEF Spec

\* One record for an address, members where members belong, every bound kept.
THEOREM DataPlaneTypeCorrect == Spec => []TypeOK
<1>1. DataPlaneInv => TypeOK
  BY DEF DataPlaneInv
<1> QED
  BY <1>1, DataPlaneInvHolds, PTL

-----------------------------------------------------------------------------
(* What the end of a tick leaves, and what its steps spare *)

\* At the end of an undisturbed tick every peer is a verified member.
LEMMA EndOfTick ==
  ASSUME DataPlaneInv, pc = "hosts", view.ok, caps = fcaps
  PROVE  /\ Peers \subseteq Addr(view.trusted)
         /\ Admitted \subseteq Peers \cup {Self}
<1>1. /\ view.want = Desired(view.trusted) /\ view.set = {} /\ view.drop = {} /\ nft = Rules
      /\ \A r \in view.want : r.key \in DOMAIN wg /\ wg[r.key].addr = {r.addr}
      /\ DOMAIN wg \subseteq Keys(view.want)
  BY DEF DataPlaneInv, Reading, Progress
<1>2. view.trusted \subseteq Records /\ view.want \subseteq view.trusted
  BY DEF DataPlaneInv, ViewOK
<1>3. ASSUME NEW m \in Peers PROVE m \in Addr(view.trusted)
  <2>1. PICK k \in DOMAIN wg : m \in wg[k].addr
    BY <1>3 DEF Peers
  <2>2. PICK r \in view.want : r.key = k
    BY <1>1 DEF Keys
  <2> QED
    BY <1>1, <1>2, <2>1, <2>2 DEF Addr
<1>4. ASSUME NEW m \in Admitted PROVE m \in Peers \cup {Self}
  <2>1. PICK p \in DOMAIN nft.allow : m \in nft.allow[p]
    BY <1>4 DEF Admitted
  <2>2. nft = Ruleset(view.trusted, fcaps, Self, table, Ports)
    BY <1>1 DEF Rules
  <2>3. PICK r \in view.trusted :
          r.addr = m /\ PeersAllowed(NodeTags(fcaps, Self), NodeTags(r.caps, r.name), table)
    BY <1>2, <2>1, <2>2, RulesetIs
  <2>4. CASE m # Self
    <3>1. r \in view.want
      BY <1>1, <2>3, <2>4 DEF Desired
    <3> QED
      BY <1>1, <2>3, <3>1 DEF Peers
  <2> QED
    BY <2>4
<1> QED
  BY <1>3, <1>4

\* One step of OneView, and of LinksKept.
OneViewStep ==
    Ends /\ view.ok /\ caps = fcaps /\ faults' = faults
      => Peers \subseteq names' /\ Admitted \subseteq Peers \cup {Self}

\* What OneView says of one step; a failed hosts sync or a restart is a fault.
LEMMA EndsInOneView == DataPlaneInv /\ [Next]_vars => [OneViewStep]_vars
<1> SUFFICES ASSUME DataPlaneInv, [Next]_vars, Ends, view.ok, caps = fcaps, faults' = faults
             PROVE  Peers \subseteq names' /\ Admitted \subseteq Peers \cup {Self}
  BY DEF OneViewStep
<1>1. pc = "hosts" /\ pc' = "idle"
  BY DEF Ends
<1>2. faults \in Nat
  BY DEF DataPlaneInv, TypeOK
<1>3. SyncHosts
  <2>1. CASE Tick
    BY <1>1, <2>1 DEF Tick, CheckInterface, Read, Installed, Removed, ApplyFilter, Install, Remove
  <2>2. CASE AdoptCaps
    BY <1>1, <2>2 DEF AdoptCaps
  <2>3. CASE Environment
    BY <1>1, <1>2, <2>3 DEF Environment, Publish, Revoke, TakeTable, Change, DeleteInterface,
                            FlushRuleset, Restart, Fault
  <2>4. CASE UNCHANGED vars
    BY <1>1, <2>4 DEF vars
  <2> QED
    BY <2>1, <2>2, <2>3, <2>4 DEF Next
<1>4. names' = Addr(view.trusted)
  BY <1>2, <1>3 DEF SyncHosts, Fault, NoFault
<1> QED
  BY <1>1, <1>4, EndOfTick

\* A tick that nothing disturbed ends with every peer named, and lets nobody in by
\* the filter who is not a peer: both come from one verified set, and what a grant
\* allows it also connects (reconcile.py tick, portfilter.py apply).
THEOREM TicksEndInOneView == Spec => OneView
<1>1. DataPlaneInv /\ [Next]_vars => [OneViewStep]_vars
  BY EndsInOneView
<1>2. Spec => [][OneViewStep]_vars
  BY <1>1, DataPlaneInvHolds, PTL DEF Spec
<1> QED
  BY <1>2 DEF OneView, OneViewStep

LinksKeptStep == \A r \in view.want : Linked(r) => Linked(r)' \/ iface' = "none"

\* What LinksKept says of one step.
LEMMA StepsKeepLinks == DataPlaneInv /\ [Next]_vars => [LinksKeptStep]_vars
<1> SUFFICES ASSUME DataPlaneInv, [Next]_vars, NEW r \in view.want, Linked(r)
             PROVE  Linked(r)' \/ iface' = "none"
  BY DEF LinksKeptStep
<1>1. r.key \in DOMAIN wg /\ r.addr \in wg[r.key].addr /\ r.addr \in routes
  BY DEF Linked
<1>2. CASE UNCHANGED <<wg, routes>>
  BY <1>1, <1>2 DEF Linked
<1>3. ASSUME NEW s \in Records, Install(s) PROVE Linked(r)'
  <2>1. s \in view.want /\ routes \subseteq routes' /\ (SetPeer(s) \/ wg' = wg)
    BY <1>3 DEF Install, DataPlaneInv, ViewOK
  <2>2. CASE wg' = wg
    BY <1>1, <2>1, <2>2 DEF Linked
  <2>3. CASE SetPeer(s)
    <3>1. /\ DOMAIN wg' = DOMAIN wg \cup {s.key} /\ wg'[s.key].addr = {s.addr}
          /\ \A k \in DOMAIN wg \ {s.key} : wg'[k].addr = wg[k].addr \ {s.addr}
      BY <2>3, SetPeerDoes
    <3>2. r = s \/ (r.key # s.key /\ r.addr # s.addr)
      BY <2>1, OneOwner
    <3> QED
      BY <1>1, <2>1, <3>1, <3>2 DEF Linked
  <2> QED
    BY <2>1, <2>2, <2>3
<1>4. ASSUME NEW k \in Keys(Records), Remove(k) PROVE Linked(r)'
  <2>1. r.key # k /\ r.addr \in Addr(view.want)
    BY <1>4 DEF Remove, DataPlaneInv, ViewOK, Addr
  <2>2. \/ UNCHANGED <<wg, routes>>
        \/ wg' = [j \in DOMAIN wg \ {k} |-> wg[j]] /\ routes' = routes \ StaleRoutes(k)
    BY <1>4 DEF Remove
  <2> QED
    BY <1>1, <2>1, <2>2 DEF Linked, StaleRoutes
<1>5. CASE DeleteInterface
  BY <1>5 DEF DeleteInterface
<1>6. CASE CheckInterface \/ Read \/ Installed \/ Removed \/ ApplyFilter \/ SyncHosts
  BY <1>2, <1>6 DEF CheckInterface, Read, Installed, Removed, ApplyFilter, SyncHosts, kernel
<1>7. CASE AdoptCaps \/ FlushRuleset \/ Restart \/ UNCHANGED vars
  BY <1>2, <1>7 DEF AdoptCaps, FlushRuleset, Restart, kernel, vars
<1>8. CASE \/ \E s \in Records : Publish(s)
           \/ \E m \in Member : Revoke(m)
           \/ \E t \in Tables : TakeTable(t)
  BY <1>2, <1>8 DEF Publish, Revoke, TakeTable, Change, kernel
<1> QED
  BY <1>3, <1>4, <1>5, <1>6, <1>7, <1>8 DEF Next, Tick, Environment

\* No command of a tick breaks the working link of a peer that should exist: not
\* the removal of a rotated key, and not the `wg set` of another peer (reconcile.py).
THEOREM WorkingLinksKept == Spec => LinksKept
<1>1. DataPlaneInv /\ [Next]_vars => [LinksKeptStep]_vars
  BY StepsKeepLinks
<1>2. Spec => [][LinksKeptStep]_vars
  BY <1>1, DataPlaneInvHolds, PTL DEF Spec
<1> QED
  BY <1>2 DEF LinksKept, LinksKeptStep
=============================================================================
