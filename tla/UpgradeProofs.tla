--------------------------- MODULE UpgradeProofs ----------------------------
(***************************************************************************)
(* Theorems about Upgrade: any number of memberships, versions,            *)
(* announcements, moves of a tag, upgrades by hand and failures.           *)
(***************************************************************************)
EXTENDS Upgrade, TLAPS

USE OptedAssumption, UpgradeBounds

\* An attempt before it has a tarball, and after: what it has is what was announced.
Early == [pc : {"check", "fetch"}, hint : Hint]
Late == {t \in [pc : {"uninstall", "install", "restart"}, hint : Hint, art : Tarballs] :
           t.art = t.hint.sha}

TryOK(d) ==
  \/ try[d] = NoTry
  \/ d \in Opted /\ try[d] \in Early \cup Late

Hands == [pc : {"uninstall", "install", "restart"}, for : Daemons, v : Versions]

UpgradeInv ==
  /\ UpgradeTypeOK
  /\ DOMAIN try = Daemons /\ \A d \in Daemons : TryOK(d)
  /\ hand \in Hands \cup {NoHand}

LEMMA NextSteps ==
  /\ Succ["check"] = "fetch" /\ Succ["fetch"] = "uninstall"
  /\ Succ["uninstall"] = "install" /\ Succ["install"] = "restart"
BY DEF Succ

LEMMA Flags ==
  ASSUME NEW S, NEW f \in [S -> BOOLEAN], NEW e \in S, NEW b \in BOOLEAN
  PROVE  [f EXCEPT ![e] = b] \in [S -> BOOLEAN]
OBVIOUS

LEMMA InitUpgrade == Init => UpgradeInv
<1> SUFFICES ASSUME Init PROVE UpgradeInv
  OBVIOUS
<1>1. ByHand(1) \in Release
  BY DEF ByHand, Release, Versions, Tarballs
<1>2. 1 \in Versions /\ 0 \in Tarballs /\ 0 \in 0..MaxAnnounced
  BY DEF Versions, Tarballs
<1>4. UpgradeTypeOK
  <2>1. tag \in [Versions -> Tarballs] /\ announced \in 0..MaxAnnounced
    BY <1>2 DEF Init
  <2>2. hint \in [Daemons -> Hint \cup {NoHint}] /\ disk \in Release \cup {Absent}
    BY <1>1 DEF Init
  <2>3. runs \in [Daemons -> Versions \cup {Down}]
    BY <1>2 DEF Init
  <2>4. failed \in [Daemons -> 0..MaxAnnounced]
    BY <1>2 DEF Init
  <2>5. cooling \in [Daemons -> BOOLEAN]
    <3>1. cooling = [d \in Daemons |-> FALSE]
      BY DEF Init
    <3> QED
      BY <3>1, Zenon
  <2> QED
    BY <2>1, <2>2, <2>3, <2>4, <2>5 DEF UpgradeTypeOK
<1>3. DOMAIN try = Daemons /\ \A d \in Daemons : TryOK(d)
  <2>1. try = [d \in Daemons |-> NoTry]
    BY DEF Init
  <2>2. DOMAIN try = Daemons /\ \A d \in Daemons : try[d] = NoTry
    BY <2>1
  <2> QED
    BY <2>2 DEF TryOK
<1> QED
  BY <1>3, <1>4 DEF Init, UpgradeInv

\* An attempt moves, or ends; the others are left alone.
LEMMA Attempting ==
  ASSUME UpgradeInv, NEW d \in Daemons, NEW t \in {NoTry} \cup Early \cup Late,
         t # NoTry => d \in Opted,
         try' = [try EXCEPT ![d] = t]
  PROVE  DOMAIN try' = Daemons /\ \A e \in Daemons : TryOK(e)'
<1>1. DOMAIN try' = Daemons /\ try'[d] = t /\ \A e \in Daemons \ {d} : try'[e] = try[e]
  BY DEF UpgradeInv
<1>2. TryOK(d)'
  <2>1. try'[d] = t
    BY <1>1
  <2> QED
    BY <2>1 DEF TryOK
<1>3. ASSUME NEW e \in Daemons \ {d} PROVE TryOK(e)'
  BY <1>1 DEF UpgradeInv, TryOK
<1> QED
  BY <1>1, <1>2, <1>3

\* Which attempt is at which step.
LEMMA Places ==
  ASSUME UpgradeInv, NEW d \in Daemons
  PROVE  /\ At(d, "check") \/ At(d, "fetch") => d \in Opted /\ try[d] \in Early
         /\ At(d, "uninstall") \/ At(d, "install") \/ At(d, "restart") =>
               d \in Opted /\ try[d] \in Late
BY DEF UpgradeInv, TryOK, At, Early, Late, NoTry

LEMMA Failing ==
  ASSUME UpgradeInv, NEW d \in Daemons, Fail(d), try[d].hint \in Hint
  PROVE  /\ DOMAIN try' = Daemons /\ \A e \in Daemons : TryOK(e)'
         /\ failed' \in [Daemons -> 0..MaxAnnounced] /\ cooling' \in [Daemons -> BOOLEAN]
<1>0. try' = [try EXCEPT ![d] = NoTry]
  BY DEF Fail
<1>1. DOMAIN try' = Daemons /\ \A e \in Daemons : TryOK(e)'
  <2>1. NoTry \in {NoTry} \cup Early \cup Late
    OBVIOUS
  <2> QED
    BY <1>0, <2>1, Attempting
<1>2. try[d].hint.ts \in 0..MaxAnnounced
  BY DEF Hint
<1>3. failed' \in [Daemons -> 0..MaxAnnounced]
  BY <1>2 DEF Fail, UpgradeInv, UpgradeTypeOK
<1>4. cooling' \in [Daemons -> BOOLEAN]
  <2>1. cooling' = [cooling EXCEPT ![d] = TRUE]
    BY DEF Fail
  <2>2. cooling \in [Daemons -> BOOLEAN]
    BY DEF UpgradeInv, UpgradeTypeOK
  <2>3. [cooling EXCEPT ![d] = TRUE] \in [Daemons -> BOOLEAN]
    BY <2>2, Flags, Zenon
  <2> QED
    BY <2>1, <2>3, Zenon
<1> QED
  BY <1>1, <1>3, <1>4

LEMMA Stopping ==
  ASSUME UpgradeInv, NEW d \in Daemons, Stopped(d)
  PROVE  /\ DOMAIN try' = Daemons /\ \A e \in Daemons : TryOK(e)'
         /\ failed' \in [Daemons -> 0..MaxAnnounced] /\ cooling' \in [Daemons -> BOOLEAN]
         /\ runs' \in [Daemons -> Versions \cup {Down}]
<1>0. try' = [try EXCEPT ![d] = NoTry]
  BY DEF Stopped
<1>1. DOMAIN try' = Daemons /\ \A e \in Daemons : TryOK(e)'
  <2>1. NoTry \in {NoTry} \cup Early \cup Late
    OBVIOUS
  <2> QED
    BY <1>0, <2>1, Attempting
<1>2. failed' \in [Daemons -> 0..MaxAnnounced] /\ runs' \in [Daemons -> Versions \cup {Down}]
  BY DEF Stopped, UpgradeInv, UpgradeTypeOK
<1>3. cooling' \in [Daemons -> BOOLEAN]
  <2>1. cooling' = [cooling EXCEPT ![d] = FALSE]
    BY DEF Stopped
  <2>2. cooling \in [Daemons -> BOOLEAN]
    BY DEF UpgradeInv, UpgradeTypeOK
  <2>3. [cooling EXCEPT ![d] = FALSE] \in [Daemons -> BOOLEAN]
    BY <2>2, Flags, Zenon
  <2> QED
    BY <2>1, <2>3, Zenon
<1> QED
  BY <1>1, <1>2, <1>3

\* An attempt that goes on keeps its hint and its tarball.
LEMMA Going ==
  ASSUME UpgradeInv, NEW d \in Daemons, Proceed(d),
         At(d, "check") \/ At(d, "uninstall") \/ At(d, "install")
  PROVE  /\ DOMAIN try' = Daemons /\ \A e \in Daemons : TryOK(e)'
         /\ UNCHANGED <<failed, cooling>>
<1> DEFINE t == [try[d] EXCEPT !.pc = Succ[@]]
<1>1. try' = [try EXCEPT ![d] = t] /\ UNCHANGED <<failed, cooling>>
  BY DEF Proceed
<1>2. CASE At(d, "check")
  <2>1. try[d] \in Early /\ d \in Opted /\ try[d].pc = "check"
    BY <1>2, Places DEF At
  <2>2. t \in Early
    BY <2>1, NextSteps DEF Early
  <2> QED
    BY <1>1, <2>1, <2>2, Attempting
<1>3. CASE At(d, "uninstall") \/ At(d, "install")
  <2>1. try[d] \in Late /\ d \in Opted /\ try[d].pc \in {"uninstall", "install"}
    BY <1>3, Places DEF At
  <2>2. t \in Late
    BY <2>1, NextSteps DEF Late
  <2> QED
    BY <1>1, <2>1, <2>2, Attempting
<1> QED
  BY <1>2, <1>3

-----------------------------------------------------------------------------
(* One lemma for each actor.                                               *)

Rest == <<tag, announced, hint, hand>>

LEMMA Resting ==
  ASSUME UpgradeInv, UNCHANGED Rest,
         disk' \in Release \cup {Absent}, runs' \in [Daemons -> Versions \cup {Down}],
         failed' \in [Daemons -> 0..MaxAnnounced], cooling' \in [Daemons -> BOOLEAN],
         DOMAIN try' = Daemons, \A e \in Daemons : TryOK(e)'
  PROVE  UpgradeInv'
<1>1. UpgradeTypeOK'
  <2>1. /\ tag' \in [Versions -> Tarballs] /\ announced' \in 0..MaxAnnounced
        /\ hint' \in [Daemons -> Hint \cup {NoHint}]
    BY DEF UpgradeInv, UpgradeTypeOK, Rest
  <2> QED
    BY <2>1 DEF UpgradeTypeOK
<1> QED
  BY <1>1 DEF UpgradeInv, Rest

LEMMA Types ==
  ASSUME UpgradeInv
  PROVE  /\ tag \in [Versions -> Tarballs] /\ announced \in 0..MaxAnnounced
         /\ hint \in [Daemons -> Hint \cup {NoHint}] /\ disk \in Release \cup {Absent}
         /\ runs \in [Daemons -> Versions \cup {Down}]
         /\ failed \in [Daemons -> 0..MaxAnnounced] /\ cooling \in [Daemons -> BOOLEAN]
         /\ DOMAIN try = Daemons /\ \A e \in Daemons : TryOK(e)
         /\ hand \in Hands \cup {NoHand}
BY DEF UpgradeInv, UpgradeTypeOK

LEMMA Manager ==
  ASSUME UpgradeInv, NEW d \in Daemons,
         Offer(d) \/ Attempt(d) \/ AttemptFails(d) \/ Cooled(d)
  PROVE  UpgradeInv'
<1>1. CASE Offer(d)
  <2>1. /\ UNCHANGED <<Rest, disk, runs, failed, cooling>> /\ d \in Opted
        /\ try' = [try EXCEPT ![d] = [pc |-> "check", hint |-> hint[d]]]
        /\ hint[d] # NoHint
    BY <1>1 DEF Offer, Rest, mesh, install
  <2>2. [pc |-> "check", hint |-> hint[d]] \in {NoTry} \cup Early \cup Late
    BY <2>1, Types DEF Early
  <2>3. DOMAIN try' = Daemons /\ \A e \in Daemons : TryOK(e)'
    BY <2>1, <2>2, Attempting
  <2> QED
    BY <2>1, <2>3, Types, Resting
<1>2. CASE Check(d)
  <2>1. UNCHANGED <<Rest, disk, runs>> /\ At(d, "check")
    BY <1>2 DEF Check, Rest, mesh, install
  <2>2. CASE Proceed(d)
    <3>1. /\ DOMAIN try' = Daemons /\ \A e \in Daemons : TryOK(e)'
          /\ UNCHANGED <<failed, cooling>>
      BY <2>1, <2>2, Going
    <3> QED
      BY <2>1, <3>1, Types, Resting
  <2>3. CASE Done(d)
    <3>1. try' = [try EXCEPT ![d] = NoTry] /\ UNCHANGED <<failed, cooling>>
      BY <2>3 DEF Done
    <3>2. NoTry \in {NoTry} \cup Early \cup Late
      OBVIOUS
    <3>3. DOMAIN try' = Daemons /\ \A e \in Daemons : TryOK(e)'
      BY <3>1, <3>2, Attempting
    <3> QED
      BY <2>1, <3>1, <3>3, Types, Resting
  <2> QED
    BY <1>2, <2>2, <2>3 DEF Check
<1>3. CASE Fetch(d)
  <2>1. UNCHANGED <<Rest, disk, runs>> /\ try[d] \in Early /\ d \in Opted /\ At(d, "fetch")
    BY <1>3, Places DEF Fetch, Rest, mesh, install
  <2>2. CASE Verified(try[d].hint)
    <3> DEFINE t == [pc |-> Succ["fetch"], hint |-> try[d].hint, art |-> tag[try[d].hint.v]]
    <3>1. try' = [try EXCEPT ![d] = t] /\ UNCHANGED <<failed, cooling>>
      BY <1>3, <2>2 DEF Fetch
    <3>2. try[d].hint \in Hint
      BY <2>1 DEF Early
    <3>3. tag[try[d].hint.v] = try[d].hint.sha /\ try[d].hint.sha \in Tarballs
      BY <2>2, <3>2 DEF Verified, Hint
    <3>4. t \in Late
      BY <3>2, <3>3, NextSteps DEF Late
    <3> HIDE DEF t
    <3>5. t \in {NoTry} \cup Early \cup Late
      BY <3>4
    <3>6. DOMAIN try' = Daemons /\ \A e \in Daemons : TryOK(e)'
      BY <2>1, <3>1, <3>5, Attempting
    <3> QED
      BY <2>1, <3>1, <3>6, Types, Resting
  <2>3. CASE Fail(d)
    BY <2>1, <2>3, Failing, Types, Resting DEF Early
  <2> QED
    BY <1>3, <2>2, <2>3 DEF Fetch
<1>4. CASE AttemptFails(d)
  <2>1. UNCHANGED <<Rest, disk, runs>> /\ try[d] \in Early \cup Late /\ Fail(d)
    BY <1>4, Places DEF AttemptFails, At, Rest, mesh
  <2> QED
    BY <2>1, Failing, Types, Resting DEF Early, Late
<1>5. CASE Uninstall(d)
  <2>1. /\ UNCHANGED <<Rest, runs>> /\ disk' = Absent /\ try[d] \in Late /\ At(d, "uninstall")
    BY <1>5, Places DEF Uninstall, Rest, mesh
  <2>2. CASE Fail(d)
    BY <2>1, <2>2, Failing, Types, Resting DEF Late
  <2>3. CASE Proceed(d)
    <3>1. /\ DOMAIN try' = Daemons /\ \A e \in Daemons : TryOK(e)'
          /\ UNCHANGED <<failed, cooling>>
      BY <2>1, <2>3, Going
    <3> QED
      BY <2>1, <3>1, Types, Resting
  <2> QED
    BY <1>5, <2>2, <2>3 DEF Uninstall
<1>6. CASE Install(d)
  <2>1. UNCHANGED <<Rest, runs>> /\ try[d] \in Late /\ At(d, "install") /\ Proceed(d)
    BY <1>6, Places DEF Install, Rest, mesh
  <2>2. disk' \in Release \cup {Absent}
    <3>1. [v |-> try[d].hint.v, art |-> try[d].art, by |-> "manager"] \in Release
      BY <2>1 DEF Late, Hint, Release
    <3> QED
      BY <1>6, <3>1, Types DEF Install
  <2>3. /\ DOMAIN try' = Daemons /\ \A e \in Daemons : TryOK(e)'
        /\ UNCHANGED <<failed, cooling>>
    BY <2>1, Going
  <2> QED
    BY <2>1, <2>2, <2>3, Types, Resting
<1>7. CASE Restart(d)
  <2>1. UNCHANGED <<Rest, disk>>
    BY <1>7 DEF Restart, Rest, mesh
  <2>2. CASE Stopped(d)
    BY <2>1, <2>2, Stopping, Types, Resting
  <2>3. CASE Done(d) /\ UNCHANGED runs
    <3>1. try' = [try EXCEPT ![d] = NoTry] /\ UNCHANGED <<failed, cooling>>
      BY <2>3 DEF Done
    <3>2. NoTry \in {NoTry} \cup Early \cup Late
      OBVIOUS
    <3>3. DOMAIN try' = Daemons /\ \A e \in Daemons : TryOK(e)'
      BY <3>1, <3>2, Attempting
    <3> QED
      BY <2>1, <2>3, <3>1, <3>3, Types, Resting
  <2> QED
    BY <1>7, <2>2, <2>3 DEF Restart
<1>8. CASE Cooled(d)
  <2>1. UNCHANGED <<Rest, disk, runs, try, failed>> /\ cooling' = [cooling EXCEPT ![d] = FALSE]
    BY <1>8 DEF Cooled, Rest, mesh, install
  <2>2. [cooling EXCEPT ![d] = FALSE] \in [Daemons -> BOOLEAN]
    BY Types, Flags, Zenon
  <2>3. DOMAIN try' = Daemons /\ \A e \in Daemons : TryOK(e)'
    BY <2>1, Types DEF TryOK
  <2> QED
    BY <2>1, <2>2, <2>3, Types, Resting
<1> QED
  BY <1>1, <1>2, <1>3, <1>4, <1>5, <1>6, <1>7, <1>8 DEF Attempt

LEMMA Operator ==
  ASSUME UpgradeInv, Hand \/ HandFails
  PROVE  UpgradeInv'
<1>0. hand \in Hands
  BY DEF UpgradeInv, Hand, HandUninstall, HandInstall, HandRestart, HandFails, NoHand
<1>1. /\ UNCHANGED mesh /\ hand' \in Hands \cup {NoHand} /\ disk' \in Release \cup {Absent}
      /\ UNCHANGED <<runs, manager>> \/ Stopped(hand.for)
  <2>1. CASE HandUninstall
    BY <1>0, <2>1 DEF HandUninstall, Hands
  <2>2. CASE HandInstall
    <3>1. ByHand(hand.v) \in Release
      BY <1>0 DEF ByHand, Release, Hands, Tarballs
    <3> QED
      BY <1>0, <2>2, <3>1, Types DEF HandInstall, Hands
  <2>3. CASE HandRestart
    BY <1>0, <2>3, Types DEF HandRestart, Hands
  <2>4. CASE HandFails
    BY <2>4, Types DEF HandFails
  <2> QED
    BY <2>1, <2>2, <2>3, <2>4 DEF Hand
<1>2. /\ DOMAIN try' = Daemons /\ \A e \in Daemons : TryOK(e)'
      /\ failed' \in [Daemons -> 0..MaxAnnounced] /\ cooling' \in [Daemons -> BOOLEAN]
      /\ runs' \in [Daemons -> Versions \cup {Down}]
  <2>1. CASE UNCHANGED <<runs, manager>>
    BY <2>1, Types DEF manager, TryOK
  <2>2. CASE Stopped(hand.for)
    BY <1>0, <2>2, Stopping DEF Hands
  <2> QED
    BY <1>1, <2>1, <2>2
<1>3. UpgradeTypeOK'
  BY <1>1, <1>2, Types DEF UpgradeTypeOK, mesh
<1> QED
  BY <1>1, <1>2, <1>3 DEF UpgradeInv

LEMMA Elsewhere ==
  ASSUME UpgradeInv,
         \/ \E d \in Daemons : \/ Boot(d) \/ Kill(d)
                               \/ \E v \in Versions : Announce(d, v) \/ HandBegin(d, v)
         \/ \E v \in Versions : Retag(v) \/ Recover(v)
  PROVE  UpgradeInv'
<1>1. ASSUME NEW d \in Daemons, Boot(d) PROVE UpgradeInv'
  <2>1. UNCHANGED <<Rest, disk, try, failed, cooling>> /\ disk \in Release
    BY <1>1, Types DEF Boot, Rest, mesh, install, manager
  <2>2. runs' \in [Daemons -> Versions \cup {Down}]
    BY <1>1, <2>1, Types DEF Boot, Release
  <2>3. DOMAIN try' = Daemons /\ \A e \in Daemons : TryOK(e)'
    BY <2>1, Types DEF TryOK
  <2> QED
    BY <2>1, <2>2, <2>3, Types, Resting
<1>2. ASSUME NEW d \in Daemons, Kill(d) PROVE UpgradeInv'
  <2>1. UNCHANGED <<Rest, disk>> /\ Stopped(d)
    BY <1>2 DEF Kill, Rest, mesh
  <2> QED
    BY <2>1, Stopping, Types, Resting
<1>3. ASSUME NEW d \in Daemons, NEW v \in Versions, Announce(d, v) PROVE UpgradeInv'
  <2>1. /\ UNCHANGED <<tag, disk, runs, try, failed, cooling, hand>>
        /\ announced' \in 0..MaxAnnounced /\ announced + 1 \in 1..MaxAnnounced
    BY <1>3, Types DEF Announce, install, manager
  <2>2. [ts |-> announced + 1, v |-> v, sha |-> tag[v]] \in Hint
    BY <2>1, Types DEF Hint
  <2>3. hint' \in [Daemons -> Hint \cup {NoHint}]
    BY <1>3, <2>2, Types DEF Announce
  <2>4. DOMAIN try' = Daemons /\ \A e \in Daemons : TryOK(e)'
    BY <2>1, Types DEF TryOK
  <2>5. UpgradeTypeOK'
    BY <2>1, <2>3, Types DEF UpgradeTypeOK
  <2> QED
    BY <2>1, <2>4, <2>5, Types DEF UpgradeInv
<1>4. ASSUME NEW d \in Daemons, NEW v \in Versions, HandBegin(d, v) PROVE UpgradeInv'
  <2>1. /\ UNCHANGED <<mesh, disk, runs, manager>>
        /\ hand' = [pc |-> "uninstall", for |-> d, v |-> v]
    BY <1>4 DEF HandBegin, install
  <2>2. hand' \in Hands
    BY <2>1 DEF Hands
  <2>3. DOMAIN try' = Daemons /\ \A e \in Daemons : TryOK(e)'
    BY <2>1, Types DEF TryOK, manager
  <2>4. UpgradeTypeOK'
    BY <2>1, Types DEF UpgradeTypeOK, mesh, manager
  <2> QED
    BY <2>2, <2>3, <2>4 DEF UpgradeInv
<1>5. ASSUME NEW v \in Versions, Retag(v) PROVE UpgradeInv'
  <2>1. UNCHANGED <<announced, hint, disk, runs, try, failed, cooling, hand>>
    BY <1>5 DEF Retag, install, manager
  <2>2. tag' \in [Versions -> Tarballs]
    <3>1. tag[v] + 1 \in Tarballs
      BY <1>5, Types DEF Retag, Tarballs
    <3> QED
      BY <1>5, <3>1, Types DEF Retag
  <2>3. DOMAIN try' = Daemons /\ \A e \in Daemons : TryOK(e)'
    BY <2>1, Types DEF TryOK
  <2>4. UpgradeTypeOK'
    BY <2>1, <2>2, Types DEF UpgradeTypeOK
  <2> QED
    BY <2>1, <2>3, <2>4, Types DEF UpgradeInv
<1>6. ASSUME NEW v \in Versions, Recover(v) PROVE UpgradeInv'
  <2>1. UNCHANGED <<Rest, runs, try, failed, cooling>> /\ disk' = ByHand(v)
    BY <1>6 DEF Recover, Rest, mesh, manager
  <2>2. ByHand(v) \in Release
    BY DEF ByHand, Release, Tarballs
  <2>3. DOMAIN try' = Daemons /\ \A e \in Daemons : TryOK(e)'
    BY <2>1, Types DEF TryOK
  <2> QED
    BY <2>1, <2>2, <2>3, Types, Resting
<1> QED
  BY <1>1, <1>2, <1>3, <1>4, <1>5, <1>6

LEMMA StepKeeps ==
  ASSUME UpgradeInv, [Next]_vars
  PROVE  UpgradeInv'
<1>1. CASE Hand \/ HandFails
  BY <1>1, Operator
<1>2. ASSUME NEW d \in Daemons, Offer(d) \/ Attempt(d) \/ AttemptFails(d) \/ Cooled(d)
      PROVE  UpgradeInv'
  BY <1>2, Manager
<1>3. CASE \/ \E d \in Daemons : \/ Boot(d) \/ Kill(d)
                                 \/ \E v \in Versions : Announce(d, v) \/ HandBegin(d, v)
           \/ \E v \in Versions : Retag(v) \/ Recover(v)
  BY <1>3, Elsewhere
<1>4. CASE UNCHANGED vars
  <2>1. UNCHANGED <<Rest, disk, runs, try, failed, cooling>>
    BY <1>4 DEF vars, Rest, mesh, install, manager
  <2>2. DOMAIN try' = Daemons /\ \A e \in Daemons : TryOK(e)'
    BY <2>1, Types DEF TryOK
  <2> QED
    BY <2>1, <2>2, Types, Resting
<1> QED
  BY <1>1, <1>2, <1>3, <1>4 DEF Next

LEMMA UpgradeInvariant == Spec => []UpgradeInv
<1>1. Init => UpgradeInv
  BY InitUpgrade
<1>2. UpgradeInv /\ [Next]_vars => UpgradeInv'
  BY StepKeeps
<1> QED
  BY <1>1, <1>2, PTL DEF Spec

\* What the managers, the units and the operator keep is of the shape the code
\* gives it: announcements carry a version and a hash, the install is a release
\* or nothing.
THEOREM UpgradeTypeCorrect == Spec => []UpgradeTypeOK
<1>1. UpgradeInv => UpgradeTypeOK
  BY DEF UpgradeInv
<1> QED
  BY <1>1, UpgradeInvariant, PTL

-----------------------------------------------------------------------------
(* Only Install puts a manager's release on the disk.                      *)

Pinned ==
  disk' # disk /\ disk' # Absent /\ disk'.by = "manager" =>
    \E d \in Opted : try[d] # NoTry /\ try[d].hint.v = disk'.v /\ try[d].hint.sha = disk'.art

LEMMA InstallsPinned ==
  ASSUME UpgradeInv, [Next]_vars
  PROVE  Pinned
<1>1. ASSUME NEW d \in Daemons, Install(d) PROVE Pinned
  <2>1. d \in Opted /\ try[d] \in Late
    BY <1>1, Places DEF Install
  <2>2. try[d] # NoTry /\ try[d].art = try[d].hint.sha
    BY <2>1 DEF Late, NoTry
  <2>3. disk' # disk => disk' = [v |-> try[d].hint.v, art |-> try[d].art, by |-> "manager"]
    BY <1>1 DEF Install
  <2> QED
    BY <2>1, <2>2, <2>3 DEF Pinned
<1>2. CASE Hand \/ HandFails
  <2>1. disk' = disk \/ disk' = Absent \/ disk' = ByHand(hand.v)
    BY <1>2 DEF Hand, HandUninstall, HandInstall, HandRestart, HandFails
  <2>2. ByHand(hand.v).by # "manager"
    BY DEF ByHand
  <2> QED
    BY <2>1, <2>2 DEF Pinned
<1>3. ASSUME NEW d \in Daemons, Uninstall(d) PROVE Pinned
  BY <1>3 DEF Uninstall, Pinned
<1>4. ASSUME NEW d \in Daemons,
             \/ Offer(d) \/ Check(d) \/ Fetch(d) \/ Restart(d) \/ AttemptFails(d) \/ Cooled(d)
             \/ Boot(d) \/ Kill(d)
             \/ \E v \in Versions : Announce(d, v) \/ HandBegin(d, v)
      PROVE  disk' = disk
  BY <1>4 DEF Offer, Check, Fetch, Restart, AttemptFails, Cooled, Boot, Kill, Announce, HandBegin, install
<1>5. ASSUME NEW v \in Versions, Retag(v) \/ Recover(v) PROVE Pinned
  <2>1. disk' = disk \/ disk' = ByHand(v)
    BY <1>5 DEF Retag, Recover, install
  <2>2. ByHand(v).by # "manager"
    BY DEF ByHand
  <2> QED
    BY <2>1, <2>2 DEF Pinned
<1>6. CASE UNCHANGED vars
  BY <1>6 DEF vars, install, Pinned
<1>7. disk' = disk => Pinned
  BY DEF Pinned
<1> QED
  BY <1>1, <1>2, <1>3, <1>4, <1>5, <1>6, <1>7 DEF Next, Attempt

\* A manager installs nothing but the tarball that a holder hashed when it
\* announced the version, however often the tag moves, however many daemons
\* and operators upgrade the host at once (upgrader.py, fetch_verified).
THEOREM ManagersInstallPinned == Spec => OnlyPinned
<1>1. UpgradeInv /\ [Next]_vars => [Pinned]_vars
  BY InstallsPinned
<1>2. Spec => [][Pinned]_vars
  BY <1>1, UpgradeInvariant, PTL DEF Spec
<1> QED
  BY <1>2 DEF OnlyPinned, Pinned

-----------------------------------------------------------------------------
(* A host without a greasewood: somebody is about to install, or gave up.  *)

\* Who is between its uninstall and its install.
InGap(d) == At(d, "install")
HandInGap == hand.pc = "install"

GapHeld == disk = Absent => torn \/ HandInGap \/ \E d \in Daemons : InGap(d)

GapInv == torn \in BOOLEAN /\ GapHeld

\* Who gives up in the gap leaves the install torn.
LEMMA GivingUp ==
  ASSUME torn \in BOOLEAN, NEW pc, GivesUp(pc)
  PROVE  /\ torn' \in BOOLEAN /\ (torn => torn')
         /\ pc = "install" /\ disk = Absent => torn'
BY Zenon DEF GivesUp

LEMMA StepHoldsGap ==
  ASSUME UpgradeInv, GapInv, [Next]_vars
  PROVE  GapInv'
<1>0. torn \in BOOLEAN /\ GapHeld /\ DOMAIN try = Daemons
  BY DEF GapInv, UpgradeInv
\* One attempt ends, the release stays as it is.
<1>1. ASSUME NEW d \in Daemons, GivesUp(try[d].pc), UNCHANGED disk, UNCHANGED hand,
             try' = [try EXCEPT ![d] = NoTry]
      PROVE  GapInv'
  <2>1. torn' \in BOOLEAN /\ (torn => torn') /\ (InGap(d) /\ disk = Absent => torn')
    BY <1>0, <1>1, GivingUp DEF InGap, At
  <2>2. \A e \in Daemons \ {d} : InGap(e) => InGap(e)'
    BY <1>0, <1>1 DEF InGap, At
  <2> QED
    BY <1>0, <1>1, <2>1, <2>2 DEF GapInv, GapHeld, HandInGap
\* No attempt in the gap moves, and nobody uninstalls.
<1>2. ASSUME UNCHANGED <<torn, disk>>, HandInGap => HandInGap',
             \A e \in Daemons : InGap(e) => InGap(e)'
      PROVE  GapInv'
  BY <1>0, <1>2 DEF GapInv, GapHeld
\* Somebody installs.
<1>3. ASSUME disk' # Absent, torn' = FALSE
      PROVE  GapInv'
  BY <1>3 DEF GapInv, GapHeld
<1>4. ASSUME NEW d \in Daemons, ~InGap(d), UNCHANGED <<torn, disk, hand>>,
             \E t : try' = [try EXCEPT ![d] = t]
      PROVE  GapInv'
  <2>1. \A e \in Daemons : InGap(e) => InGap(e)'
    BY <1>0, <1>4 DEF InGap, At
  <2> QED
    BY <1>2, <1>4, <2>1 DEF HandInGap
<1>5. ASSUME NEW d \in Daemons, Offer(d) \/ Attempt(d) \/ AttemptFails(d) \/ Cooled(d)
      PROVE  GapInv'
  <2>1. CASE Offer(d) \/ Check(d) \/ Fetch(d)
    <3>1. ~InGap(d) /\ UNCHANGED <<torn, disk, hand>> /\ \E t : try' = [try EXCEPT ![d] = t]
      BY <2>1 DEF Offer, Check, Fetch, Proceed, Done, Fail, InGap, At, install, NoTry
    <3> QED
      BY <1>4, <3>1
  <2>2. CASE Uninstall(d)
    <3>1. CASE disk = Absent
      BY <1>4, <2>2, <3>1 DEF Uninstall, Fail, InGap, At
    <3>2. CASE disk # Absent
      <4>1. try' = [try EXCEPT ![d].pc = "install"] /\ UNCHANGED torn
        BY <2>2, <3>2, NextSteps DEF Uninstall, Proceed, At
      <4>2. At(d, "install")'
        <5>1. try[d] \in Late
          BY <2>2, Places DEF Uninstall
        <5> QED
          BY <1>0, <4>1, <5>1 DEF At, Late
      <4> QED
        BY <1>0, <4>1, <4>2 DEF GapInv, GapHeld, InGap
    <3> QED
      BY <3>1, <3>2
  <2>3. CASE Install(d)
    <3>1. disk' # Absent
      <4>1. try[d].hint.v \in Versions
        BY <2>3, Places DEF Install, Late, Hint
      <4> QED
        BY <2>3, <4>1 DEF Install, Absent, Versions
    <3> QED
      BY <1>3, <2>3, <3>1 DEF Install
  <2>4. CASE Restart(d)
    <3>1. CASE Stopped(d)
      BY <1>1, <2>4, <3>1 DEF Restart, Stopped
    <3>2. CASE Done(d) /\ UNCHANGED <<torn, runs>>
      BY <1>4, <2>4, <3>2 DEF Restart, Done, InGap, At
    <3> QED
      BY <2>4, <3>1, <3>2 DEF Restart
  <2>5. CASE AttemptFails(d)
    BY <1>1, <2>5 DEF AttemptFails, Fail
  <2>6. CASE Cooled(d)
    BY <1>2, <2>6 DEF Cooled, install, InGap, At, HandInGap
  <2> QED
    BY <1>5, <2>1, <2>2, <2>3, <2>4, <2>5, <2>6 DEF Attempt
<1>6. CASE Hand \/ HandFails
  <2>1. CASE HandUninstall
    <3>1. CASE disk = Absent
      BY <1>0, <2>1, <3>1 DEF HandUninstall, GapInv, GapHeld, HandInGap, InGap, At, manager
    <3>2. CASE disk # Absent
      <4>1. UNCHANGED torn /\ hand' = [hand EXCEPT !.pc = "install"] /\ hand \in Hands
        BY <2>1, <3>2 DEF HandUninstall, UpgradeInv, NoHand
      <4>2. hand'.pc = "install"
        BY <4>1 DEF Hands
      <4> QED
        BY <1>0, <4>1, <4>2 DEF GapInv, GapHeld, HandInGap
    <3> QED
      BY <3>1, <3>2
  <2>2. CASE HandInstall
    <3>1. hand \in Hands
      BY <2>2 DEF HandInstall, UpgradeInv, NoHand
    <3>2. disk' # Absent
      BY <2>2, <3>1 DEF HandInstall, ByHand, Absent, Hands, Versions
    <3> QED
      BY <1>3, <2>2, <3>2 DEF HandInstall
  <2>3. CASE HandRestart
    <3>1. hand \in Hands /\ ~HandInGap /\ UNCHANGED disk
      BY <2>3 DEF HandRestart, UpgradeInv, NoHand, HandInGap
    <3>2. CASE Stopped(hand.for)
      <4>1. SUFFICES ASSUME NEW d \in Daemons, d = hand.for PROVE GapInv'
        BY <3>1 DEF Hands
      <4>2. GivesUp(try[d].pc) /\ try' = [try EXCEPT ![d] = NoTry]
        BY <3>2, <4>1 DEF Stopped
      <4>3. torn' \in BOOLEAN /\ (torn => torn') /\ (InGap(d) /\ disk = Absent => torn')
        BY <1>0, <4>2, GivingUp DEF InGap, At
      <4>4. \A e \in Daemons \ {d} : InGap(e) => InGap(e)'
        BY <1>0, <4>2 DEF InGap, At
      <4> QED
        BY <1>0, <3>1, <4>3, <4>4 DEF GapInv, GapHeld
    <3>3. CASE UNCHANGED <<torn, runs, manager>>
      BY <1>2, <3>1, <3>3 DEF InGap, At, manager
    <3> QED
      BY <2>3, <3>2, <3>3 DEF HandRestart
  <2>4. CASE HandFails
    <3>1. torn' \in BOOLEAN /\ (torn => torn') /\ (HandInGap /\ disk = Absent => torn')
      BY <1>0, <2>4, GivingUp DEF HandFails, HandInGap
    <3>2. \A e \in Daemons : InGap(e) => InGap(e)'
      BY <2>4 DEF HandFails, InGap, At, manager
    <3> QED
      BY <1>0, <2>4, <3>1, <3>2 DEF HandFails, GapInv, GapHeld
  <2> QED
    BY <1>6, <2>1, <2>2, <2>3, <2>4 DEF Hand
<1>7. ASSUME NEW d \in Daemons,
             \/ Boot(d) \/ Kill(d)
             \/ \E v \in Versions : Announce(d, v) \/ HandBegin(d, v)
      PROVE  GapInv'
  <2>1. CASE Boot(d) \/ \E v \in Versions : Announce(d, v)
    BY <1>2, <2>1 DEF Boot, Announce, install, manager, InGap, At, HandInGap
  <2>2. CASE \E v \in Versions : HandBegin(d, v)
    BY <1>2, <2>2 DEF HandBegin, install, manager, InGap, At, HandInGap, NoHand
  <2>3. CASE Kill(d)
    BY <1>1, <2>3 DEF Kill, Stopped
  <2> QED
    BY <1>7, <2>1, <2>2, <2>3
<1>8. ASSUME NEW v \in Versions, Retag(v) \/ Recover(v) PROVE GapInv'
  <2>1. CASE Retag(v)
    BY <1>2, <2>1 DEF Retag, install, manager, InGap, At, HandInGap
  <2>2. CASE Recover(v)
    <3>1. disk' # Absent
      BY <2>2 DEF Recover, ByHand, Absent, Versions
    <3> QED
      BY <1>3, <2>2, <3>1 DEF Recover
  <2> QED
    BY <1>8, <2>1, <2>2
<1>9. CASE UNCHANGED vars
  BY <1>2, <1>9 DEF vars, install, manager, InGap, At, HandInGap
<1> QED
  BY <1>5, <1>6, <1>7, <1>8, <1>9 DEF Next

\* A host without a release is one that somebody is about to give one, or one
\* that an installer tore: a download that fails, a second daemon, an operator
\* at the same time or a moved tag never leave it without (upgrade.py,
\* _upgrade; cli/svc.py, cmd_upgrade).
THEOREM OnlyTheGapStrands == Spec => []GapHeld
<1>1. Init => GapInv
  <2>1. Init => torn = FALSE /\ disk = ByHand(1)
    BY DEF Init
  <2>2. ByHand(1) # Absent
    BY DEF ByHand, Absent
  <2> QED
    BY <2>1, <2>2 DEF GapInv, GapHeld
<1>2. UpgradeInv /\ GapInv /\ [Next]_vars => GapInv'
  BY StepHoldsGap
<1>3. GapInv => GapHeld
  BY DEF GapInv
<1> QED
  BY <1>1, <1>2, <1>3, UpgradeInvariant, PTL DEF Spec
=============================================================================
