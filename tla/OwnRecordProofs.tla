-------------------------- MODULE OwnRecordProofs ---------------------------
(***************************************************************************)
(* Theorems about OwnRecord for publications that do not overlap: any      *)
(* number of credentials, changes, stops, lost contacts and lost files;    *)
(* then about Renewal, which decides when the own record is renewed.       *)
(***************************************************************************)
EXTENDS OwnRecord, Renewal, TLAPS

USE OwnRecordAssumption

Rec == [seq : Nat, gen : Nat, addr : Addr, links : Nat]

TypesOK ==
    /\ dir \in Rec /\ file \in Rec /\ anchor \in Rec
    /\ work \in [Publishers -> [at : {"idle", "put", "save", "push"}, rec : Rec]]
    /\ held \in Nat /\ issued \in Nat /\ live \in Nat /\ real \in Addr
    /\ started \in {"down", "starting", "up"}

Busy(t) == work[t] # Idle

\* A step of one publication at a time, and nothing of a daemon that is down.
Alone ==
    /\ \A t, u \in Publishers : Busy(t) /\ Busy(u) => t = u
    /\ \A t \in Publishers : Busy(t) => ~At(t, "idle")
    /\ started = "down" => \A t \in Threads : ~Busy(t)
    /\ started = "down" => dir = None
    /\ Busy("renewal") => started = "up"
    /\ Busy("startup") => started = "starting"

\* Without a publication the directory is the file, or not there yet.
Settled == (\A t \in Publishers : ~Busy(t)) => dir \in {None, file}

\* What the holder was told, the node can still read.
Backed ==
    /\ anchor.seq > 0
    /\ file = None => dir = None
    /\ file # None => anchor.seq <= file.seq
    /\ dir # None => anchor.seq <= dir.seq

\* The record a thread has signed follows the directory until it is put, and the
\* file until it is saved; a start pushes what it found, or nothing.
ThreadOK(t) ==
    /\ At(t, "put") => /\ file # None /\ dir = file
                       /\ work[t].rec.seq = dir.seq + 1
    /\ At(t, "save") => /\ file # None /\ dir = work[t].rec
                        /\ dir.seq = file.seq + 1
    /\ At(t, "push") => \/ file # None /\ dir = file /\ work[t].rec = dir
                        \/ t = "startup" /\ work[t].rec = None /\ dir \in {None, file}

\* A command works on the file; the daemon beside it may lag by its record.
CommandOK ==
    /\ At("command", "put") \/ At("command", "save") =>
          /\ file # None /\ dir \in {None, file}
          /\ work["command"].rec.seq = file.seq + 1
    /\ At("command", "push") =>
          /\ file # None /\ work["command"].rec = file
          /\ dir \in {None, file} \/ dir.seq + 1 = file.seq

\* What a finished renewal holds, no copy and no publication falls behind.
Fresh ==
    /\ held <= issued
    /\ dir.gen <= issued /\ file.gen <= issued /\ anchor.gen <= issued
    /\ \A t \in Publishers : work[t].rec.gen <= issued
    /\ held > 0 => dir # None
    /\ Busy("renewal") => work["renewal"].rec.gen = held
    /\ renewed => /\ started = "up"
                  /\ dir.gen >= held /\ file.gen >= held /\ anchor.gen >= held
                  /\ \A t \in Publishers : Busy(t) =>
                        work[t].rec.gen >= held \/ work[t].rec = None

OwnInv ==
    /\ TypesOK /\ Alone /\ Settled /\ Backed /\ SeqOnce
    /\ \A t \in Threads : ThreadOK(t)
    /\ CommandOK /\ Fresh

LEMMA Names ==
  /\ Threads \subseteq Publishers /\ "command" \in Publishers /\ "command" \notin Threads
  /\ \A t \in Publishers : t \in Threads \/ t = "command"
  /\ "startup" \in Threads /\ "renewal" \in Threads
  /\ None \in Rec /\ None.seq = 0 /\ None.gen = 0 /\ Idle.at = "idle" /\ Idle.rec = None
  /\ Idle \in [at : {"idle", "put", "save", "push"}, rec : Rec]
BY DEF Threads, Publishers, None, Rec, Idle

LEMMA InitOwn == Init => OwnInv
<1> SUFFICES ASSUME Init PROVE OwnInv
  OBVIOUS
<1>1. Joined \in Rec /\ Joined.seq = 1 /\ Joined.gen = 1
  BY DEF Joined, None, Rec
<1>2. /\ dir = Joined /\ file = Joined /\ anchor = Joined /\ work = [t \in Publishers |-> Idle]
      /\ held = 1 /\ renewed = FALSE /\ started = "up" /\ issued = 1 /\ real = Configured
      /\ live = 0
  BY DEF Init
<1>3. \A t \in Publishers : work[t] = Idle
  BY <1>2
<1>4. TypesOK
  BY <1>1, <1>2, Names DEF TypesOK
<1>5. Alone /\ Settled /\ Backed /\ SeqOnce /\ Fresh
  BY <1>1, <1>2, <1>3, Names DEF Alone, Settled, Backed, SeqOnce, Fresh, Busy
<1>6. CommandOK /\ \A t \in Threads : ThreadOK(t)
  BY <1>3, Names DEF CommandOK, ThreadOK, At
<1> QED
  BY <1>4, <1>5, <1>6 DEF OwnInv

\* What the renewal loop signs.
Anew(r, g, a) == [NextOf(r) EXCEPT !.gen = g, !.addr = a]

Follows(s, r) == s \in Rec /\ s.seq = r.seq + 1

LEMMA Successor ==
  ASSUME NEW r \in Rec, NEW g \in Nat, NEW a \in Addr, NEW l \in Nat
  PROVE  /\ Follows([NextOf(r) EXCEPT !.gen = g], r)
         /\ [NextOf(r) EXCEPT !.gen = g].gen = g
         /\ Follows([NextOf(r) EXCEPT !.addr = a], r)
         /\ [NextOf(r) EXCEPT !.addr = a].gen = r.gen
         /\ Follows([NextOf(r) EXCEPT !.links = l], r)
         /\ [NextOf(r) EXCEPT !.links = l].gen = r.gen
<1> DEFINE n == NextOf(r)
<1>1. n \in Rec /\ n.seq = r.seq + 1 /\ n.gen = r.gen
  BY DEF NextOf, Rec
<1> HIDE DEF n
<1>2. /\ [n EXCEPT !.gen = g] \in Rec /\ [n EXCEPT !.gen = g].seq = n.seq
      /\ [n EXCEPT !.gen = g].gen = g
  BY <1>1 DEF Rec
<1>3. /\ [n EXCEPT !.addr = a] \in Rec /\ [n EXCEPT !.addr = a].seq = n.seq
      /\ [n EXCEPT !.addr = a].gen = n.gen
  BY <1>1 DEF Rec
<1>4. /\ [n EXCEPT !.links = l] \in Rec /\ [n EXCEPT !.links = l].seq = n.seq
      /\ [n EXCEPT !.links = l].gen = n.gen
  BY <1>1 DEF Rec
<1> QED
  BY <1>1, <1>2, <1>3, <1>4 DEF Follows, n

LEMMA AnewFollows ==
  ASSUME NEW r \in Rec, NEW g \in Nat, NEW a \in Addr
  PROVE  Follows(Anew(r, g, a), r) /\ Anew(r, g, a).gen = g
<1> DEFINE n == NextOf(r)
<1>1. n \in Rec /\ n.seq = r.seq + 1
  BY DEF NextOf, Rec
<1> HIDE DEF n
<1>2. /\ [n EXCEPT !.gen = g, !.addr = a] \in Rec
      /\ [n EXCEPT !.gen = g, !.addr = a].seq = n.seq
      /\ [n EXCEPT !.gen = g, !.addr = a].gen = g
  BY <1>1 DEF Rec
<1> QED
  BY <1>1, <1>2 DEF Follows, Anew, n

\* A publication begins when no other is under way.
LEMMA Beginning ==
  ASSUME OwnInv, Undisturbed, NEW t \in Publishers, NEW r \in Rec, Begin(t, r),
         UNCHANGED <<dir, file, anchor, live, real, started>>,
         t = "command" => file # None /\ r.seq = file.seq + 1,
         t # "command" => dir # None /\ r.seq = dir.seq + 1 /\ started # "down",
         t = "renewal" => started = "up" /\ r.gen = held',
         t = "startup" => started = "starting",
         held' \in Nat, issued' \in Nat, held' <= issued',
         held' > 0 => held > 0, issued <= issued', r.gen <= issued',
         renewed' => renewed /\ held' = held /\ r.gen >= held
  PROVE  OwnInv'
<1>1. /\ \A u \in Publishers : ~Busy(u)
      /\ work' = [work EXCEPT ![t] = [at |-> "put", rec |-> r]]
  BY DEF Begin, MayPublish, Busy, Goto
<1>2. dir \in {None, file}
  BY <1>1 DEF OwnInv, Settled
<1>3. /\ work'[t].at = "put" /\ work'[t].rec = r
      /\ \A u \in Publishers \ {t} : work'[u] = Idle
      /\ work' \in [Publishers -> [at : {"idle", "put", "save", "push"}, rec : Rec]]
  BY <1>1 DEF OwnInv, TypesOK, Busy
<1>4. TypesOK'
  BY <1>3 DEF OwnInv, TypesOK
<1>5. Alone'
  BY <1>3, Names DEF Alone, Busy, At, OwnInv
<1>6. Settled' /\ Backed' /\ SeqOnce'
  BY <1>3, Names DEF OwnInv, Settled, Backed, SeqOnce, Busy
<1>7. \A u \in Threads : ThreadOK(u)'
  BY <1>2, <1>3, Names DEF ThreadOK, At, OwnInv, Backed
<1>8. CommandOK'
  BY <1>2, <1>3, Names DEF CommandOK, At
<1>9. Fresh'
  <2>1. Busy("renewal")' => t = "renewal"
    BY <1>3, Names DEF Busy
  <2>2. \A u \in Publishers : Busy(u)' => u = t
    BY <1>3 DEF Busy
  <2>3. /\ issued \in Nat /\ dir.gen \in Nat /\ file.gen \in Nat /\ anchor.gen \in Nat
        /\ \A u \in Publishers : work'[u].rec.gen <= issued'
    BY <1>3, Names DEF OwnInv, TypesOK, Rec
  <2>4. dir.gen <= issued' /\ file.gen <= issued' /\ anchor.gen <= issued'
    BY <2>3 DEF OwnInv, Fresh
  <2> QED
    BY <1>3, <2>1, <2>2, <2>3, <2>4, Names DEF Fresh, OwnInv
<1> QED
  BY <1>4, <1>5, <1>6, <1>7, <1>8, <1>9 DEF OwnInv

-----------------------------------------------------------------------------
(* Who publishes.                                                          *)

LEMMA Publications ==
  ASSUME OwnInv, Undisturbed,
         RenewCredential \/ Retry \/ PublishLinks \/ Readvertise \/ HonorConfig \/ RunCommand
  PROVE  OwnInv'
<1>0. /\ dir \in Rec /\ file \in Rec /\ held \in Nat /\ issued \in Nat /\ live \in Nat
      /\ real \in Addr /\ held <= issued
      /\ Configured \in Addr /\ (held > 0 => dir # None)
      /\ renewed => dir.gen >= held
      /\ dir.gen <= issued
  BY DEF OwnInv, TypesOK, Fresh
<1>1. PICK next \in Nat : next = issued + 1
  BY <1>0
<1>2. CASE RenewCredential
  <2> DEFINE r == Anew(dir, next, Configured)
  <2>1. Follows(r, dir) /\ r.gen = next
    BY <1>0, AnewFollows
  <2>2. Begin("renewal", r) /\ held' = next /\ issued' = next
    BY <1>1, <1>2 DEF RenewCredential, Anew
  <2>3. /\ UNCHANGED <<dir, file, anchor, live, real, started>>
        /\ started = "up" /\ held > 0 /\ renewed' = FALSE
    BY <1>2 DEF RenewCredential
  <2>5. /\ held' \in Nat /\ issued' \in Nat /\ held' <= issued' /\ held' = next
        /\ issued <= issued' /\ r.gen <= issued' /\ started # "down"
    BY <1>0, <1>1, <2>1, <2>2, <2>3
  <2>6. ~renewed'
    BY <2>3
  <2> HIDE DEF r
  <2>4. dir # None /\ r \in Rec /\ r.seq = dir.seq + 1
    BY <1>0, <2>1, <2>3 DEF Follows
  <2> QED
    BY <2>1, <2>2, <2>3, <2>4, <2>5, <2>6, Beginning, Names
<1>3. CASE Retry
  <2> DEFINE r == Anew(dir, held, Configured)
  <2>1. Follows(r, dir) /\ r.gen = held
    BY <1>0, AnewFollows
  <2>2. Begin("renewal", r)
    BY <1>3 DEF Retry, Anew
  <2> HIDE DEF r
  <2> QED
    BY <1>0, <1>3, <2>1, <2>2, Beginning, Names DEF Retry, Follows, daemon, world
<1>4. CASE PublishLinks
  <2> DEFINE r == [NextOf(dir) EXCEPT !.links = live]
  <2>1. Follows(r, dir) /\ r.gen = dir.gen
    BY <1>0, Successor
  <2>2. Begin("reconcile", r)
    BY <1>4 DEF PublishLinks
  <2> HIDE DEF r
  <2> QED
    BY <1>0, <1>4, <2>1, <2>2, Beginning DEF PublishLinks, Known, Follows, daemon, world, Threads, Publishers
<1>5. CASE Readvertise
  <2> DEFINE r == [NextOf(dir) EXCEPT !.addr = real]
  <2>1. Follows(r, dir) /\ r.gen = dir.gen
    BY <1>0, Successor
  <2>2. Begin("endpoints", r)
    BY <1>5 DEF Readvertise
  <2> HIDE DEF r
  <2> QED
    BY <1>0, <1>5, <2>1, <2>2, Beginning DEF Readvertise, Known, Follows, daemon, world, Threads, Publishers
<1>6. CASE RunCommand
  <2> DEFINE r == [NextOf(file) EXCEPT !.gen = next]
  <2>1. Follows(r, file) /\ r.gen = next
    BY <1>0, Successor
  <2>2. Begin("command", r) /\ issued' = next
    BY <1>1, <1>6 DEF RunCommand
  <2> HIDE DEF r
  <2> QED
    BY <1>0, <1>1, <1>6, <2>1, <2>2, Beginning, Names DEF RunCommand, Follows, daemon
<1>7. CASE HonorConfig
  <2>1. UNCHANGED <<daemon, file, anchor, world>> /\ started = "starting"
    BY <1>7 DEF HonorConfig
  <2>2. CASE dir # None /\ dir.addr # Configured
    <3> DEFINE r == [NextOf(dir) EXCEPT !.addr = Configured]
    <3>1. Follows(r, dir) /\ r.gen = dir.gen
      BY <1>0, Successor
    <3>2. Begin("startup", r)
      BY <1>7, <2>2 DEF HonorConfig
    <3> HIDE DEF r
    <3> QED
      BY <1>0, <2>1, <2>2, <3>1, <3>2, Beginning, Names DEF Follows, daemon, world
  <2>3. CASE ~(dir # None /\ dir.addr # Configured)
    <3>1. /\ \A u \in Publishers : ~Busy(u)
          /\ work' = [work EXCEPT !["startup"] = [at |-> "push", rec |-> dir]]
      BY <1>7, <2>3 DEF HonorConfig, MayPublish, Busy, Goto
    <3>2. dir \in {None, file}
      BY <3>1 DEF OwnInv, Settled
    <3>3. /\ work'["startup"].at = "push" /\ work'["startup"].rec = dir
          /\ \A u \in Publishers \ {"startup"} : work'[u] = Idle
          /\ work' \in [Publishers -> [at : {"idle", "put", "save", "push"}, rec : Rec]]
      BY <1>0, <3>1, Names DEF OwnInv, TypesOK, Busy
    <3>4. TypesOK'
      BY <2>1, <3>3 DEF OwnInv, TypesOK, daemon, world
    <3>5. Alone'
      BY <2>1, <3>3, Names DEF Alone, Busy, At, OwnInv, daemon, world
    <3>6. Settled' /\ Backed' /\ SeqOnce'
      BY <2>1, <3>2, <3>3, Names DEF OwnInv, Settled, Backed, SeqOnce, Busy, daemon, world
    <3>7. \A u \in Threads : ThreadOK(u)'
      BY <2>1, <3>2, <3>3, Names DEF ThreadOK, At, OwnInv, Backed, daemon, world
    <3>8. CommandOK'
      BY <3>3, Names DEF CommandOK, At
    <3>9. Fresh'
      <4>1. ~Busy("renewal")' /\ \A u \in Publishers : Busy(u)' => u = "startup"
        BY <3>3, Names DEF Busy
      <4>2. \A u \in Publishers : work'[u].rec.gen <= issued
        BY <1>0, <3>3, Names
      <4> QED
        BY <1>0, <2>1, <3>3, <4>1, <4>2 DEF Fresh, OwnInv, daemon, world
    <3> QED
      BY <3>4, <3>5, <3>6, <3>7, <3>8, <3>9 DEF OwnInv
  <2> QED
    BY <1>1, <2>2, <2>3
<1> QED
  BY <1>2, <1>3, <1>4, <1>5, <1>6, <1>7

-----------------------------------------------------------------------------
(* The steps they share.                                                   *)

\* What a step of one publication leaves of the others.
LEMMA Others ==
  ASSUME OwnInv, NEW t \in Publishers, Busy(t)
  PROVE  /\ \A u \in Publishers \ {t} : work[u] = Idle /\ ~Busy(u)
         /\ ~At(t, "idle") /\ (t \in Threads => started # "down")
BY DEF OwnInv, Alone, Busy

LEMMA Goes ==
  ASSUME OwnInv, NEW t \in Publishers, NEW step \in {"put", "save", "push"},
         Goto(t, step, work[t].rec)
  PROVE  /\ work'[t].at = step /\ work'[t].rec = work[t].rec
         /\ \A u \in Publishers \ {t} : work'[u] = work[u]
         /\ work' \in [Publishers -> [at : {"idle", "put", "save", "push"}, rec : Rec]]
BY DEF OwnInv, TypesOK, Goto

LEMMA Putting ==
  ASSUME OwnInv, NEW t \in Publishers, Put(t)
  PROVE  OwnInv'
<1>0. Busy(t) /\ Busy(t)'
  BY Goes, Names DEF Put, Busy, At
<1>1. /\ \A u \in Publishers \ {t} : work'[u] = Idle /\ ~Busy(u)
      /\ work'[t].at = "save" /\ work'[t].rec = work[t].rec
      /\ work' \in [Publishers -> [at : {"idle", "put", "save", "push"}, rec : Rec]]
  BY <1>0, Others, Goes DEF Put
<1>2. /\ UNCHANGED <<file, anchor, held, renewed, started, issued, live, real>>
      /\ t = "command" => dir' = dir
      /\ t # "command" => dir' = work[t].rec
  BY DEF Put, world
<1>3. /\ work[t].rec \in Rec /\ work[t].rec.seq \in Nat /\ work[t].rec.gen <= issued
      /\ dir.seq \in Nat /\ file.seq \in Nat /\ anchor.seq \in Nat
      /\ t \in Threads => /\ file # None /\ dir = file
                          /\ work[t].rec.seq = dir.seq + 1
      /\ t = "command" => /\ file # None /\ dir \in {None, file}
                          /\ work[t].rec.seq = file.seq + 1
      /\ renewed => work[t].rec.gen >= held
  BY <1>0, Names DEF Put, OwnInv, TypesOK, Rec, ThreadOK, CommandOK, Fresh, At
<1>4. TypesOK'
  BY <1>1, <1>2, <1>3, Names DEF OwnInv, TypesOK
<1>5. Alone' /\ Settled'
  BY <1>0, <1>1, <1>2, Others, Names DEF Alone, Settled, OwnInv, At, Busy
<1>6. Backed' /\ SeqOnce'
  BY <1>2, <1>3, Names DEF OwnInv, Backed, SeqOnce
<1>7. \A u \in Threads : ThreadOK(u)'
  BY <1>1, <1>2, <1>3, Names DEF ThreadOK, At
<1>8. CommandOK'
  BY <1>1, <1>2, <1>3, Names DEF CommandOK, At
<1>9. Fresh'
  <2>1. Busy("renewal")' => t = "renewal"
    BY <1>1, Names DEF Busy
  <2>2. dir'.gen <= issued /\ (renewed => dir'.gen >= held) /\ (held > 0 => dir' # None)
    BY <1>2, <1>3, Names DEF OwnInv, Fresh
  <2> QED
    BY <1>0, <1>1, <1>2, <1>3, <2>1, <2>2, Names DEF Fresh, OwnInv, Busy
<1> QED
  BY <1>4, <1>5, <1>6, <1>7, <1>8, <1>9 DEF OwnInv

LEMMA Saving ==
  ASSUME OwnInv, NEW t \in Publishers, Save(t)
  PROVE  OwnInv'
<1>0. Busy(t) /\ Busy(t)'
  BY Goes, Names DEF Save, Busy, At
<1>1. /\ \A u \in Publishers \ {t} : work'[u] = Idle /\ ~Busy(u)
      /\ work'[t].at = "push" /\ work'[t].rec = work[t].rec
      /\ work' \in [Publishers -> [at : {"idle", "put", "save", "push"}, rec : Rec]]
  BY <1>0, Others, Goes DEF Save
<1>2. /\ UNCHANGED <<dir, anchor, held, renewed, started, issued, live, real>>
      /\ file' = work[t].rec
  BY <1>0, Names DEF Save, Saved, world, daemon, OwnInv, ThreadOK
<1>3. /\ work[t].rec \in Rec /\ work[t].rec.seq \in Nat /\ work[t].rec.gen <= issued
      /\ dir.seq \in Nat /\ file.seq \in Nat /\ anchor.seq \in Nat /\ file # None
      /\ work[t].rec.seq = file.seq + 1
      /\ t \in Threads => dir = work[t].rec
      /\ t = "command" => dir \in {None, file}
      /\ renewed => work[t].rec.gen >= held
  BY <1>0, Names DEF Save, OwnInv, TypesOK, Rec, ThreadOK, CommandOK, Fresh, At
<1>4. TypesOK'
  BY <1>1, <1>2, <1>3, Names DEF OwnInv, TypesOK
<1>5. Alone' /\ Settled'
  BY <1>0, <1>1, <1>2, Others, Names DEF Alone, Settled, OwnInv, At, Busy
<1>6. Backed' /\ SeqOnce'
  BY <1>2, <1>3, Names DEF OwnInv, Backed, SeqOnce
<1>7. \A u \in Threads : ThreadOK(u)'
  BY <1>1, <1>2, <1>3, Names DEF ThreadOK, At
<1>8. CommandOK'
  BY <1>1, <1>2, <1>3, Names DEF CommandOK, At
<1>9. Fresh'
  <2>1. Busy("renewal")' => t = "renewal"
    BY <1>1, Names DEF Busy
  <2> QED
    BY <1>0, <1>1, <1>2, <1>3, <2>1, Names DEF Fresh, OwnInv, Busy
<1> QED
  BY <1>4, <1>5, <1>6, <1>7, <1>8, <1>9 DEF OwnInv

LEMMA HigherIs ==
  ASSUME NEW r \in Rec, NEW s \in Rec
  PROVE  /\ Higher(r, s) \in {r, s} /\ Higher(r, s) \in Rec
         /\ Higher(r, s).seq >= r.seq /\ Higher(r, s).seq >= s.seq
         /\ Higher(r, s) # r => s.seq > r.seq
         /\ s.seq <= r.seq => Higher(r, s) = r
BY DEF Higher, Rec

LEMMA Pushing ==
  ASSUME OwnInv, NEW t \in Publishers, Push(t)
  PROVE  OwnInv'
<1>0. Busy(t) /\ t \in Threads
  BY Names DEF Push, Busy, At
<1>1. /\ work' = [work EXCEPT ![t] = Idle] /\ UNCHANGED <<dir, file, issued, live, real>>
      /\ anchor' = IF net THEN Higher(anchor, work[t].rec) ELSE anchor
      /\ renewed' = IF t = "renewal" THEN Answered ELSE renewed
      /\ started' = IF t = "startup" THEN "up" ELSE started
      /\ held' = IF t = "startup" THEN work[t].rec.gen ELSE held
  BY DEF Push, world
<1>2. \A u \in Publishers : work'[u] = Idle /\ ~Busy(u)'
  BY <1>0, <1>1, Others DEF OwnInv, TypesOK, Busy
<1>3. /\ dir \in Rec /\ file \in Rec /\ anchor \in Rec /\ work[t].rec \in Rec
      /\ dir.seq \in Nat /\ file.seq \in Nat /\ anchor.seq \in Nat /\ work[t].rec.seq \in Nat
      /\ held \in Nat /\ issued \in Nat /\ work[t].rec.gen \in Nat
  BY DEF OwnInv, TypesOK, Rec
<1>4. \/ file # None /\ dir = file /\ work[t].rec = dir
      \/ t = "startup" /\ work[t].rec = None /\ dir \in {None, file}
  BY <1>0 DEF Push, OwnInv, ThreadOK
<1>5. /\ anchor' \in Rec /\ anchor'.seq > 0
      /\ \/ anchor' = anchor
         \/ anchor' = work[t].rec /\ work[t].rec = dir /\ dir = file /\ file # None
      /\ net /\ work[t].rec = dir /\ dir # None => anchor' = dir
  <2>1. Higher(anchor, work[t].rec) \in {anchor, work[t].rec}
    BY <1>3, HigherIs
  <2>2. work[t].rec = None => anchor' = anchor
    BY <1>1, <1>3, HigherIs, Names
  <2>3. ASSUME net, work[t].rec = dir, dir # None PROVE anchor' = dir
    <3>1. anchor.seq <= dir.seq /\ (anchor.seq = dir.seq => anchor = dir)
      BY <2>3 DEF OwnInv, Backed, SeqOnce
    <3> QED
      BY <1>1, <1>3, <2>3, <3>1, HigherIs
  <2>4. anchor.seq > 0 /\ anchor'.seq >= anchor.seq
    BY <1>1, <1>3, HigherIs DEF OwnInv, Backed
  <2>5. anchor' \in Rec /\ anchor' \in {anchor, work[t].rec}
    BY <1>1, <1>3, <2>1
  <2> QED
    BY <1>3, <1>4, <2>2, <2>3, <2>4, <2>5 DEF Rec
<1>6. TypesOK'
  <2>1. started' \in {"down", "starting", "up"} /\ held' \in Nat
    BY <1>1, <1>3 DEF OwnInv, TypesOK
  <2>2. work' \in [Publishers -> [at : {"idle", "put", "save", "push"}, rec : Rec]]
    BY <1>1, Names DEF OwnInv, TypesOK
  <2> QED
    BY <1>1, <1>3, <1>5, <2>1, <2>2 DEF OwnInv, TypesOK
<1>7. Alone'
  <2>1. started' # "down"
    BY <1>0, <1>1, Others DEF Push, OwnInv
  <2> QED
    BY <1>2, <2>1, Names DEF Alone
<1>7a. Settled'
  BY <1>1, <1>4 DEF Settled
<1>8. Backed' /\ SeqOnce'
  BY <1>1, <1>3, <1>5 DEF OwnInv, Backed, SeqOnce
<1>9. CommandOK' /\ \A u \in Threads : ThreadOK(u)'
  BY <1>2, Names DEF CommandOK, ThreadOK, At
<1>10. Fresh'
  <2>1. held' <= issued /\ (held' > 0 => dir # None)
    BY <1>1, <1>3, <1>4, Names DEF OwnInv, Fresh
  <2>2. /\ dir.gen <= issued /\ file.gen <= issued /\ anchor'.gen <= issued
        /\ \A u \in Publishers : work'[u].rec.gen <= issued
    BY <1>2, <1>3, <1>5, Names DEF OwnInv, Fresh
  <2>3. ASSUME renewed'
        PROVE  /\ started' = "up" /\ dir.gen >= held' /\ file.gen >= held' /\ anchor'.gen >= held'
    <3>1. CASE t = "renewal"
      <4>1. net
        BY <1>1, <2>3, <3>1 DEF Answered
      <4>2. started = "up" /\ work[t].rec.gen = held /\ t # "startup"
        BY <1>0, <3>1 DEF OwnInv, Alone, Fresh
      <4>3. work[t].rec = dir /\ dir = file /\ dir # None
        BY <1>4, <3>1
      <4>4. anchor' = dir
        BY <1>5, <4>1, <4>3
      <4> QED
        BY <1>1, <1>3, <4>2, <4>3, <4>4
    <3>2. CASE t # "renewal"
      <4>1. renewed
        BY <1>1, <2>3, <3>2
      <4>2. /\ started = "up" /\ dir.gen >= held /\ file.gen >= held /\ anchor.gen >= held
            /\ work[t].rec.gen >= held \/ work[t].rec = None
        BY <1>0, <4>1 DEF OwnInv, Fresh
      <4>3. anchor'.gen >= held
        BY <1>5, <4>2
      <4>4. CASE t # "startup"
        BY <1>1, <4>2, <4>3, <4>4
      <4>5. CASE t = "startup"
        <5>1. t # "startup"
          BY <1>0, <4>2 DEF OwnInv, Alone
        <5> QED
          BY <4>5, <5>1
      <4> QED
        BY <4>4, <4>5
    <3> QED
      BY <3>1, <3>2
  <2> QED
    BY <1>1, <1>2, <2>1, <2>2, <2>3, Names DEF Fresh
<1> QED
  BY <1>6, <1>7, <1>7a, <1>8, <1>9, <1>10 DEF OwnInv

LEMMA Finishing ==
  ASSUME OwnInv, FinishCommand
  PROVE  OwnInv'
<1>0. Busy("command") /\ "command" \in Publishers
  BY Names DEF FinishCommand, Busy, At
<1>1. /\ work' = [u \in Publishers |-> Idle] /\ UNCHANGED <<file, issued, live, real>>
      /\ anchor' = IF net THEN Higher(anchor, file) ELSE anchor
      /\ started' = "down" /\ dir' = None /\ held' = 0 /\ ~renewed' /\ file # None
  BY DEF FinishCommand, AfterCommand, Stopped, world, OwnInv, CommandOK
<1>2. \A u \in Publishers : work'[u] = Idle /\ ~Busy(u)'
  BY <1>1 DEF Busy
<1>3. /\ file \in Rec /\ anchor \in Rec /\ file.seq \in Nat /\ anchor.seq \in Nat
      /\ anchor.seq <= file.seq /\ anchor.seq > 0 /\ issued \in Nat
  BY <1>1 DEF OwnInv, TypesOK, Rec, Backed
<1>4. anchor' \in {anchor, file} /\ anchor'.seq > 0 /\ anchor'.seq <= file.seq
  BY <1>1, <1>3, HigherIs
<1>5. TypesOK'
  BY <1>1, <1>3, <1>4, Names DEF OwnInv, TypesOK
<1>6. Alone'
  BY <1>1, <1>2, Names DEF Alone
<1>7. Settled' /\ Backed'
  BY <1>1, <1>4 DEF Settled, Backed
<1>8. SeqOnce'
  BY <1>1, <1>3, <1>4, Names DEF OwnInv, SeqOnce
<1>9. CommandOK' /\ \A u \in Threads : ThreadOK(u)'
  BY <1>2, Names DEF CommandOK, ThreadOK, At
<1>10. Fresh'
  BY <1>1, <1>2, <1>3, <1>4, Names DEF OwnInv, Fresh
<1> QED
  BY <1>5, <1>6, <1>7, <1>8, <1>9, <1>10 DEF OwnInv

\* A pull leaves a file that is there; the directory catches up with it.
LEMMA Pulling ==
  ASSUME OwnInv, Pull
  PROVE  OwnInv'
<1>1. /\ UNCHANGED <<anchor, work, held, renewed, started, issued, live, real>>
      /\ started # "down"
  BY DEF Pull, world
<1>2. /\ dir \in Rec /\ file \in Rec /\ anchor \in Rec /\ None \in Rec
      /\ dir.seq \in Nat /\ file.seq \in Nat /\ anchor.seq \in Nat
      /\ anchor.seq > 0 /\ None.seq = 0 /\ None.gen = 0 /\ held \in Nat
      /\ issued \in Nat /\ file.gen \in Nat /\ anchor.gen \in Nat /\ dir.gen \in Nat
  BY Names DEF OwnInv, TypesOK, Rec, Backed
<1>3. ASSUME file # None
      PROVE  file' = file /\ dir' = Higher(dir, file)
  <2> DEFINE h == Higher(dir, file)
  <2>1. h \in Rec /\ h.seq \in Nat /\ h.seq >= file.seq
    BY <1>2, HigherIs DEF Rec
  <2>2. anchor.seq <= h.seq
    BY <1>2, <1>3, <2>1 DEF OwnInv, Backed
  <2>3. Higher(h, anchor) = h /\ Higher(h, None) = h /\ ~(anchor.seq > h.seq)
    BY <1>2, <2>1, <2>2, HigherIs
  <2> HIDE DEF h
  <2>4. Higher(h, IF net THEN anchor ELSE None) = h
    BY <2>3
  <2>5. /\ dir' = Higher(h, IF net THEN anchor ELSE None)
        /\ file' = IF net /\ anchor.seq > h.seq
                   THEN Higher(h, IF net THEN anchor ELSE None) ELSE file
    BY DEF Pull, h
  <2> QED
    BY <2>3, <2>4, <2>5 DEF h
<1>4. ASSUME file = None
      PROVE  dir = None /\ dir' = file' /\ file' \in {None, anchor}
  <2>1. dir = None /\ Higher(None, None) = None
    BY <1>2, <1>4, HigherIs DEF OwnInv, Backed
  <2>2. Higher(None, anchor) = anchor /\ anchor.seq > None.seq
    BY <1>2 DEF Higher
  <2> QED
    BY <1>4, <2>1, <2>2 DEF Pull
<1>5. /\ file # None /\ dir = None => dir' = file
      /\ file # None /\ dir.seq >= file.seq => dir' = dir
      /\ file # None /\ dir.seq < file.seq => dir' = file
  BY <1>2, <1>3, HigherIs, Names DEF Higher, OwnInv, Backed
<1>6. /\ file # None => dir' \in {dir, file} /\ dir' # None
      /\ dir \in {None, file} => dir' = file'
      /\ file # None => file' = file /\ dir'.seq >= file.seq
  <2>1. dir = file => dir.seq >= file.seq
    BY <1>2
  <2>2. file # None /\ dir.seq >= file.seq => dir # None
    <3>1. file # None => file.seq > 0
      BY <1>2 DEF OwnInv, Backed
    <3> QED
      BY <1>2, <3>1
  <2> QED
    BY <1>2, <1>3, <1>4, <1>5, <2>1, <2>2
<1>7. TypesOK'
  <2>1. dir' \in Rec /\ file' \in Rec
    BY <1>2, <1>4, <1>6
  <2> QED
    BY <1>1, <2>1 DEF OwnInv, TypesOK
<1>8. Alone'
  BY <1>1 DEF OwnInv, Alone, Busy, At
<1>9. Settled'
  BY <1>1, <1>6 DEF OwnInv, Settled, Busy
<1>10. Backed'
  <2>1. CASE file = None
    BY <1>1, <1>2, <1>4, <2>1 DEF Backed
  <2>2. CASE file # None
    <3>1. anchor.seq <= file.seq /\ file' = file /\ dir'.seq >= file.seq /\ dir' \in {dir, file}
      BY <1>6, <2>2 DEF OwnInv, Backed
    <3>2. dir'.seq \in Nat
      BY <1>2, <3>1
    <3> QED
      BY <1>1, <1>2, <2>2, <3>1, <3>2 DEF Backed
  <2> QED
    BY <2>1, <2>2
<1>11. SeqOnce'
  <2>1. CASE file = None
    BY <1>1, <1>2, <1>4, <2>1 DEF SeqOnce
  <2>2. CASE file # None
    BY <1>1, <1>6, <2>2 DEF OwnInv, SeqOnce
  <2> QED
    BY <2>1, <2>2
<1>12. ASSUME NEW u \in Threads PROVE ThreadOK(u)'
  <2>1. At(u, "put") => dir' = dir /\ file' = file
    BY <1>2, <1>5, <1>6 DEF OwnInv, ThreadOK
  <2>2. At(u, "save") => dir' = dir /\ file' = file
    BY <1>2, <1>5, <1>6 DEF OwnInv, ThreadOK
  <2>3. At(u, "push") =>
          \/ file # None /\ dir' = dir /\ file' = file /\ dir = file /\ work[u].rec = dir
          \/ u = "startup" /\ work[u].rec = None /\ dir' = file'
    BY <1>2, <1>5, <1>6 DEF OwnInv, ThreadOK
  <2>4. (At(u, "put") \/ At(u, "save") => ThreadOK(u)')
    BY <1>1, <2>1, <2>2 DEF OwnInv, ThreadOK, At
  <2>5. At(u, "push") => ThreadOK(u)'
    BY <1>1, <2>3 DEF ThreadOK, At
  <2>6. ~At(u, "put") /\ ~At(u, "save") /\ ~At(u, "push") => ThreadOK(u)'
    BY <1>1 DEF ThreadOK, At
  <2> QED
    BY <2>4, <2>5, <2>6
<1>13. CommandOK'
  <2>1. At("command", "put") \/ At("command", "save") => dir' = file /\ file' = file
    BY <1>6 DEF OwnInv, CommandOK
  <2>2. At("command", "push") => dir' = file /\ file' = file
    BY <1>2, <1>5, <1>6 DEF OwnInv, CommandOK
  <2> QED
    BY <1>1, <2>1, <2>2 DEF OwnInv, CommandOK, At
<1>14. Fresh'
  <2>1. CASE file = None
    <3>1. held = 0 /\ dir'.gen <= issued /\ file'.gen <= issued /\ dir'.gen \in Nat /\ file'.gen \in Nat
      BY <1>2, <1>4, <2>1 DEF OwnInv, Fresh
    <3> QED
      BY <1>1, <1>2, <3>1 DEF OwnInv, Fresh, Busy
  <2>2. CASE file # None
    <3>1. /\ file' = file /\ dir' \in {dir, file} /\ dir' # None
      BY <1>6, <2>2
    <3> QED
      BY <1>1, <3>1 DEF OwnInv, Fresh, Busy
  <2> QED
    BY <2>1, <2>2
<1> QED
  BY <1>7, <1>8, <1>9, <1>10, <1>11, <1>12, <1>13, <1>14 DEF OwnInv

-----------------------------------------------------------------------------
(* The daemon starts and stops, the world moves.                           *)

LEMMA Starting ==
  ASSUME OwnInv, Start
  PROVE  OwnInv'
<1>1. /\ UNCHANGED <<file, anchor, work, held, renewed, issued, live, real>>
      /\ started = "down" /\ started' = "starting" /\ dir' = file
  BY DEF Start, world
<1>2. /\ \A u \in Threads : ~Busy(u) /\ work[u] = Idle
      /\ dir = None /\ ~renewed /\ ~(held > 0)
  BY <1>1 DEF OwnInv, Alone, Busy, Fresh
<1>3. TypesOK'
  BY <1>1 DEF OwnInv, TypesOK
<1>4. Alone'
  BY <1>1, <1>2, Names DEF OwnInv, Alone, Busy, At
<1>5. Settled' /\ Backed' /\ SeqOnce'
  BY <1>1 DEF OwnInv, Settled, Backed, SeqOnce
<1>6. \A u \in Threads : ThreadOK(u)'
  BY <1>1, <1>2, Names DEF ThreadOK, At
<1>7. CommandOK'
  BY <1>1 DEF OwnInv, CommandOK, At
<1>8. Fresh'
  BY <1>1, <1>2 DEF OwnInv, Fresh, Busy
<1> QED
  BY <1>3, <1>4, <1>5, <1>6, <1>7, <1>8 DEF OwnInv

LEMMA Stopping ==
  ASSUME OwnInv, Stop
  PROVE  OwnInv'
<1>1. /\ UNCHANGED <<file, anchor, issued, live, real>>
      /\ started' = "down" /\ dir' = None /\ held' = 0 /\ ~renewed'
      /\ work' = [t \in Publishers |-> IF t = "command" THEN work[t] ELSE Idle]
  BY DEF Stop, Stopped
<1>2. /\ \A u \in Threads : work'[u] = Idle
      /\ work'["command"] = work["command"]
      /\ work' \in [Publishers -> [at : {"idle", "put", "save", "push"}, rec : Rec]]
  BY <1>1, Names DEF OwnInv, TypesOK
<1>3. TypesOK'
  BY <1>1, <1>2, Names DEF OwnInv, TypesOK
<1>4. Alone'
  <2>1. \A u \in Publishers : Busy(u)' => u = "command" /\ Busy("command")
    BY <1>2, Names DEF Busy
  <2>2. Busy("command") => ~At("command", "idle")
    BY Names DEF OwnInv, Alone
  <2> QED
    BY <1>1, <1>2, <2>1, <2>2, Names DEF Alone, At
<1>5. Settled' /\ Backed'
  BY <1>1 DEF OwnInv, Settled, Backed
<1>6. SeqOnce'
  <2>1. /\ file \in Rec /\ anchor \in Rec /\ anchor.seq > 0 /\ None.seq = 0
        /\ file # None => file.seq > 0
    BY Names DEF OwnInv, TypesOK, Backed, Rec
  <2> QED
    BY <1>1, <2>1 DEF OwnInv, SeqOnce
<1>7. \A u \in Threads : ThreadOK(u)'
  BY <1>2, Names DEF ThreadOK, At
<1>8. CommandOK'
  BY <1>1, <1>2 DEF OwnInv, CommandOK, At
<1>9. Fresh'
  <2>1. \A u \in Publishers : work'[u].rec.gen <= issued
    BY <1>2, Names DEF OwnInv, Fresh, TypesOK
  <2>2. ~Busy("renewal")' /\ issued \in Nat
    BY <1>2, Names DEF Busy, OwnInv, TypesOK
  <2> QED
    BY <1>1, <2>1, <2>2, Names DEF OwnInv, Fresh
<1> QED
  BY <1>3, <1>4, <1>5, <1>6, <1>7, <1>8, <1>9 DEF OwnInv

LEMMA Losing ==
  ASSUME OwnInv, LoseFile
  PROVE  OwnInv'
<1>1. /\ UNCHANGED <<dir, held, renewed, started, anchor, work, issued, live, real>>
      /\ started = "down" /\ file' = None /\ At("command", "idle")
  BY DEF LoseFile, daemon
<1>2. /\ \A u \in Publishers : ~Busy(u) /\ work[u] = Idle
      /\ dir = None /\ ~renewed
  BY <1>1, Names DEF OwnInv, Alone, Busy, Fresh
<1>3. TypesOK'
  BY <1>1, Names DEF OwnInv, TypesOK
<1>4. Alone'
  BY <1>1 DEF OwnInv, Alone, Busy, At
<1>5. Settled' /\ Backed'
  BY <1>1, <1>2 DEF OwnInv, Settled, Backed
<1>6. SeqOnce'
  BY <1>1, <1>2, Names DEF OwnInv, SeqOnce, Backed
<1>7. CommandOK' /\ \A u \in Threads : ThreadOK(u)'
  BY <1>1, <1>2, Names DEF CommandOK, ThreadOK, At
<1>8. Fresh'
  <2>1. issued \in Nat
    BY DEF OwnInv, TypesOK
  <2> QED
    BY <1>1, <1>2, <2>1, Names DEF OwnInv, Fresh, Busy
<1> QED
  BY <1>3, <1>4, <1>5, <1>6, <1>7, <1>8 DEF OwnInv

\* What the network, the address and the links do touches no record.
LEMMA Moving ==
  ASSUME OwnInv,
         UNCHANGED <<dir, file, anchor, work, held, renewed, started, issued>>,
         live' \in Nat, real' \in Addr
  PROVE  OwnInv'
<1>1. TypesOK' /\ Alone' /\ Settled'
  BY DEF OwnInv, TypesOK, Alone, Settled, Busy, At
<1>2. Backed' /\ SeqOnce' /\ CommandOK'
  BY DEF OwnInv, Backed, SeqOnce, CommandOK, At
<1>3. \A u \in Threads : ThreadOK(u)'
  BY DEF OwnInv, ThreadOK, At
<1>4. Fresh'
  BY DEF OwnInv, Fresh, Busy
<1> QED
  BY <1>1, <1>2, <1>3, <1>4 DEF OwnInv

LEMMA StepKeeps ==
  ASSUME OwnInv, Undisturbed, [Next]_vars
  PROVE  OwnInv'
<1>0. live \in Nat /\ real \in Addr
  BY DEF OwnInv, TypesOK
<1>1. CASE RenewCredential \/ Retry \/ PublishLinks \/ Readvertise \/ HonorConfig \/ RunCommand
  BY <1>1, Publications
<1>2. CASE FinishCommand \/ Pull \/ Start
  BY <1>2, Finishing, Pulling, Starting
<1>3. CASE \E t \in Publishers : Step(t)
  BY <1>3, Putting, Saving, Pushing DEF Step
<1>4. CASE Stop \/ LoseFile
  BY <1>4, Stopping, Losing
<1>5. CASE CutOff \/ Reach
  BY <1>0, <1>5, Moving DEF CutOff, Reach, daemon
<1>6. CASE Change
  <2>1. live' \in Nat /\ real' \in Addr
    BY <1>0, <1>6 DEF Change
  <2> QED
    BY <1>6, <2>1, Moving DEF Change, daemon
<1>7. CASE UNCHANGED vars
  BY <1>0, <1>7, Moving DEF vars
<1> QED
  BY <1>1, <1>2, <1>3, <1>4, <1>5, <1>6, <1>7 DEF Next

THEOREM OwnInvariant == Spec => [](Undisturbed => OwnInv)
<1> DEFINE Inv == Undisturbed => OwnInv
<1>1. Init => Inv
  BY InitOwn
<1>2. Inv /\ [Next]_vars => Inv'
  BY StepKeeps
<1>3. Spec => []Inv
  BY <1>1, <1>2, PTL DEF Spec
<1> QED
  BY <1>3

\* The copies of the node's own record compose: while publications do not
\* overlap, no two different records of it carry one seq, whatever is lost and
\* however often the daemon stops (_republish_own_record, merge).
THEOREM RecordsCompose == Spec => [](Undisturbed => SeqOnce)
<1>1. (Undisturbed => OwnInv) => (Undisturbed => SeqOnce)
  BY DEF OwnInv
<1> QED
  BY <1>1, OwnInvariant, PTL

\* A renewal that succeeded is served: while publications do not overlap, the
\* holder has the credential the loop believes published, or a later one
\* (renewal.py, _renew_and_publish).
THEOREM RenewalIsServed == Spec => [](Undisturbed => Served)
<1>1. (Undisturbed => OwnInv) => (Undisturbed => Served)
  BY DEF OwnInv, Fresh, Served
<1> QED
  BY <1>1, OwnInvariant, PTL

\* While no two publications overlap, Directory.save precedes push_record: a file
\* that is there is no older than what a holder was told, so that a restarted
\* daemon signs no seq again.  The threads and the commands of the code keep
\* nobody from overlapping (Undisturbed is a premise).
THEOREM ToldIsOnDisk == Spec => [](Undisturbed => OnDisk)
<1>1. (Undisturbed => OwnInv) => (Undisturbed => OnDisk)
  BY DEF OwnInv, Backed, OnDisk
<1> QED
  BY <1>1, OwnInvariant, PTL

-----------------------------------------------------------------------------
(* The credential the holder serves.                                       *)

\* Nothing the node can publish carries an older credential than the holder has.
Covered ==
    /\ file # None => anchor.gen <= file.gen
    /\ dir # None => anchor.gen <= dir.gen
    /\ \A t \in Publishers : work[t].rec # None => anchor.gen <= work[t].rec.gen

\* A publication begins with a credential the holder may have, or a later one.
LEMMA BeginningCovered ==
  ASSUME OwnInv, Covered,
         RenewCredential \/ Retry \/ PublishLinks \/ Readvertise \/ HonorConfig \/ RunCommand
  PROVE  Covered' /\ anchor' = anchor
<1>0. /\ dir \in Rec /\ file \in Rec /\ held \in Nat /\ issued \in Nat /\ live \in Nat
      /\ real \in Addr /\ Configured \in Addr /\ anchor.gen \in Nat
      /\ issued + 1 \in Nat /\ anchor.gen <= issued + 1
  BY DEF OwnInv, TypesOK, Fresh, Rec
<1>1. UNCHANGED <<dir, file, anchor>>
  BY DEF RenewCredential, Retry, PublishLinks, Readvertise, HonorConfig, RunCommand, daemon, world
<1>2. ASSUME NEW t \in Publishers, NEW step, NEW r, Goto(t, step, r),
             r # None => anchor.gen <= r.gen
      PROVE  Covered'
  BY <1>1, <1>2 DEF Covered, Goto, OwnInv, TypesOK
<1>3. CASE RenewCredential
  <2>1. Goto("renewal", "put", Anew(dir, issued + 1, Configured))
    BY <1>3 DEF RenewCredential, Begin, Anew
  <2>2. Anew(dir, issued + 1, Configured).gen = issued + 1
    BY <1>0, AnewFollows
  <2> QED
    BY <1>0, <1>1, <1>2, <2>1, <2>2, Names
<1>4. CASE Retry
  <2>1. Goto("renewal", "put", Anew(dir, held, Configured)) /\ held > anchor.gen
    BY <1>4 DEF Retry, Begin, Anew
  <2>2. Anew(dir, held, Configured).gen = held
    BY <1>0, AnewFollows
  <2>3. anchor.gen <= held
    BY <1>0, <2>1
  <2> QED
    BY <1>1, <1>2, <2>1, <2>2, <2>3, Names
<1>5. CASE PublishLinks
  <2>1. Goto("reconcile", "put", [NextOf(dir) EXCEPT !.links = live]) /\ dir # None
    BY <1>5 DEF PublishLinks, Begin, Known
  <2>2. [NextOf(dir) EXCEPT !.links = live].gen = dir.gen
    BY <1>0, Successor
  <2>3. anchor.gen <= dir.gen
    BY <2>1 DEF Covered
  <2>4. "reconcile" \in Publishers
    BY DEF Publishers, Threads
  <2> QED
    BY <1>1, <1>2, <2>1, <2>2, <2>3, <2>4
<1>6. CASE Readvertise
  <2>1. Goto("endpoints", "put", [NextOf(dir) EXCEPT !.addr = real]) /\ dir # None
    BY <1>6 DEF Readvertise, Begin, Known
  <2>2. [NextOf(dir) EXCEPT !.addr = real].gen = dir.gen
    BY <1>0, Successor
  <2>3. anchor.gen <= dir.gen
    BY <2>1 DEF Covered
  <2>4. "endpoints" \in Publishers
    BY DEF Publishers, Threads
  <2> QED
    BY <1>1, <1>2, <2>1, <2>2, <2>3, <2>4
<1>7. CASE HonorConfig
  <2>1. CASE dir # None /\ dir.addr # Configured
    <3>1. Goto("startup", "put", [NextOf(dir) EXCEPT !.addr = Configured])
      BY <1>7, <2>1 DEF HonorConfig, Begin
    <3>2. [NextOf(dir) EXCEPT !.addr = Configured].gen = dir.gen
      BY <1>0, Successor
    <3>3. anchor.gen <= dir.gen
      BY <2>1 DEF Covered
    <3> QED
      BY <1>1, <1>2, <3>1, <3>2, <3>3, Names
  <2>2. CASE ~(dir # None /\ dir.addr # Configured)
    <3>1. Goto("startup", "push", dir)
      BY <1>7, <2>2 DEF HonorConfig
    <3>2. dir # None => anchor.gen <= dir.gen
      BY DEF Covered
    <3> QED
      BY <1>1, <1>2, <3>1, <3>2, Names
  <2> QED
    BY <2>1, <2>2
<1>8. CASE RunCommand
  <2>1. Goto("command", "put", [NextOf(file) EXCEPT !.gen = issued + 1])
    BY <1>8 DEF RunCommand, Begin
  <2>2. [NextOf(file) EXCEPT !.gen = issued + 1].gen = issued + 1
    BY <1>0, Successor
  <2> QED
    BY <1>0, <1>1, <1>2, <2>1, <2>2, Names
<1> QED
  BY <1>3, <1>4, <1>5, <1>6, <1>7, <1>8

\* What is put and saved is what was signed; what is pushed, everybody here has.
LEMMA StepCovered ==
  ASSUME OwnInv, Covered, NEW t \in Publishers, Put(t) \/ Save(t) \/ Push(t) \/ FinishCommand
  PROVE  Covered' /\ anchor'.gen >= anchor.gen
<1>0. /\ anchor \in Rec /\ anchor.gen \in Nat /\ anchor.seq > 0
      /\ \A u \in Publishers : work[u].rec \in Rec /\ work[u].rec.gen \in Nat
      /\ work \in [Publishers -> [at : {"idle", "put", "save", "push"}, rec : Rec]]
  BY DEF OwnInv, TypesOK, Rec, Backed
<1>1. CASE Put(t)
  <2>1. /\ \A u \in Publishers : work'[u].rec = work[u].rec
        /\ dir' \in {dir, work[t].rec} /\ UNCHANGED <<file, anchor>>
    BY <1>0, <1>1 DEF Put, Goto, world
  <2> QED
    BY <1>0, <2>1 DEF Covered
<1>2. CASE Save(t)
  <2>1. /\ \A u \in Publishers : work'[u].rec = work[u].rec
        /\ file' \in {dir, work[t].rec} /\ UNCHANGED <<dir, anchor>>
    BY <1>0, <1>2 DEF Save, Goto, Saved, daemon, world
  <2> QED
    BY <1>0, <2>1 DEF Covered
<1>3. ASSUME NEW u \in Publishers, At(u, "push"), dir' \in {dir, None}, file' = file,
             anchor' = Higher(anchor, work[u].rec) \/ anchor' = anchor,
             \A v \in Publishers : work'[v].rec = None,
             u = "command" => dir' = None
      PROVE  Covered' /\ anchor'.gen >= anchor.gen
  <2>1. CASE anchor' = anchor
    BY <1>0, <1>3, <2>1 DEF Covered
  <2>2. CASE anchor' = work[u].rec /\ work[u].rec.seq > anchor.seq
    <3>1. work[u].rec # None
      BY <1>0, <2>2, Names DEF Rec
    <3>2. file = work[u].rec /\ (u # "command" => dir = work[u].rec)
      <4>1. CASE u = "command"
        BY <1>3, <4>1 DEF OwnInv, CommandOK
      <4>2. CASE u # "command"
        <5>1. ThreadOK(u)
          BY <4>2, Names DEF OwnInv
        <5> QED
          BY <1>3, <3>1, <4>2, <5>1 DEF ThreadOK
      <4> QED
        BY <4>1, <4>2
    <3>3. anchor.gen <= work[u].rec.gen
      BY <3>1 DEF Covered
    <3> QED
      BY <1>0, <1>3, <2>2, <3>2, <3>3 DEF Covered
  <2> QED
    BY <1>3, <2>1, <2>2 DEF Higher
<1>4. CASE Push(t)
  <2>1. /\ At(t, "push") /\ t # "command" /\ UNCHANGED <<dir, file>>
        /\ work' = [work EXCEPT ![t] = Idle]
        /\ anchor' = Higher(anchor, work[t].rec) \/ anchor' = anchor
    BY <1>4 DEF Push
  <2>2. Busy(t)
    BY <2>1, Names DEF Busy, At
  <2>3. \A v \in Publishers : work'[v].rec = None
    BY <1>0, <2>1, <2>2, Others, Names
  <2> QED
    BY <1>3, <2>1, <2>3
<1>5. CASE FinishCommand
  <2>1. /\ At("command", "push") /\ dir' = None /\ file' = file
        /\ work' = [v \in Publishers |-> Idle]
        /\ anchor' = Higher(anchor, work["command"].rec) \/ anchor' = anchor
    BY <1>5 DEF FinishCommand, AfterCommand, Stopped
  <2>2. \A v \in Publishers : work'[v].rec = None
    BY <2>1, Names
  <2> QED
    BY <1>3, <2>1, <2>2, Names
<1> QED
  BY <1>1, <1>2, <1>4, <1>5

\* The rest copies what is there, forgets it, or leaves it alone.
LEMMA CoveredNext ==
  ASSUME OwnInv, Undisturbed, Covered, [Next]_vars
  PROVE  Covered' /\ anchor'.gen >= anchor.gen
<1>0. /\ anchor.gen \in Nat
      /\ work \in [Publishers -> [at : {"idle", "put", "save", "push"}, rec : Rec]]
  BY DEF OwnInv, TypesOK, Rec
<1>1. ASSUME anchor' = anchor, dir' \in {dir, file, anchor, None},
             file' \in {dir, file, anchor, None},
             \A t \in Publishers : work'[t].rec \in {work[t].rec, None}
      PROVE  Covered' /\ anchor'.gen >= anchor.gen
  BY <1>0, <1>1 DEF Covered
<1>2. CASE Pull
  BY <1>1, <1>2 DEF Pull, Higher, world
<1>3. CASE Stop
  BY <1>0, <1>1, <1>3, Names DEF Stop, Stopped
<1>4. CASE Start \/ LoseFile \/ CutOff \/ Reach \/ Change \/ UNCHANGED vars
  BY <1>1, <1>4 DEF Start, LoseFile, CutOff, Reach, Change, daemon, world, vars
<1>5. CASE \/ RenewCredential \/ Retry \/ PublishLinks \/ Readvertise \/ HonorConfig
           \/ RunCommand
  BY <1>0, <1>5, BeginningCovered
<1>6. CASE FinishCommand \/ \E t \in Publishers : Step(t)
  BY <1>6, StepCovered, Names DEF Step
<1> QED
  BY <1>2, <1>3, <1>4, <1>5, <1>6 DEF Next

\* While publications do not overlap, the holder never goes back to an older
\* credential of the node, although it compares only seq, and although a retry
\* signs the credential the loop held before (renewal.py, _republish_own_record).
THEOREM CredentialNeverBack == Undisturbed => (Spec => GenGrows)
<1> SUFFICES ASSUME Undisturbed PROVE Spec => GenGrows
  OBVIOUS
<1> DEFINE Grows == anchor'.gen >= anchor.gen
<1>1. Init => OwnInv /\ Covered
  BY InitOwn DEF Init, Covered, Joined, None, Idle
<1>2. OwnInv /\ Covered /\ [Next]_vars => (OwnInv /\ Covered)'
  BY CoveredNext, StepKeeps
<1>3. OwnInv /\ Covered /\ [Next]_vars => Grows
  BY CoveredNext
<1>4. Grows => [Grows]_anchor
  OBVIOUS
<1> HIDE DEF Grows
<1>5. Spec => [][Grows]_anchor
  BY <1>1, <1>2, <1>3, <1>4, PTL DEF Spec
<1> QED
  BY <1>5 DEF GenGrows, Grows

-----------------------------------------------------------------------------
(***************************************************************************)
(* Staying alive (Renewal): for every length of a credential's life, every *)
(* jitter below the watchdog's margin, every threshold and every ladder of *)
(* retries, and however often the daemon stops, ends or starts.            *)
(***************************************************************************)
HIDE OwnRecordAssumption

\* Nothing is left of a fault: each thread runs and has its turn in each tick, a
\* holder answers, and the credential is renewed at its latest point.
Punctual ==
    /\ AllRun /\ reachable /\ cached /\ attempt = 0 /\ pause = 0
    /\ age <= Half + Jitter
    /\ "renewal" \in turns => age < Half + Jitter
    /\ \A l \in {"reconcile", "sync"} :
         silent[l] <= 1 /\ (l \in turns => silent[l] = 0)

\* InTime and SparesHealthy look at the moment a credential or a daemon ends;
\* Punctual says what keeps both away from it.  A daemon that started without
\* its own record has no renewal loop, so nothing calls it punctual.
RenewalInv ==
    /\ RenewalTypeOK
    /\ ~alive => turns = {}
    /\ alive /\ ~cached => loops["renewal"] = "absent"
    /\ ~excused => Punctual
    /\ SparesHealthy

LEMMA RenewalNumbers ==
         /\ Life \in Nat /\ Jitter \in Nat /\ Margin \in Nat
         /\ Half \in Nat /\ Half >= 1
         /\ TooOld \in Nat /\ Half + Jitter < TooOld /\ TooOld < Life
         /\ Long \in Nat /\ Long >= 2 /\ Threshold \in Nat /\ Threshold >= 1
         /\ Half \in Points
         /\ MaxMishaps \in Nat
<1>1. /\ Life \in Nat /\ Jitter \in Nat /\ Margin \in Nat /\ Jitter < Margin
      /\ (Life \div 2) + Margin < Life /\ Threshold \in Nat \ {0} /\ MaxMishaps \in Nat
      /\ Ladder \in Seq(Nat) /\ Ladder # <<>>
  BY RenewalAssumption
<1>2. Half \in Nat /\ Half >= 1 /\ Half + Margin < Life
  BY <1>1 DEF Half
<1>3. TooOld \in Nat /\ Half + Jitter < TooOld /\ TooOld < Life
  BY <1>1, <1>2 DEF TooOld
<1>4. Half \in Points
  BY <1>1, <1>2 DEF Points
<1> QED
  BY <1>1, <1>2, <1>3, <1>4 DEF Long

\* The ladder has a first rung, each attempt has a rung, and the count wraps.
LEMMA LadderSteps ==
         /\ 0 \in 0..(Len(Ladder) - 1)
         /\ \A i \in 0..(Len(Ladder) - 1) :
              /\ Ladder[i + 1] \in Nat
              /\ (i + 1) % Len(Ladder) \in 0..(Len(Ladder) - 1)
<1> DEFINE n == Len(Ladder)
<1>1. Ladder \in Seq(Nat) /\ Ladder # <<>>
  BY RenewalAssumption
<1>2. n \in Nat /\ n >= 1
  BY <1>1
<1>3. \A i \in 0..(n - 1) : Ladder[i + 1] \in Nat
  BY <1>1, <1>2
<1> HIDE DEF n
<1>4. \A i \in 0..(n - 1) : (i + 1) % n \in 0..(n - 1)
  BY <1>2
<1>5. 0 \in 0..(n - 1)
  BY <1>2
<1> QED
  BY <1>3, <1>4, <1>5 DEF n

LEMMA RenewalInitHolds == RenewalInit => RenewalInv
<1> SUFFICES ASSUME RenewalInit PROVE RenewalInv
  OBVIOUS
<1>1. AllRun
  BY DEF RenewalInit, AllRun
<1>2. RenewalTypeOK
  <2>1. 0 \in 0..Life /\ 0 \in 0..Long /\ 0 \in 0..MaxMishaps
    BY RenewalNumbers
  <2> QED
    BY <2>1, LadderSteps DEF RenewalInit, RenewalTypeOK, Turns, Loops
<1>3. Punctual
  BY <1>1, RenewalNumbers DEF RenewalInit, Punctual
<1> QED
  BY <1>2, <1>3 DEF RenewalInit, RenewalInv, SparesHealthy

\* A turn of the renewal loop: wait, renew, or fail when no holder answers.
LEMMA RenewKeeps ==
  ASSUME RenewalInv, Renew
  PROVE  RenewalInv'
<1>0. /\ RenewalTypeOK /\ alive /\ "renewal" \notin turns
      /\ loops["renewal"] = "run" /\ turns' = turns \cup {"renewal"}
      /\ UNCHANGED <<silent, up, loops, reachable, alive, excused, ended, mishaps>>
  BY DEF RenewalInv, Renew, TakeTurn, Loops
<1>1. cached
  BY <1>0 DEF RenewalInv
<1>2. CASE /\ pause > 0 /\ pause' = pause - 1
           /\ UNCHANGED <<age, attempt, hint, woken, cached>>
  <2>1. RenewalTypeOK'
    BY <1>0, <1>2 DEF RenewalTypeOK, Turns, Loops
  <2>2. excused
    BY <1>2 DEF RenewalInv, Punctual, RenewalTypeOK
  <2> QED
    BY <1>0, <1>1, <1>2, <2>1, <2>2 DEF RenewalInv, SparesHealthy
<1>3. CASE /\ pause = 0 /\ attempt = 0
           /\ ~woken /\ \E p \in Points : ~Due(p)
           /\ UNCHANGED <<age, attempt, pause, hint, woken, cached>>
  <2>1. RenewalTypeOK'
    BY <1>0, <1>3 DEF RenewalTypeOK, Turns, Loops
  <2>2. age < Half + Jitter
    BY <1>0, <1>3, RenewalNumbers DEF Due, Points, RenewalTypeOK
  <2>3. ASSUME ~excused PROVE Punctual'
    BY <1>0, <1>3, <2>2, <2>3 DEF RenewalInv, Punctual, AllRun
  <2> QED
    BY <1>0, <1>1, <1>3, <2>1, <2>3 DEF RenewalInv, SparesHealthy
<1>4. CASE woken' = (woken /\ attempt > 0) /\ Succeed
  <2>1. RenewalTypeOK'
    BY <1>0, <1>4, RenewalNumbers, LadderSteps
       DEF RenewalTypeOK, Turns, Loops, Succeed
  <2>2. ASSUME ~excused PROVE Punctual'
    BY <1>0, <1>4, <2>2, RenewalNumbers DEF RenewalInv, Punctual, AllRun, Succeed
  <2> QED
    BY <1>0, <1>4, <2>1, <2>2 DEF RenewalInv, SparesHealthy, Succeed
<1>5. CASE woken' = (woken /\ attempt > 0) /\ Fail
  <2>1. attempt' \in 0..(Len(Ladder) - 1) /\ pause' \in Nat
    BY <1>0, <1>5, LadderSteps DEF Fail, NextAttempt, RenewalTypeOK
  <2>2. RenewalTypeOK'
    BY <1>0, <1>5, <2>1 DEF RenewalTypeOK, Turns, Loops, Fail
  <2>3. excused
    BY <1>5 DEF Fail, RenewalInv, Punctual
  <2> QED
    BY <1>0, <1>1, <1>5, <2>2, <2>3 DEF RenewalInv, SparesHealthy, Fail
<1> QED
  BY <1>2, <1>3, <1>4, <1>5 DEF Renew

\* A push that is lost excuses the daemon until it is in order again.
LEMMA UnpushedKeeps ==
  ASSUME RenewalInv, Unpushed
  PROVE  RenewalInv'
<1>1. /\ RenewalTypeOK /\ alive /\ turns' = turns \cup {"renewal"} /\ excused' = TRUE
      /\ age' = 0 /\ cached' = TRUE /\ hint' = "none" /\ reachable' = FALSE
      /\ woken' = (woken /\ attempt > 0)
      /\ UNCHANGED <<silent, up, loops, alive, ended>>
  BY DEF RenewalInv, Unpushed, TakeTurn
<1>2. attempt' \in 0..(Len(Ladder) - 1) /\ pause' \in Nat
  BY <1>1, LadderSteps DEF Unpushed, NextAttempt, RenewalTypeOK
<1>3. mishaps' \in 0..MaxMishaps
  BY <1>1, RenewalNumbers DEF Unpushed, RenewalTypeOK
<1>4. RenewalTypeOK'
  <2>1. turns' \subseteq Turns /\ age' \in 0..Life
    BY <1>1, RenewalNumbers DEF RenewalTypeOK, Turns, Loops
  <2>2. woken' \in BOOLEAN
    BY <1>1
  <2>3. excused' \in BOOLEAN /\ cached' \in BOOLEAN /\ reachable' \in BOOLEAN
    BY <1>1
  <2> QED
    BY <1>1, <1>2, <1>3, <2>1, <2>2, <2>3 DEF RenewalTypeOK
<1> QED
  BY <1>1, <1>4 DEF RenewalInv, SparesHealthy

\* A turn of the other loops, and of the timer: they reset a stamp at most.
LEMMA LoopsKeep ==
  ASSUME RenewalInv,
         Timer \/ Reconcile \/ SyncPull \/ Watch
  PROVE  RenewalInv'
<1>0. /\ RenewalTypeOK /\ alive
      /\ UNCHANGED <<age, up, loops, attempt, pause, reachable, alive, excused, ended, mishaps>>
      /\ \E t \in Turns \ {"renewal"} : turns' \in {turns, turns \cup {t}}
  BY DEF RenewalInv, Timer, Reconcile, SyncPull, Watch, TakeTurn, Turns, Loops,
         renewing, clocks
<1>1. /\ silent' \in [{"reconcile", "sync"} -> 0..Long]
      /\ \A l \in {"reconcile", "sync"} :
           \/ silent'[l] = 0
           \/ silent'[l] = silent[l] /\ (reachable /\ l \in turns' => l \in turns)
  <2>1. CASE Timer \/ Watch
    BY <1>0, <2>1 DEF Timer, Watch, TakeTurn, clocks, RenewalTypeOK
  <2>2. CASE Reconcile
    BY <1>0, <2>2, RenewalNumbers DEF Reconcile, TakeTurn, RenewalTypeOK
  <2>3. CASE SyncPull
    BY <1>0, <2>3, RenewalNumbers DEF SyncPull, TakeTurn, RenewalTypeOK
  <2> QED
    BY <2>1, <2>2, <2>3
<1>2. /\ hint' \in {"none", "served", "scheduled", "acted"} /\ woken' \in BOOLEAN
      /\ cached' \in BOOLEAN /\ (cached => cached')
  BY <1>0 DEF Timer, Reconcile, SyncPull, Watch, renewing, RenewalTypeOK
<1>3. RenewalTypeOK'
  BY <1>0, <1>1, <1>2 DEF RenewalTypeOK
<1>4. ASSUME ~excused PROVE Punctual'
  <2>1. Punctual
    BY <1>4 DEF RenewalInv
  <2>2. AllRun' /\ reachable' /\ cached' /\ attempt' = 0 /\ pause' = 0
    BY <1>0, <1>2, <2>1 DEF Punctual, AllRun
  <2>3. age' <= Half + Jitter /\ ("renewal" \in turns' => age' < Half + Jitter)
    BY <1>0, <2>1 DEF Punctual
  <2>4. \A l \in {"reconcile", "sync"} :
          silent'[l] <= 1 /\ (l \in turns' => silent'[l] = 0)
    BY <1>1, <2>1 DEF Punctual
  <2> QED
    BY <2>2, <2>3, <2>4 DEF Punctual, Half
<1> QED
  BY <1>0, <1>2, <1>3, <1>4 DEF RenewalInv, SparesHealthy

\* The end of a daemon: the watchdog's own looks find nothing in a punctual one.
LEMMA EndKeeps ==
  ASSUME RenewalInv, Exit \/ OperatorStop
  PROVE  RenewalInv'
<1>0. /\ RenewalTypeOK /\ Down
      /\ UNCHANGED <<age, silent, up, loops, cached, reachable, excused>>
      /\ mishaps' \in {mishaps, mishaps + 1} /\ (mishaps' # mishaps => mishaps < MaxMishaps)
  BY DEF RenewalInv, Exit, OperatorStop, clocks
<1>1. ended' \in {"wedged", "late", "stopped"}
  <2>1. CASE OperatorStop
    BY <2>1 DEF OperatorStop
  <2>2. CASE Exit
    <3>1. ended' = Reason /\ Stale
      BY <2>2 DEF Exit
    <3>2. ASSUME Reason = "healthy" PROVE FALSE
      <4>1. Punctual
        BY <3>2 DEF Reason, RenewalInv
      <4>2. /\ silent["reconcile"] \in Nat /\ silent["sync"] \in Nat
            /\ silent["reconcile"] <= 1 /\ silent["sync"] <= 1
            /\ age \in Nat /\ up \in Nat
        BY <1>0, <4>1, RenewalNumbers DEF Punctual, RenewalTypeOK
      <4>3. CredentialStale = 0
        BY <4>1, <4>2, RenewalNumbers DEF Punctual, CredentialStale, TooOld
      <4>4. CappedAge <= 1 /\ Least(silent["reconcile"], up) <= 1
        BY <4>2, <4>3 DEF CappedAge, WorstAge, Least, Most
      <4>5. CappedAge \in Nat /\ Least(silent["reconcile"], up) \in Nat
        BY <4>2, <4>3 DEF CappedAge, WorstAge, Least, Most
      <4> HIDE DEF CappedAge, Least
      <4> QED
        BY <3>1, <4>4, <4>5, RenewalNumbers DEF Stale
    <3> QED
      BY <3>1, <3>2 DEF Reason
  <2> QED
    BY <2>1, <2>2
<1>2. RenewalTypeOK'
  <2>1. mishaps' \in 0..MaxMishaps
    BY <1>0, RenewalNumbers DEF RenewalTypeOK
  <2> QED
    BY <1>0, <1>1, <2>1, LadderSteps DEF RenewalTypeOK, Down
<1>3. ASSUME ~excused PROVE Punctual'
  BY <1>0, <1>3 DEF RenewalInv, Punctual, Down, AllRun
<1> QED
  BY <1>0, <1>1, <1>2, <1>3 DEF RenewalInv, SparesHealthy, Down

\* Without the own record a daemon starts without its renewal loop.
LEMMA StartKeeps ==
  ASSUME RenewalInv, ServiceStart
  PROVE  RenewalInv'
<1>0. /\ RenewalTypeOK /\ ~alive /\ alive' /\ up' = 0 /\ turns = {}
      /\ UNCHANGED <<age, silent, attempt, pause, woken, hint, cached, reachable, turns,
                     excused, ended, mishaps>>
      /\ loops' = [l \in Loops |->
                     IF l = "renewal" /\ ~cached THEN "absent" ELSE "run"]
  BY DEF RenewalInv, ServiceStart, renewing
<1>1. RenewalTypeOK'
  BY <1>0, RenewalNumbers DEF RenewalTypeOK, Loops
<1>2. ASSUME ~excused PROVE Punctual'
  BY <1>0, <1>2 DEF RenewalInv, Punctual, AllRun
<1>3. ~cached => loops'["renewal"] = "absent"
  BY <1>0 DEF Loops
<1> QED
  BY <1>0, <1>1, <1>2, <1>3 DEF RenewalInv, SparesHealthy

\* A tick ends when every thread that runs had its turn.
LEMMA TickKeeps ==
  ASSUME RenewalInv, Tick
  PROVE  RenewalInv'
<1>0. /\ RenewalTypeOK /\ alive /\ turns' = {}
      /\ \A t \in Turns : t \in turns \/ (t \in Loops /\ loops[t] # "run")
      /\ age' = Least(age + 1, Life) /\ up' = Least(up + 1, Long)
      /\ silent' = [l \in DOMAIN silent |-> Least(silent[l] + 1, Long)]
      /\ excused' = (excused /\ ~InOrder)
      /\ UNCHANGED <<loops, attempt, pause, woken, hint, cached, reachable, alive, ended, mishaps>>
  BY DEF RenewalInv, Tick, Pass, Running, renewing
<1>1. /\ age \in Nat /\ age <= Life /\ up \in Nat
      /\ silent \in [{"reconcile", "sync"} -> 0..Long]
  BY <1>0, RenewalNumbers DEF RenewalTypeOK
<1>2. age' \in 0..Life /\ age' <= age + 1 /\ up' \in 0..Long
  BY <1>0, <1>1, RenewalNumbers DEF Least
<1>3. /\ silent' \in [{"reconcile", "sync"} -> 0..Long]
      /\ \A l \in {"reconcile", "sync"} : silent'[l] <= silent[l] + 1
  <2>1. \A l \in {"reconcile", "sync"} :
          /\ Least(silent[l] + 1, Long) \in 0..Long
          /\ Least(silent[l] + 1, Long) <= silent[l] + 1
    BY <1>1, RenewalNumbers DEF Least
  <2> QED
    BY <1>0, <1>1, <2>1
<1>4. RenewalTypeOK'
  BY <1>0, <1>2, <1>3 DEF RenewalTypeOK
<1>5. ASSUME ~excused' PROVE Punctual'
  <2>1. /\ AllRun /\ reachable /\ cached /\ attempt = 0 /\ pause = 0
        /\ age < Half + Jitter
        /\ silent["reconcile"] = 0 /\ silent["sync"] = 0
    <3>1. CASE ~excused
      <4>1. Punctual
        BY <3>1 DEF RenewalInv
      <4>2. Loops \subseteq turns
        BY <1>0, <4>1 DEF Punctual, AllRun, Loops, Turns
      <4> QED
        BY <4>1, <4>2 DEF Punctual, Loops
    <3>2. CASE excused
      <4>1. InOrder
        BY <1>0, <1>5, <3>2
      <4>2. cached
        BY <1>0, <4>1 DEF InOrder, AllRun, Loops, RenewalInv
      <4>3. age < Half
        BY <1>1, <4>1, RenewalNumbers DEF InOrder, Due
      <4>4. DOMAIN silent = {"reconcile", "sync"}
        BY <1>1
      <4> QED
        BY <1>1, <4>1, <4>2, <4>3, <4>4, RenewalNumbers DEF InOrder
    <3> QED
      BY <3>1, <3>2
  <2>2. age' <= Half + Jitter
    BY <1>1, <1>2, <2>1, RenewalNumbers
  <2> QED
    BY <1>0, <1>3, <2>1, <2>2 DEF Punctual, AllRun
<1> QED
  BY <1>0, <1>4, <1>5 DEF RenewalInv, SparesHealthy

\* Faults excuse the daemon until it is in order again; the rest of the world
\* touches nothing it depends on.
LEMMA WorldKeeps ==
  ASSUME RenewalInv,
         Sleep \/ LoseContact \/ Stick \/ LoseCache \/ FindContact \/ RenewAll
  PROVE  RenewalInv'
<1>0. RenewalTypeOK
  BY DEF RenewalInv
<1>1. CASE Sleep \/ LoseContact \/ Stick \/ LoseCache
  <2>1. /\ mishaps < MaxMishaps /\ mishaps' = mishaps + 1 /\ excused'
        /\ UNCHANGED <<attempt, pause, woken, hint, alive, turns, ended, up>>
    BY <1>1 DEF Sleep, LoseContact, Stick, LoseCache, Fault
  <2>2. /\ age' \in 0..Life
        /\ silent' \in [{"reconcile", "sync"} -> 0..Long]
    <3>1. CASE Sleep
      <4>1. PICK n \in {Half, Life} : Pass(n)
        BY <3>1 DEF Sleep
      <4>2. n \in Nat
        BY <4>1, RenewalNumbers
      <4> QED
        <5>1. age \in 0..Life /\ silent \in [{"reconcile", "sync"} -> 0..Long]
          BY <1>0 DEF RenewalTypeOK
        <5>2. age' \in 0..Life
          BY <4>1, <4>2, <5>1, RenewalNumbers DEF Pass, Least
        <5>3. \A l \in {"reconcile", "sync"} : Least(silent[l] + n, Long) \in 0..Long
          BY <4>2, <5>1, RenewalNumbers DEF Least
        <5> QED
          BY <4>1, <5>1, <5>2, <5>3 DEF Pass
    <3>2. CASE LoseContact \/ Stick \/ LoseCache
      BY <1>0, <3>2 DEF LoseContact, Stick, LoseCache, RenewalTypeOK
    <3> QED
      BY <1>1, <3>1, <3>2
  <2>3. /\ loops' \in [Loops -> {"run", "stuck", "absent"}]
        /\ loops["renewal"] = "absent" => loops'["renewal"] = "absent"
    BY <1>0, <1>1 DEF Sleep, LoseContact, Stick, LoseCache, RenewalTypeOK, Loops
  <2>4. /\ cached' \in BOOLEAN /\ reachable' \in BOOLEAN
        /\ (alive /\ ~cached' => ~cached)
    BY <1>0, <1>1 DEF Sleep, LoseContact, Stick, LoseCache, RenewalTypeOK
  <2>5. RenewalTypeOK'
    BY <1>0, <2>1, <2>2, <2>3, <2>4, RenewalNumbers DEF RenewalTypeOK
  <2> QED
    BY <2>1, <2>3, <2>4, <2>5 DEF RenewalInv, SparesHealthy
<1>2. CASE FindContact \/ RenewAll
  <2>1. /\ UNCHANGED <<age, silent, up, loops, attempt, pause, woken, cached, turns,
                       alive, excused, ended, mishaps>>
        /\ reachable' \in BOOLEAN /\ (reachable => reachable') /\ hint' \in {"none", "served", "scheduled", "acted"}
    BY <1>0, <1>2 DEF FindContact, RenewAll, clocks, renewing, RenewalTypeOK
  <2>2. RenewalTypeOK'
    BY <1>0, <2>1 DEF RenewalTypeOK
  <2>3. ASSUME ~excused PROVE Punctual'
    BY <2>1, <2>3 DEF RenewalInv, Punctual, AllRun
  <2> QED
    BY <2>1, <2>2, <2>3 DEF RenewalInv, SparesHealthy
<1> QED
  BY <1>1, <1>2

LEMMA RenewalStepKeeps ==
  RenewalInv /\ [RenewalNext]_renewalVars => RenewalInv'
<1> SUFFICES ASSUME RenewalInv, [RenewalNext]_renewalVars PROVE RenewalInv'
  OBVIOUS
<1>1. CASE RenewalNext
  BY <1>1, RenewKeeps, UnpushedKeeps, LoopsKeep, EndKeeps, StartKeeps, TickKeeps, WorldKeeps
     DEF RenewalNext, Daemon, World
<1>2. CASE UNCHANGED renewalVars
  BY <1>2 DEF renewalVars, RenewalInv, RenewalTypeOK, SparesHealthy, Punctual, AllRun
<1> QED
  BY <1>1, <1>2

LEMMA RenewalInvHolds == RenewalSpec => []RenewalInv
<1>1. RenewalInit => RenewalInv
  BY RenewalInitHolds
<1>2. RenewalInv /\ [RenewalNext]_renewalVars => RenewalInv'
  BY RenewalStepKeeps
<1> QED
  BY <1>1, <1>2, PTL DEF RenewalSpec

\* A credential that runs out has an excuse: the host slept, was cut off, lost its
\* record or had a stuck thread, and is not in order since.  Restarts, early
\* hints and any jitter below the margin are no excuse (renewal.py _next_delay).
THEOREM RenewedInTime == RenewalSpec => []InTime
<1>1. RenewalInv => InTime
  <2> SUFFICES ASSUME RenewalInv, ~excused PROVE age # Life
    BY DEF InTime
  <2>1. age <= Half + Jitter /\ age \in 0..Life
    BY DEF RenewalInv, RenewalTypeOK, Punctual
  <2> QED
    BY <2>1, RenewalNumbers
<1> QED
  BY <1>1, RenewalInvHolds, PTL

\* The watchdog of a host without systemd, and systemd's own, end no daemon whose
\* threads all run and that has neither slept nor lost contact nor its cache since
\* it was last in order (daemon.py _health_age).  One that just woke up may be
\* ended: nothing is said of it.
THEOREM HealthySpared == RenewalSpec => []SparesHealthy
<1>1. RenewalInv => SparesHealthy
  BY DEF RenewalInv
<1> QED
  BY <1>1, RenewalInvHolds, PTL
=============================================================================
