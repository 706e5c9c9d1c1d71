------------------------------ MODULE Renewal ------------------------------
(***************************************************************************)
(* Staying alive: the loop that renews a node's credential half way        *)
(* through its life, its ladder of retries, the hint that makes the whole  *)
(* fleet renew, and the watchdogs that end a daemon whose loops stopped.   *)
(*                                                                         *)
(* Time passes in ticks.  In each tick every thread that is not stuck gets *)
(* a turn; the host may sleep, which moves the wall clock and not the      *)
(* daemon's uptime.  A tick is longer than the reconcile and sync          *)
(* intervals and the pause before a due renewal.                           *)
(***************************************************************************)
EXTENDS Naturals, Sequences

CONSTANTS Life,       \* ticks from a credential's iat to its exp
          Jitter,     \* the spread of the renewal point around half of it
          Margin,     \* what the watchdog allows past that half
          Threshold,  \* ticks of silence the watchdogs allow
          Ladder,     \* the pauses after the failed attempts of one renewal
          Systemd,    \* the service manager listens to the daemon's pings
          MaxMishaps  \* bound: sleeps, lost contacts, stuck threads, lost
                      \* caches, stops

ASSUME RenewalAssumption ==
    /\ Life \in Nat /\ Jitter \in Nat /\ Margin \in Nat
    /\ Threshold \in Nat \ {0} /\ MaxMishaps \in Nat
    /\ Jitter < Margin /\ (Life \div 2) + Margin < Life
    /\ Ladder \in Seq(Nat) /\ Ladder # <<>>
    /\ Systemd \in BOOLEAN

Loops == {"reconcile", "sync", "renewal"}
Turns == Loops \cup {"watchdog"}
Half == Life \div 2
Long == Threshold + 1      \* as long as anything compares a silence with

VARIABLES
    age,      \* ticks since the iat of the credential in the own record
    silent,   \* ticks since the stamps of the last reconcile and the last pull
    up,       \* ticks of uptime, not counting sleep
    loops,    \* what became of each thread: "run", "stuck" or "absent"
    attempt,  \* failed attempts of the renewal under way
    pause,    \* ticks left of its backoff
    hint,     \* the fleet-wide hint, which the credential predates: "none",
              \* "served", "scheduled" with a timer, or "acted" on
    woken,    \* _renew_now
    cached,   \* directory.json holds the own record
    reachable, \* a holder of the CA key can be reached
    turns,    \* the threads that had their turn in this tick
    alive,    \* the daemon runs
    excused,  \* asleep, cut off or stuck, and not yet in order again
    ended,    \* why the last daemon ended
    mishaps

renewalVars == <<age, silent, up, loops, attempt, pause, hint, woken, cached,
                 reachable, turns, alive, excused, ended, mishaps>>
clocks == <<age, silent, up>>
renewing == <<attempt, pause, woken>>

Least(a, b) == IF a < b THEN a ELSE b
Most(a, b) == IF a > b THEN a ELSE b

Running(l) == alive /\ loops[l] = "run"
AllRun == \A l \in Loops : loops[l] = "run"

RenewalInit ==
    /\ age = 0 /\ silent = [l \in {"reconcile", "sync"} |-> 0] /\ up = 0
    /\ loops = [l \in Loops |-> "run"]
    /\ attempt = 0 /\ pause = 0 /\ hint = "none" /\ woken = FALSE
    /\ cached = TRUE /\ reachable = TRUE /\ turns = {} /\ alive = TRUE
    /\ excused = FALSE /\ ended = "none" /\ mishaps = 0

(***************************************************************************)
(* The renewal point is half of the life after the iat, give or take the   *)
(* jitter, drawn again on every wait.  Waits are short, so the wall clock  *)
(* is looked at in each tick.                                              *)
(***************************************************************************)
\* Half of what remains, counted from the start of the wait.
HalfOfTheRest == IF 2 * up + age >= Life + up THEN {age} ELSE {Life + 1}
Points == (Half - Jitter)..(Half + Jitter)

\* A point that passed while the host slept is not missed.
Missed(p) == age = p
Due(p) == age >= p

TakeTurn(t) ==
    /\ alive /\ t \notin turns /\ (t \in Loops => loops[t] = "run")
    /\ turns' = turns \cup {t}

\* The renewal is answered, and the new record is signed and pushed.
Succeed ==
    /\ reachable
    /\ age' = 0 /\ attempt' = 0 /\ pause' = 0 /\ cached' = TRUE
    /\ hint' = "none"

\* After the last attempt the loop waits for its point anew.
NoReset == attempt + 1
NextAttempt == (attempt + 1) % Len(Ladder)

\* No holder answers: back off, and try again.
Fail ==
    /\ ~reachable
    /\ pause' = Ladder[attempt + 1]
    /\ attempt' = NextAttempt
    /\ UNCHANGED <<age, cached, hint>>

Ready == pause = 0 /\ (attempt > 0 \/ woken \/ \E p \in Points : Due(p))

Renew ==
    /\ TakeTurn("renewal")
    /\ \/ /\ pause > 0
          /\ pause' = pause - 1
          /\ UNCHANGED <<age, attempt, hint, woken, cached>>
       \/ /\ pause = 0 /\ attempt = 0
          /\ ~woken /\ \E p \in Points : ~Due(p)
          /\ UNCHANGED <<age, attempt, pause, hint, woken, cached>>
       \/ /\ Ready
          /\ woken' = (woken /\ attempt > 0)
          /\ Succeed \/ Fail
    /\ UNCHANGED <<silent, up, loops, reachable, alive, excused, ended, mishaps>>

\* Contact is lost between the answer and the push: renewed, and tried again.
Unpushed ==
    /\ TakeTurn("renewal") /\ Ready /\ reachable
    /\ mishaps < MaxMishaps /\ mishaps' = mishaps + 1
    /\ reachable' = FALSE /\ excused' = TRUE
    /\ age' = 0 /\ cached' = TRUE /\ hint' = "none"
    /\ woken' = (woken /\ attempt > 0)
    /\ pause' = Ladder[attempt + 1] /\ attempt' = NextAttempt
    /\ UNCHANGED <<silent, up, loops, alive, ended>>

\* The timer set for the hint goes off, once; the thread finds the flag when it
\* waits.  The hint is not acted on again, should the renewal fail.
Timer ==
    /\ alive /\ hint = "scheduled"
    /\ woken' = TRUE /\ hint' = "acted"
    /\ UNCHANGED <<clocks, loops, attempt, pause, cached, reachable, turns,
                   alive, excused, ended, mishaps>>

\* One pass of the reconcile loop: a stamp, and a ping for systemd.
Reconcile ==
    /\ TakeTurn("reconcile")
    /\ silent' = [silent EXCEPT !["reconcile"] = 0]
    /\ UNCHANGED <<age, up, loops, renewing, hint, cached, reachable, alive, excused,
                   ended, mishaps>>

\* One pull: a stamp when a holder answered, and the hint it serves; a lost
\* own record comes back with the holder's directory.
SyncPull ==
    /\ TakeTurn("sync")
    /\ IF reachable
       THEN /\ silent' = [silent EXCEPT !["sync"] = 0]
            /\ hint' = IF hint = "served" /\ loops["renewal"] # "absent" /\ age > 0
                       THEN "scheduled" ELSE hint
            /\ cached' = TRUE
       ELSE UNCHANGED <<silent, hint, cached>>
    /\ UNCHANGED <<age, up, loops, renewing, reachable, alive, excused, ended, mishaps>>

(***************************************************************************)
(* The watchdogs.  Without systemd the daemon looks at its own stamps and  *)
(* at the age of its credential, and takes the worst, at most its uptime.  *)
(* systemd hears the ping of each reconcile pass and nothing else.         *)
(***************************************************************************)
\* Past the renewal point, with a margin the jitter cannot use up.
NoMargin == Half
TooOld == Half + Margin
CredentialStale == IF cached /\ age > TooOld THEN age ELSE 0

WorstAge == Most(CredentialStale, Most(silent["reconcile"], silent["sync"]))
CappedAge == Least(WorstAge, up)

\* The stamps alone: nothing watches the credential.
StampsOnly ==
    Least(Most(silent["reconcile"], silent["sync"]), up) > Threshold

Stale == IF Systemd THEN Least(silent["reconcile"], up) > Threshold
                    ELSE CappedAge > Threshold

Reason == IF ~AllRun THEN "wedged"
          ELSE IF excused THEN "late" ELSE "healthy"

Down ==
    /\ alive' = FALSE /\ turns' = {} /\ attempt' = 0 /\ pause' = 0
    /\ woken' = FALSE
    /\ hint' = IF hint = "none" THEN "none" ELSE "served"

Watch ==
    /\ TakeTurn("watchdog") /\ ~Stale
    /\ UNCHANGED <<clocks, loops, renewing, hint, cached, reachable, alive, excused,
                   ended, mishaps>>

Exit ==
    /\ alive /\ "watchdog" \notin turns /\ Stale
    /\ Down /\ ended' = Reason
    /\ UNCHANGED <<clocks, loops, cached, reachable, excused, mishaps>>

\* An operator stops it, or it is restarted for an upgrade or a command.
OperatorStop ==
    /\ alive /\ mishaps < MaxMishaps /\ mishaps' = mishaps + 1
    /\ Down /\ ended' = "stopped"
    /\ UNCHANGED <<clocks, loops, cached, reachable, excused>>

\* The service manager starts it again; no own record, no renewal loop.
ServiceStart ==
    /\ ~alive
    /\ alive' = TRUE /\ up' = 0
    /\ loops' = [l \in Loops |->
                   IF l = "renewal" /\ ~cached THEN "absent" ELSE "run"]
    /\ UNCHANGED <<age, silent, renewing, hint, cached, reachable, turns, excused,
                   ended, mishaps>>

Pass(n) ==
    /\ age' = Least(age + n, Life)
    /\ silent' = [l \in DOMAIN silent |-> Least(silent[l] + n, Long)]

\* Nothing is left of what an earlier fault did.
InOrder ==
    /\ AllRun /\ reachable /\ attempt = 0 /\ pause = 0
    /\ \A l \in DOMAIN silent : silent[l] = 0
    /\ \A p \in Points : ~Due(p)

Tick ==
    /\ alive /\ \A t \in Turns : t \in turns \/ (t \in Loops /\ ~Running(t))
    /\ Pass(1) /\ up' = Least(up + 1, Long)
    /\ turns' = {}
    /\ excused' = (excused /\ ~InOrder)
    /\ UNCHANGED <<loops, renewing, hint, cached, reachable, alive, ended, mishaps>>

Fault ==
    /\ mishaps < MaxMishaps /\ mishaps' = mishaps + 1
    /\ excused' = TRUE
    /\ UNCHANGED <<attempt, pause, woken, hint, alive, turns, ended, up>>

Sleep ==
    /\ Fault
    /\ \E n \in {Half, Life} : Pass(n)
    /\ UNCHANGED <<loops, cached, reachable>>

LoseContact ==
    /\ Fault /\ reachable /\ reachable' = FALSE
    /\ UNCHANGED <<age, silent, loops, cached>>

Stick ==
    /\ Fault /\ alive
    /\ \E l \in Loops : loops[l] = "run" /\ loops' = [loops EXCEPT ![l] = "stuck"]
    /\ UNCHANGED <<age, silent, cached, reachable>>

\* directory.json is unreadable at the next start.
LoseCache ==
    /\ Fault /\ ~alive /\ cached /\ cached' = FALSE
    /\ UNCHANGED <<age, silent, loops, reachable>>

FindContact ==
    /\ ~reachable /\ reachable' = TRUE
    /\ UNCHANGED <<clocks, loops, renewing, hint, cached, turns, alive, excused,
                   ended, mishaps>>

\* `gw renew-all` or `gw set-roles --now` on a holder.
RenewAll ==
    /\ hint \in {"none", "acted"} /\ age > 0 /\ hint' = "served"
    /\ UNCHANGED <<clocks, loops, renewing, cached, reachable, turns, alive, excused,
                   ended, mishaps>>

Daemon == Renew \/ Timer \/ Reconcile \/ SyncPull \/ Watch \/ Exit \/ ServiceStart \/ Tick
World == OperatorStop \/ Sleep \/ LoseContact \/ Unpushed \/ Stick \/ LoseCache \/ FindContact \/ RenewAll

RenewalNext == Daemon \/ World

RenewalSpec == RenewalInit /\ [][RenewalNext]_renewalVars

\* Threads are scheduled, timers go off, time passes, and a dead daemon is
\* started again; operators and the network owe nothing.
RenewalFairSpec ==
    /\ RenewalSpec
    /\ WF_renewalVars(Renew) /\ WF_renewalVars(Timer) /\ WF_renewalVars(Reconcile) /\ WF_renewalVars(SyncPull)
    /\ WF_renewalVars(Watch) /\ WF_renewalVars(Exit) /\ WF_renewalVars(ServiceStart) /\ WF_renewalVars(Tick)

----------------------------------------------------------------------------

RenewalTypeOK ==
    /\ age \in 0..Life /\ up \in 0..Long
    /\ silent \in [{"reconcile", "sync"} -> 0..Long]
    /\ loops \in [Loops -> {"run", "stuck", "absent"}]
    /\ attempt \in 0..(Len(Ladder) - 1) /\ pause \in Nat
    /\ hint \in {"none", "served", "scheduled", "acted"}
    /\ turns \subseteq Turns /\ mishaps \in 0..MaxMishaps
    /\ woken \in BOOLEAN /\ cached \in BOOLEAN /\ reachable \in BOOLEAN
    /\ alive \in BOOLEAN /\ excused \in BOOLEAN
    /\ ended \in {"none", "wedged", "late", "healthy", "stopped"}

\* A daemon that is restarted however often, by its watchdog or by operators,
\* renews its credential before it runs out, unless it slept, was cut off or
\* had a stuck thread meanwhile (renewal.py _next_delay, loop.py).
InTime == age = Life => excused

\* The watchdog never ends a daemon whose threads all run and that has not
\* slept or lost contact since its last renewal (daemon.py _health_age).
SparesHealthy == ended # "healthy"

\* Once a holder stays reachable the credential is renewed again and again,
\* however many attempts failed before and whatever restarts come between.
Renews == <>[]reachable => []<>(age = 0)

\* Off systemd, and once a holder stays reachable, a thread that is stuck or
\* was never started ends the daemon, and a later one runs it.
Recovers ==
    <>[]reachable => \A l \in Loops : (loops[l] # "run") ~> (loops[l] = "run")

\* What loop.py says of the watchdog: it exits a daemon that stopped making
\* progress, and a daemon that slept gets time for its loops to recover.
ExitsOnlyWedged == ended # "late"
=============================================================================
