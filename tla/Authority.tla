----------------------------- MODULE Authority -----------------------------
(***************************************************************************)
(* Who is an anchor.  The authority is a file (anchorfile.py): a node whose *)
(* data directory holds anchor.gwa serves the control plane from its next   *)
(* start, and the anchor roles in its credential tell the fleet to dial it. *)
(* `gw anchor offer`, `adopt` and `drop` move the file (cli/anchorcmds.py)  *)
(* and decide the roles with a setcaps statement minted on the node itself. *)
(* The roles arrive with a renewal, the statement and the record by pulls.  *)
(*                                                                         *)
(* First is the node `gw create` made, whose root_url is its own loopback   *)
(* address and which stays an anchor; the others joined through it, have    *)
(* its address as root_url and seed, and come and go as holders.            *)
(***************************************************************************)
EXTENDS Naturals, FiniteSets

CONSTANTS Nodes, First,
          Strangers,     \* members that are only named in offers
          Requests,      \* claims that are served at the same time, at most
          MaxNow,        \* seconds that matter: credentials and decisions
          MaxCommands,   \* offers, adoptions, drops and role changes
          MaxFaults,     \* stops of a daemon, aborted commands, lost answers
          MaxRenewals    \* runs of `gw renew`

ASSUME FirstAssumption == First \in Nodes /\ IsFiniteSet(Nodes)
ASSUME StrangersAssumption == Strangers \cap Nodes = {}
ASSUME TimeAssumption == MaxNow \in Nat \ {0}

Joined == Nodes \ {First}

VARIABLES now,
          file,     \* the nodes with anchor.gwa in their data directory
          daemon,   \* what runs: nothing, a member, or a holder, by the file
                    \* found when it started
          log,      \* log[n][m]: the newest setcaps decision about joined m at n
          dir,      \* dir[n][m]: n's copy of the record of joined m
          offer,    \* offer[n]: the outstanding anchor_offer.json of n
          cmd,      \* cmd[n]: the adopt or drop command that runs on n
          reqs,     \* the claims being served, each by a thread of its holder
          minted, taken,   \* offers minted for a node, and answers it opened
          twice,    \* history: the nodes that claimed with two commands at once
          left      \* budgets: [commands, faults, renewals]

offers == <<offer, reqs, minted, taken, twice>>
vars == <<now, file, daemon, log, dir, offers, cmd, left>>

Undecided == [ts |-> 0, role |-> FALSE, made |-> FALSE]
Decision(role) == [ts |-> now, role |-> role, made |-> TRUE]
NoOffer == [to |-> First, fresh |-> FALSE, made |-> FALSE]
NoCmd == [pc |-> "none", ask |-> {}]
NoReq == [pc |-> "none"]

Init ==
    /\ now = 1
    /\ file = {First}
    /\ daemon = [n \in Nodes |-> IF n = First THEN "holder" ELSE "member"]
    /\ log = [n \in Nodes |-> [m \in Joined |-> Undecided]]
    /\ dir = [n \in Nodes |-> [m \in Joined |-> [iat |-> 0, role |-> FALSE]]]
    /\ offer = [n \in Nodes |-> NoOffer]
    /\ cmd = [n \in Joined |-> NoCmd]
    /\ minted = [n \in Joined \cup Strangers |-> 0]
    /\ reqs = [q \in Requests |-> NoReq]
    /\ taken = [n \in Joined |-> 0] /\ twice = {}
    /\ left = [commands |-> MaxCommands, faults |-> MaxFaults, renewals |-> MaxRenewals]

Spend(what) == /\ left[what] > 0
               /\ left' = [left EXCEPT ![what] = @ - 1]

\* cli/_common.py:586, _holds_anchor.
HoldsAnchor(n) == n \in file

Serves(n) == daemon[n] = "holder"

\* ca.py:124, CA._refuse_if_key_stale: the key file is as it was at the start.
Signs(n) == Serves(n) /\ HoldsAnchor(n)

---------------------------------------------------------------------------
(* The daemons.                                                            *)

\* A record is as new as its credential: a node renews once in a second.
Newer(old, r) == IF r.iat > old.iat THEN r ELSE old
Later(old, d) == IF d.ts > old.ts THEN d ELSE old

Discovered(n) == {m \in Joined \ {n} : dir[n][m].role}

\* cli/_common.py:547, _anchor_urls: the configured root first, which answers
\* whenever it serves; then the holders the directory names.
Answering(n) ==
    IF Serves(First) THEN {First} ELSE {m \in Discovered(n) : Serves(m)}

Pull(n) ==
    /\ daemon[n] # "down"
    /\ \E x \in Answering(n) :
         /\ log' = [log EXCEPT ![n] = [m \in Joined |-> Later(log[n][m], log[x][m])]]
         /\ dir' = [dir EXCEPT ![n] = [m \in Joined |-> Newer(dir[n][m], dir[x][m])]]
    /\ UNCHANGED <<now, file, daemon, offers, cmd, left>>

\* ca.py:344, CA._caps_for: a decision at or after the issuance wins.
CapsFor(x, m) ==
    IF log[x][m].made /\ log[x][m].ts >= dir[x][m].iat
    THEN log[x][m].role ELSE dir[x][m].role

\* Faulty variant: the node does not keep what it published.
PushedOnly(n, x) ==
    /\ dir[n][n].iat < now
    /\ dir' = [dir EXCEPT ![x][n] = [iat |-> now, role |-> CapsFor(x, n)]]

\* n renews at x, signs its next record and pushes it to x.
RenewedAt(n, x) ==
    LET r == [iat |-> now, role |-> CapsFor(x, n)]
    IN /\ dir[n][n].iat < now
       /\ dir' = [dir EXCEPT ![n][n] = r, ![x][n] = r]

\* Faulty variant: a holder renews where everybody does.
RenewsAtRoot(n) == IF Signs(First) THEN {First} ELSE {m \in Discovered(n) : Signs(m)}

\* The renewal loop of a holder asks itself first (cli/daemon.py:403).
RenewsAt(n) ==
    IF HoldsAnchor(n) /\ Signs(n) THEN {n}
    ELSE IF Signs(First) THEN {First} ELSE {m \in Discovered(n) : Signs(m)}

Renew(n) ==
    /\ daemon[n] # "down"
    /\ \E x \in RenewsAt(n) : RenewedAt(n, x)
    /\ UNCHANGED <<now, file, daemon, log, offers, cmd, left>>

\* cli/membership.py:526, cmd_renew: `gw renew` asks root_url alone.
RenewByHand(n) ==
    /\ Signs(First)
    /\ RenewedAt(n, First)
    /\ Spend("renewals")
    /\ UNCHANGED <<now, file, daemon, log, offers, cmd>>

\* cli/daemon.py:180-392: what a daemon is, it is from its start, and it pushes
\* its record to its seeds; the first holder has none.
Started(n) ==
    /\ daemon' = [daemon EXCEPT ![n] = IF HoldsAnchor(n) THEN "holder" ELSE "member"]
    /\ \/ /\ n # First /\ Serves(First)
          /\ dir' = [dir EXCEPT ![First][n] = Newer(@, dir[n][n])]
       \/ /\ n = First \/ ~Serves(First)
          /\ UNCHANGED dir

\* cli/daemon.py:308, _publish_reachable, and the endpoint loop: whenever the
\* links or the addresses of n change, its record goes to its seeds again.
PushToSeeds(n) ==
    /\ daemon[n] # "down" /\ Serves(First)
    /\ dir' = [dir EXCEPT ![First][n] = Newer(@, dir[n][n])]
    /\ UNCHANGED <<now, file, daemon, log, offers, cmd, left>>

\* The threads of n's control plane end with it.
Cut(n) ==
    reqs' = [q \in Requests |-> IF reqs[q] # NoReq /\ reqs[q].at = n THEN NoReq ELSE reqs[q]]

Stop(n) ==
    /\ daemon[n] # "down"
    /\ Spend("faults")
    /\ daemon' = [daemon EXCEPT ![n] = "down"]
    /\ Cut(n)
    /\ UNCHANGED <<now, file, log, dir, offer, cmd, minted, taken, twice>>

Start(n) ==
    /\ daemon[n] = "down"
    /\ Started(n)
    /\ UNCHANGED <<now, file, log, offers, cmd, left>>

---------------------------------------------------------------------------
(* gw anchor offer, and its claim at the holder's threaded control plane.   *)

MintOffer(x, m) ==
    /\ x \in file /\ m # x
    /\ Spend("commands")
    /\ offer' = [offer EXCEPT ![x] = [to |-> m, fresh |-> TRUE, made |-> TRUE]]
    /\ minted' = [minted EXCEPT ![m] = @ + 1]
    /\ UNCHANGED <<now, file, daemon, log, dir, cmd, reqs, taken, twice>>

\* Fifteen minutes pass.
Expire(x) ==
    /\ offer[x].fresh
    /\ offer' = [offer EXCEPT ![x].fresh = FALSE]
    /\ UNCHANGED <<now, file, daemon, log, dir, cmd, reqs, minted, taken, twice, left>>

At(n, pc) == cmd[n].pc = pc
Goto(n, pc) == cmd' = [cmd EXCEPT ![n].pc = pc]
End(n) == cmd' = [cmd EXCEPT ![n] = NoCmd]

\* The claims of n whose answer a command still waits for.
Waiting(n) == {q \in Requests : reqs[q] # NoReq /\ reqs[q].by = n /\ reqs[q].live}

Send(q, n, x) ==
    /\ reqs[q] = NoReq
    /\ reqs' = [reqs EXCEPT ![q] = [pc |-> "read", by |-> n, at |-> x, live |-> TRUE,
                                    answer |-> FALSE]]

\* The holders a command asks, one by one.
Targets(n) == ({First} \cup Discovered(n)) \ {n}

Adopt(n) ==
    /\ At(n, "none")
    /\ Spend("commands")
    /\ cmd' = [cmd EXCEPT ![n] = [pc |-> "claim", ask |-> Targets(n)]]
    /\ UNCHANGED <<now, file, daemon, log, dir, offers>>

AskedOne(n, x) == cmd' = [cmd EXCEPT ![n].ask = @ \ {x}]

\* The next holder that is asked, the root before the others.
ComesNext(n, x) == x \in cmd[n].ask /\ (x = First \/ First \notin cmd[n].ask)

Ask(n, x, q) ==
    /\ At(n, "claim") /\ Waiting(n) = {} /\ ComesNext(n, x) /\ Serves(x)
    /\ Send(q, n, x)
    /\ AskedOne(n, x)
    /\ UNCHANGED <<now, file, daemon, log, dir, offer, minted, taken, twice, left>>

\* The holder asked does not serve, or has no thread left (server.py:494).
NotServed(n, x) ==
    /\ At(n, "claim") /\ Waiting(n) = {} /\ ComesNext(n, x)
    /\ ~Serves(x) \/ \A q \in Requests : reqs[q] # NoReq
    /\ AskedOne(n, x)
    /\ UNCHANGED <<now, file, daemon, log, dir, offers, left>>

\* "no holder had an offer for this node"
GiveUp(n) ==
    /\ At(n, "claim") /\ Waiting(n) = {} /\ cmd[n].ask = {}
    /\ End(n)
    /\ UNCHANGED <<now, file, daemon, log, dir, offers, left>>

\* Another `gw anchor adopt` is started on n while one waits for its answer.
AdoptAgain(n, x, q) ==
    /\ At(n, "claim") /\ Waiting(n) # {} /\ x \in Targets(n) /\ Serves(x)
    /\ Spend("commands")
    /\ Send(q, n, x)
    /\ twice' = twice \cup {n}
    /\ UNCHANGED <<now, file, daemon, log, dir, offer, cmd, minted, taken>>

\* The command does not wait longer than fifteen seconds; the thread goes on.
TimeOut(q) ==
    /\ reqs[q] # NoReq /\ reqs[q].live
    /\ Spend("faults")
    /\ reqs' = [reqs EXCEPT ![q].live = FALSE]
    /\ UNCHANGED <<now, file, daemon, log, dir, offer, cmd, minted, taken, twice>>

Finished(q) == reqs' = [reqs EXCEPT ![q] = NoReq]
Found(q, answer) == reqs' = [reqs EXCEPT ![q].pc = "consume", ![q].answer = answer]

\* server.py:338-348 with anchorfile.py:202, read_offer: an offer for this node
\* is consumed next, and so is an expired one, which is no answer; another
\* node's offer is refused and stays.
ReadOffer(q) ==
    LET o == offer[reqs[q].at] IN
    /\ reqs[q].pc = "read"
    /\ \/ o.fresh /\ o.to = reqs[q].by /\ Found(q, TRUE)
       \/ o.made /\ ~o.fresh /\ Found(q, FALSE)
       \/ (~o.made \/ (o.fresh /\ o.to # reqs[q].by)) /\ Finished(q)
    /\ UNCHANGED <<now, file, daemon, log, dir, offer, cmd, minted, taken, twice, left>>

\* Faulty variant: a served offer stays until it expires.
Kept(x) == offer' = offer

Consumed(x) == offer' = [offer EXCEPT ![x] = NoOffer]

\* n opens the answer.
Opened(n) ==
    /\ taken' = [taken EXCEPT ![n] = @ + 1]
    /\ cmd' = IF At(n, "claim") THEN [cmd EXCEPT ![n] = [pc |-> "save", ask |-> {}]] ELSE cmd

\* server.py:349: whatever offer is there by now is deleted, then the one that
\* was read is sent, to whoever still waits for it.
ConsumeOffer(q) ==
    /\ reqs[q].pc = "consume"
    /\ Consumed(reqs[q].at) /\ Finished(q)
    /\ \/ reqs[q].live /\ reqs[q].answer /\ Opened(reqs[q].by) /\ UNCHANGED left
       \/ ~(reqs[q].live /\ reqs[q].answer) /\ UNCHANGED <<taken, cmd, left>>
       \/ reqs[q].live /\ reqs[q].answer /\ Spend("faults") /\ UNCHANGED <<taken, cmd>>  \* lost
    /\ UNCHANGED <<now, file, daemon, log, dir, minted, twice>>

---------------------------------------------------------------------------
(* gw anchor adopt, from a claim or from a copied file, and gw anchor drop. *)

AdoptCopy(n) ==
    /\ At(n, "none") /\ file # {}
    /\ Spend("commands")
    /\ Goto(n, "save")
    /\ UNCHANGED <<now, file, daemon, log, dir, offers>>

SaveFile(n) ==
    /\ At(n, "save")
    /\ file' = file \cup {n}
    /\ Goto(n, "grant")
    /\ UNCHANGED <<now, daemon, log, dir, offers, left>>

\* Decisions are made while there is time left for the renewal that follows.
Decide(n, role) ==
    /\ now < MaxNow
    /\ log' = [log EXCEPT ![n][n] = Decision(role)]

GrantRoles(n) ==
    /\ At(n, "grant")
    /\ Decide(n, TRUE)
    /\ Goto(n, "restart")
    /\ UNCHANGED <<now, file, daemon, dir, offers, left>>

Drop(n) ==
    /\ At(n, "none") /\ n \in file
    /\ Spend("commands")
    /\ Goto(n, "shed")
    /\ UNCHANGED <<now, file, daemon, log, dir, offers>>

ShedRoles(n) ==
    /\ At(n, "shed")
    /\ Decide(n, FALSE)
    /\ Goto(n, "unlink")
    /\ UNCHANGED <<now, file, daemon, dir, offers, left>>

Unlink(n) ==
    /\ At(n, "unlink")
    /\ file' = file \ {n}
    /\ Goto(n, "restart")
    /\ UNCHANGED <<now, daemon, log, dir, offers, left>>

RestartDaemon(n) ==
    /\ At(n, "restart")
    /\ Started(n)
    /\ Cut(n)
    /\ End(n)
    /\ UNCHANGED <<now, file, log, offer, minted, taken, twice, left>>

\* The commands of n die; the threads that serve their claims do not.
Abort(n) ==
    /\ ~At(n, "none")
    /\ Spend("faults")
    /\ End(n)
    /\ reqs' = [q \in Requests |-> IF q \in Waiting(n) THEN [reqs[q] EXCEPT !.live = FALSE]
                                   ELSE reqs[q]]
    /\ UNCHANGED <<now, file, daemon, log, dir, offer, minted, taken, twice>>

\* cli/membership.py:194-270, cmd_set_caps and cmd_set_roles on a holder: the
\* reserved roles are refused, so they can be taken but not given.
SetRoles(x, m) ==
    /\ HoldsAnchor(x) /\ now < MaxNow
    /\ Spend("commands")
    /\ log' = [log EXCEPT ![x][m] = Decision(FALSE)]
    /\ UNCHANGED <<now, file, daemon, dir, offers, cmd>>

---------------------------------------------------------------------------
Tick ==
    /\ now < MaxNow
    /\ now' = now + 1
    /\ UNCHANGED <<file, daemon, log, dir, offers, cmd, left>>

Command(n) ==
    \/ Adopt(n) \/ GiveUp(n) \/ \E x \in Nodes : NotServed(n, x)
    \/ \E x \in Nodes, q \in Requests : Ask(n, x, q) \/ AdoptAgain(n, x, q)
    \/ AdoptCopy(n) \/ SaveFile(n) \/ GrantRoles(n)
    \/ Drop(n) \/ ShedRoles(n) \/ Unlink(n) \/ RestartDaemon(n) \/ Abort(n)

Serve(q) == ReadOffer(q) \/ ConsumeOffer(q) \/ TimeOut(q)

Daemon(n) == Pull(n) \/ Renew(n) \/ PushToSeeds(n)

Next ==
    \/ Tick
    \/ \E n \in Joined : Command(n) \/ Daemon(n) \/ RenewByHand(n)
    \/ \E n \in Nodes : Stop(n) \/ Start(n) \/ Expire(n)
    \/ \E q \in Requests : Serve(q)
    \/ \E x \in Nodes, m \in Joined : SetRoles(x, m)
    \/ \E x \in Nodes, m \in Joined \cup Strangers : MintOffer(x, m)

\* Time passes, the loops of a running daemon take their turns, and the service
\* manager starts it again.
Fairness ==
    /\ WF_vars(Tick)
    /\ \A n \in Joined : WF_vars(Pull(n)) /\ WF_vars(Renew(n))
    /\ \A n \in Nodes : WF_vars(Start(n))

Spec == Init /\ [][Next]_vars /\ Fairness

---------------------------------------------------------------------------
Record == [iat : 0..MaxNow, role : BOOLEAN]
Setcaps == [ts : 0..MaxNow, role : BOOLEAN, made : BOOLEAN]
Request == [pc : {"read", "consume"}, by : Joined, at : Nodes, live : BOOLEAN, answer : BOOLEAN]
Step == {"none", "claim", "save", "grant", "shed", "unlink", "restart"}

\* Every variable has its type, and no copy of a record is newer than the node's
\* own.
AuthTypeOK ==
    /\ now \in 1..MaxNow
    /\ file \subseteq Nodes
    /\ daemon \in [Nodes -> {"down", "member", "holder"}]
    /\ log \in [Nodes -> [Joined -> Setcaps]]
    /\ dir \in [Nodes -> [Joined -> Record]]
    /\ offer \in [Nodes -> [to : Nodes \cup Strangers, fresh : BOOLEAN, made : BOOLEAN]]
    /\ cmd \in [Joined -> [pc : Step, ask : SUBSET Nodes]]
    /\ reqs \in [Requests -> Request \cup {NoReq}] /\ twice \subseteq Joined
    /\ minted \in [Joined \cup Strangers -> Nat] /\ taken \in [Joined -> Nat]
    /\ \A n \in Nodes, m \in Joined : dir[n][m].iat <= dir[m][m].iat

\* A node whose operator runs one `gw anchor adopt` at a time opens no more
\* answers than offers were minted for it: although the control plane reads and
\* deletes an offer in two steps, serves a claim whose command has timed out or
\* died next to its successor's, and loses answers.
OncePerOffer == \A n \in Joined \ twice : taken[n] <= minted[n]

\* "the checks here exist to make the offer honest: single-use" (server.py:315):
\* for whatever commands.
SingleUse == \A n \in Joined : taken[n] <= minted[n]

\* The decision that grants a node its anchor roles has not been overtaken by a
\* credential issued after it.
Pending(n) == log[n][n].made /\ log[n][n].role /\ log[n][n].ts >= dir[n][n].iat

Granted(n) == Serves(n) /\ n \in file /\ Pending(n)
Ended(n) == dir[n][n].role \/ ~Serves(n) \/ n \notin file \/ ~log[n][n].role
RanRenew == left.renewals < MaxRenewals

\* A node that adopted the file and serves gets the anchor roles in its
\* credential (anchorcmds.py:494-507), although no other holder knows the
\* decision: it renews at itself first.  It may stop serving, drop the file or
\* learn of a later decision before, and `gw renew` may undo it.
GrantTakesEffect ==
    \A n \in Joined : Granted(n) ~> (Ended(n) \/ RanRenew)

\* "gw set-caps / gw set-roles take effect immediately" with `gw renew`
\* (membership.py:531-532): at least it does not take the grant back.
GrantStands == \A n \in Joined : Granted(n) ~> Ended(n)

Dropped(n) ==
    At(n, "none") /\ n \notin file /\ log[n][n].made /\ ~log[n][n].role

\* "so the fleet stops treating this node as a holder once its credential
\* renews" (anchorcmds.py:515-517).
DropSheds ==
    \A n \in Joined : Dropped(n) ~> (~dir[First][n].role \/ ~Dropped(n))

\* "a claim for someone else's offer is refused WITHOUT consuming it"
\* (server.py:319): only its own node's claim makes a fresh offer go.
OfferSpared ==
    [][\A x \in Nodes : (offer[x].fresh /\ ~offer'[x].made) =>
          \E q \in Requests : /\ reqs[q].pc = "consume" /\ reqs[q].answer
                              /\ reqs[q].by = offer[x].to /\ reqs[q].at = x]_vars
=============================================================================
