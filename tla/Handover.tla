------------------------------ MODULE Handover ------------------------------
(***************************************************************************)
(* `gw anchor-transfer` (cli/anchorcmds.py): the anchor moves to another    *)
(* host over SSH, and the target assumes its identity.  The command streams *)
(* an encrypted backup of the trust state, copies the config, stops the     *)
(* service here, starts it there and looks whether it is up; if not it      *)
(* starts the local one again.  Any remote step can fail, with or without   *)
(* its effect, and the command can be killed between any two steps; systemd *)
(* restarts a daemon that dies, and at a boot whatever is enabled.  The     *)
(* members reach the anchor through tunnels, which it has with the nodes of *)
(* its directory only.  The local systemctl commands work.                 *)
(***************************************************************************)
EXTENDS Naturals

CONSTANTS Members,
          TargetWas,     \* what runs on the target: "none", or "member" of the mesh
          Decisions,     \* what an anchor may come to revoke
          MaxFailures, MaxTransfers

ASSUME TargetAssumption == TargetWas \in {"none", "member"}

Hosts == {"here", "there"}

VARIABLES pc,        \* the next step of the command, "idle" when none runs
          runs,      \* runs[h]: "none", "member" or "anchor": the daemon of h
          wanted,    \* wanted[h]: its unit was started and not stopped
          enabled,   \* enabled[h]: its unit starts at boot
          disk,      \* disk[h]: what is in the data directory and the config
          blob,      \* the revocations in the backup under way
          cut,       \* history: a command was killed after it had stopped the anchor
          budget     \* what may still happen

units == <<runs, wanted, enabled>>
transferVars == <<pc, units, disk, blob, cut, budget>>

TransferInit ==
    /\ pc = "idle"
    /\ runs = [here |-> "anchor", there |-> TargetWas]
    /\ wanted = [h \in Hosts |-> h = "here" \/ TargetWas = "member"]
    /\ enabled = wanted
    /\ disk = [here |-> [ca |-> TRUE, decided |-> {}, config |-> "anchor", known |-> Members],
               there |-> [ca |-> FALSE, decided |-> {}, config |-> TargetWas,
                          known |-> IF TargetWas = "member" THEN Members ELSE {}]]
    /\ blob = {} /\ cut = FALSE
    /\ budget = [faults |-> MaxFailures, transfers |-> MaxTransfers]

Draw(what) == /\ budget[what] > 0
              /\ budget' = [budget EXCEPT ![what] = @ - 1]

\* What a daemon started on h becomes (cli/daemon.py:127).
Loads(h) == IF disk[h].config = "anchor" /\ disk[h].ca THEN "anchor"
            ELSE IF disk[h].config = "member" THEN "member" ELSE "none"

---------------------------------------------------------------------------
(* The command, step by step.                                              *)

Upcoming(step) == pc = step

\* Preflight: the target has no ca.key, or the operator forces it.
Begin ==
    /\ Upcoming("idle")
    /\ Draw("transfers")
    /\ pc' = "backup"
    /\ UNCHANGED <<units, disk, blob, cut>>

\* backup.py:150, collect_anchor_state: the CA, the identity, the statements;
\* the directory cache is left out.  The daemon here goes on deciding.
Backup ==
    /\ Upcoming("backup")
    /\ blob' = disk["here"].decided
    /\ pc' = "restore"
    /\ UNCHANGED <<units, disk, cut, budget>>

\* restore --force puts the archive's files over those of the target.
Restored == disk' = [disk EXCEPT !["there"].ca = TRUE, !["there"].decided = blob]

Restore ==
    /\ Upcoming("restore")
    /\ \/ /\ Restored /\ pc' = "config" /\ UNCHANGED budget
       \/ /\ Draw("faults") /\ pc' = "idle"     \* "nothing changed here"
          /\ Restored \/ UNCHANGED disk
    /\ UNCHANGED <<units, blob, cut>>

\* `tee` writes over the target's config: all of it, or, when the connection is
\* lost, a part that no daemon can load, or nothing.
Overwrites(config) == disk' = [disk EXCEPT !["there"].config = config]
CopyLost == Draw("faults") /\ (Overwrites("none") \/ UNCHANGED disk)

\* Faulty variant: a failed copy is not noticed.
CopyUnchecked ==
    /\ Upcoming("config")
    /\ \/ Overwrites("anchor") /\ UNCHANGED budget
       \/ CopyLost
    /\ pc' = "stop"
    /\ UNCHANGED <<units, blob, cut>>

CopyConfig ==
    /\ Upcoming("config")
    /\ \/ Overwrites("anchor") /\ pc' = "stop" /\ UNCHANGED budget
       \/ CopyLost /\ pc' = "idle"
    /\ UNCHANGED <<units, blob, cut>>

\* _do_handoff, first step; the exit status of systemctl is not looked at.
StopHere ==
    /\ Upcoming("stop")
    /\ runs' = [runs EXCEPT !["here"] = "none"]
    /\ wanted' = [wanted EXCEPT !["here"] = FALSE]
    /\ pc' = "start"
    /\ UNCHANGED <<enabled, disk, blob, cut, budget>>

\* systemctl enable --now: a unit that is active already stays as it is.
Enabled ==
    /\ enabled' = [enabled EXCEPT !["there"] = TRUE]
    /\ wanted' = [wanted EXCEPT !["there"] = TRUE]
    /\ runs' = [runs EXCEPT !["there"] = IF @ = "none" THEN Loads("there") ELSE @]

StartThere ==
    /\ Upcoming("start")
    /\ \/ Enabled /\ pc' = "verify" /\ UNCHANGED budget
       \/ /\ Draw("faults") /\ pc' = "rollback"
          /\ Enabled \/ UNCHANGED <<enabled, wanted, runs>>
    /\ UNCHANGED <<disk, blob, cut>>

\* remote_active: whether the unit is active, asked for fifteen seconds.
Verify ==
    /\ Upcoming("verify")
    /\ \/ runs["there"] # "none" /\ pc' = "disable" /\ UNCHANGED budget
       \/ runs["there"] = "none" /\ pc' = "rollback" /\ UNCHANGED budget
       \/ runs["there"] # "none" /\ Draw("faults") /\ pc' = "rollback"
    /\ UNCHANGED <<units, disk, blob, cut>>

\* Faulty variant: a failed handoff ends with the message alone.
NoRollback ==
    /\ Upcoming("rollback")
    /\ pc' = "idle"
    /\ UNCHANGED <<units, disk, blob, cut, budget>>

\* Faulty variant: the local anchor is started outside its unit.
Unmanaged ==
    /\ Upcoming("rollback")
    /\ runs' = [runs EXCEPT !["here"] = Loads("here")]
    /\ pc' = "idle"
    /\ UNCHANGED <<wanted, enabled, disk, blob, cut, budget>>

\* _do_handoff, rollback: the local anchor starts; the target is left alone.
Rollback ==
    /\ Upcoming("rollback")
    /\ runs' = [runs EXCEPT !["here"] = Loads("here")]
    /\ wanted' = [wanted EXCEPT !["here"] = TRUE]
    /\ pc' = "idle"
    /\ UNCHANGED <<enabled, disk, blob, cut, budget>>

\* Faulty variant: the unit here is stopped and left enabled.
LeftEnabled ==
    /\ Upcoming("disable")
    /\ pc' = "done"
    /\ UNCHANGED <<units, disk, blob, cut, budget>>

Disable ==
    /\ Upcoming("disable")
    /\ enabled' = [enabled EXCEPT !["here"] = FALSE]
    /\ pc' = "done"
    /\ UNCHANGED <<runs, wanted, disk, blob, cut, budget>>

Transfer ==
    \/ Begin \/ Backup \/ Restore \/ CopyConfig
    \/ StopHere \/ StartThere \/ Verify \/ Rollback \/ Disable

\* The command's process dies, with the operator's session or without.
Killed ==
    /\ pc \notin {"idle", "done"}
    /\ Draw("faults")
    /\ pc' = "idle"
    /\ cut' = (cut \/ pc \in {"start", "verify", "rollback", "disable"})
    /\ UNCHANGED <<units, disk, blob>>

---------------------------------------------------------------------------
(* Around it.                                                              *)

MakeDecision(d) ==
    /\ \A h \in Hosts : d \notin disk[h].decided
    /\ \E h \in Hosts :
         /\ runs[h] = "anchor"
         /\ disk' = [disk EXCEPT ![h].decided = @ \cup {d}]
    /\ UNCHANGED <<pc, units, blob, cut, budget>>

\* A daemon dies, and Restart=always brings it back.
Crash(h) ==
    /\ runs[h] # "none"
    /\ Draw("faults")
    /\ runs' = [runs EXCEPT ![h] = "none"]
    /\ UNCHANGED <<pc, wanted, enabled, disk, blob, cut>>

Restart(h) ==
    /\ wanted[h] /\ runs[h] = "none" /\ Loads(h) # "none"
    /\ runs' = [runs EXCEPT ![h] = Loads(h)]
    /\ UNCHANGED <<pc, wanted, enabled, disk, blob, cut, budget>>

\* A boot starts what is enabled; one of this host ends the command.
Reboot(h) ==
    /\ Draw("faults")
    /\ wanted' = [wanted EXCEPT ![h] = enabled[h]]
    /\ runs' = [runs EXCEPT ![h] = "none"]
    /\ pc' = IF h = "here" /\ pc # "done" THEN "idle" ELSE pc
    /\ UNCHANGED <<enabled, disk, blob, cut>>

\* A member enrolls again through the door.
Rejoin(m) ==
    /\ \E h \in Hosts :
         /\ runs[h] = "anchor" /\ m \notin disk[h].known
         /\ Draw("faults")
         /\ disk' = [disk EXCEPT ![h].known = @ \cup {m}]
    /\ UNCHANGED <<pc, units, blob, cut>>

TransferNext ==
    \/ Transfer \/ Killed
    \/ \E d \in Decisions : MakeDecision(d)
    \/ \E h \in Hosts : Crash(h) \/ Restart(h) \/ Reboot(h)
    \/ \E m \in Members : Rejoin(m)

\* A command that is not killed runs to its end, and systemd restarts what
\* should run.  Nobody need ever start the command again.
TransferFairness ==
    /\ WF_transferVars(Transfer /\ ~Upcoming("idle"))
    /\ \A h \in Hosts : WF_transferVars(Restart(h))

TransferSpec == TransferInit /\ [][TransferNext]_transferVars /\ TransferFairness

---------------------------------------------------------------------------
Steps == {"idle", "backup", "restore", "config", "stop", "start", "verify",
          "rollback", "disable", "done"}

\* Every variable has its type, and what runs was started: no daemon of a unit
\* that is stopped, no anchor without its CA.
HandoverTypeOK ==
    /\ pc \in Steps
    /\ runs \in [Hosts -> {"none", "member", "anchor"}]
    /\ wanted \in [Hosts -> BOOLEAN] /\ enabled \in [Hosts -> BOOLEAN]
    /\ disk \in [Hosts -> [ca : BOOLEAN, decided : SUBSET Decisions, known : SUBSET Members,
                           config : {"none", "member", "anchor"}]]
    /\ blob \subseteq Decisions /\ cut \in BOOLEAN
    /\ \A h \in Hosts : runs[h] # "none" => wanted[h]
    /\ \A h \in Hosts : runs[h] = "anchor" => disk[h].ca

\* "nothing changed here" (anchorcmds.py:892, 897): no step stops the anchor
\* here, and no boot leaves it down, unless a daemon started on the target would
\* be the anchor: it has the CA, and the whole config.
StopsLast ==
    [][wanted["here"] /\ ~wanted'["here"] => Loads("there") = "anchor"]_transferVars

\* "stopped and disabled (won't auto-start as a second anchor)" (RUNBOOK.md:354):
\* after a transfer the anchor here does not run again, whatever dies or boots.
StaysDown == Upcoming("done") => runs["here"] = "none"

\* A killed command left the anchor here stopped, and nothing started since
\* would be the anchor.
LeftDown == cut /\ ~\E h \in Hosts : wanted[h] /\ Loads(h) = "anchor"

\* A transfer that fails leaves an anchor: one runs again and again, whatever
\* remote step fails and whichever daemon or host dies.  The rollback is the
\* command's, so there is an exception: a command killed after the stop here can
\* leave none, until this host boots or the operator acts.
NeverAnchorless == []<>((\E h \in Hosts : runs[h] = "anchor") \/ LeftDown)

\* "a failed transfer never leaves you anchorless" (RUNBOOK.md:351-352).
AlwaysAnchor == []<>(\E h \in Hosts : runs[h] = "anchor")

\* What was decided here is known to the anchor there.
NothingLost == Upcoming("done") => disk["here"].decided \subseteq disk["there"].decided

\* "There is only ever one live anchor" (anchorcmds.py:809).
OneAnchor == ~ \A h \in Hosts : runs[h] = "anchor"

\* "the fleet reconnects to it automatically" (RUNBOOK.md:324).
InReach(m) == \E h \in Hosts : runs[h] = "anchor" /\ m \in disk[h].known
FleetReconnects == Upcoming("done") ~> \A m \in Members : InReach(m)
=============================================================================
