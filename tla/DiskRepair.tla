------------------------------ MODULE DiskRepair ------------------------------
(***************************************************************************)
(* azlin disk repair (cmd_disk_ops.rs), run by hand as often as its user   *)
(* likes against the VM of DataDisks: probe, plan, confirm what --force    *)
(* would reformat, run one script per disk over ssh, probe again.          *)
(***************************************************************************)
EXTENDS DataDisks

VARIABLE cmd

vars == <<vmVars, cmd>>

NoCmd == [at |-> "idle", stages |-> [r \in Roles |-> "none"], force |-> FALSE, todo |-> {}, ran |-> {},
          failed |-> FALSE, verdict |-> "none"]

Init == VmInit /\ cmd = NoCmd

\* The command ends; what it ran on and how it ended is kept.
Finish(verdict) == cmd' = [NoCmd EXCEPT !.ran = IF verdict = "ok" THEN cmd.ran ELSE {}, !.verdict = verdict]

Reformats(r, stage, force) == force /\ stage = "formatted"
Buildable(r, stage, force) == stage \notin {"absent", "healthy"} /\ (stage = "formatted" => force)

\* Every script is built before one runs; a disk that is refused is reported
\* and left out.
ProbeAndPlan ==
    /\ cmd.at = "idle" /\ Ready
    /\ \E force \in BOOLEAN :
         LET stages == [r \in Roles |-> Stage(r)]
             plan   == {r \in Roles : Buildable(r, stages[r], force)}
         IN  IF \A r \in Roles : stages[r] = "healthy" THEN cmd' = [NoCmd EXCEPT !.verdict = "ok"]
             ELSE IF plan = {} THEN cmd' = [NoCmd EXCEPT !.verdict = "bail"]
             ELSE cmd' = [NoCmd EXCEPT !.stages = stages, !.force = force, !.todo = plan,
                          !.at = IF \E r \in plan : Reformats(r, stages[r], force) THEN "confirm" ELSE "run"]
    /\ UNCHANGED vmVars

\* The probe could not be run or read: nothing is decided on it.
ProbeFails ==
    /\ cmd.at \in {"idle", "reprobe"} /\ Ready /\ cmd' = [NoCmd EXCEPT !.verdict = "bail"]
    /\ UNCHANGED vmVars

Confirm ==
    /\ cmd.at = "confirm"
    /\ \/ /\ cmd' = [cmd EXCEPT !.at = "run"]
          /\ consent' = consent \cup {r \in cmd.todo : Reformats(r, cmd.stages[r], cmd.force)}
       \/ cmd' = [NoCmd EXCEPT !.verdict = "declined"] /\ UNCHANGED consent
    /\ UNCHANGED <<fixed, fs, made, erased, mounts, homes, booting, script, trouble, stranded>>

Next1 == IF "home" \in cmd.todo THEN "home" ELSE "tmp"

Launch ==
    /\ cmd.at = "run" /\ cmd.todo # {}
    /\ \E s \in Slots :
         /\ At(s, "idle")
         /\ script' = [script EXCEPT ![s] =
              [at |-> "format", role |-> Next1, stage |-> cmd.stages[Next1], moved |-> FALSE, heard |-> TRUE,
               reform |-> Reformats(Next1, cmd.stages[Next1], cmd.force)]]
    /\ cmd' = [cmd EXCEPT !.at = "wait", !.todo = @ \ {Next1}, !.ran = @ \cup {Next1}]
    /\ UNCHANGED <<fixed, disks, mounts, homes, booting, trouble, stranded>>

Collect(s) ==
    /\ cmd.at = "wait" /\ script[s].heard /\ script[s].at \in {"ok", "failed"}
    /\ cmd' = [cmd EXCEPT !.at = "run", !.failed = @ \/ At(s, "failed")]
    /\ script' = [script EXCEPT ![s] = Idle]
    /\ UNCHANGED <<fixed, disks, mounts, homes, booting, trouble, stranded>>

\* The connection breaks or the local time-out kills ssh; the script, which
\* has no terminal, runs on.
Drop(s) ==
    /\ cmd.at = "wait" /\ script[s].heard /\ Running(s) /\ Wrong
    /\ cmd' = [cmd EXCEPT !.at = "run", !.failed = TRUE]
    /\ script' = [script EXCEPT ![s].heard = FALSE]
    /\ UNCHANGED <<fixed, disks, mounts, homes, booting, stranded>>

\* Altered: the scripts' exit codes decide.
Reprobe_ByExitCodes ==
    /\ cmd.at = "run" /\ cmd.todo = {} /\ Finish(IF cmd.failed THEN "bail" ELSE "ok")
    /\ UNCHANGED vmVars

Reprobe ==
    /\ cmd.at = "run" /\ cmd.todo = {}
    /\ Finish(IF ~cmd.failed /\ \A r \in Roles : Stage(r) = "healthy" THEN "ok" ELSE "bail")
    /\ UNCHANGED vmVars

Next ==
    \/ VmNext /\ UNCHANGED cmd
    \/ ProbeAndPlan \/ ProbeFails \/ Confirm \/ Launch \/ Reprobe
    \/ \E s \in Slots : Collect(s) \/ Drop(s)

Spec == Init /\ [][Next]_vars

-----------------------------------------------------------------------------
(* Properties. *)

\* Whatever is interrupted, killed, rebooted, retried or run twice at once, a
\* file is never lost: what the VM came with is still in one of the places of
\* the home, whatever an operator confirmed; what the user wrote is, and what a
\* disk held before azlin saw it is, unless an operator confirmed the reformat
\* of that disk (disk_layout.rs:241, :709, :938; cloud_init.rs:383).
DataIsKept ==
    /\ \A r \in foreign : fs[r] = Foreign \/ r \in consent
    /\ HomeFiles \subseteq UNION {Content(p) : p \in Places}
    /\ written \subseteq (UNION {Content(p) : p \in Places}) \cup erased
    /\ \A p \in Places : files[p] \subseteq Content(p)

\* A reboot unmounted the backing between a probe and the script it chose:
\* the script wrote beneath the mount point, for it does not look again.
Astray == "under" \in dirs

\* A home that a repair copied and then bound shows everything that the home it
\* covers holds, but for what was written there after that home was verified:
\* a copy that was interrupted is never taken for a whole one
\* (disk_layout.rs:860).  Stale stages and stranded homes excepted.
HomeIsWhole ==
    HomeBind # "no" /\ copier = "repair" /\ ~stranded /\ ~Astray
      => (Content("old") \cup Content("os")) \ late \subseteq Content(HomeBind)

\* The same of every copy, the one cloud-init began included (repair.md: "The
\* copy is verified before the bind is switched").
BoundHomeIsVerified ==
    HomeBind # "no" /\ ~stranded /\ ~Astray
      => (Content("old") \cup Content("os")) \ late \subseteq Content(HomeBind)

\* Unless the home was moved aside by a script that was killed, or rebooted
\* away, before it had written fstab, or whose mkdir failed, or that acted on
\* a stale stage, the home is there whenever no script is exchanging it
\* (disk_layout.rs:926, cloud_init.rs:383).
HomeIsReachable ==
    ~stranded /\ ~Astray /\ boot.at \notin {"mkdir", "bind"} /\ (\A s \in Slots : ~Armed(s))
      => Content(Shown) # {}

\* When repair says ok, the disks it worked on are mounted where they belong
\* and come back at every boot (cmd_disk_ops.rs:629, disk_layout.rs:1025).
OkSurvivesReboot ==
    cmd.verdict = "ok" => \A r \in cmd.ran : Persisted(r) /\ bound[r] = "disk"

\* A VM whose provisioning is reported ok has its home and tmp on the data
\* disks, at this boot and every later one (cloud_init.rs:258).
StatusIsEarned == status = "ok" => \A r \in Roles : Persisted(r) /\ bound[r] = "disk"
=============================================================================
