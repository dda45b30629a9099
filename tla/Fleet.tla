------------------------------- MODULE Fleet -------------------------------
(***************************************************************************)
(* azlin batch and azlin fleet: one command over many VMs (crate azlin:    *)
(* cmd_batch.rs, batch_progress.rs, batch_helpers.rs, fleet_select.rs,     *)
(* exec_fleet and VmSshTarget of main.rs, resolve_fleet_targets of         *)
(* dispatch_helpers.rs; crate azlin-azure: rate_limiter.rs).               *)
(*                                                                         *)
(* The targets are worked through by a pool of threads that draw their     *)
(* indices from a counter; each fills the slot of its index, and the       *)
(* command goes on when every thread has ended.  Threads are not told      *)
(* apart: an index is waiting, in the hands of some thread, or answered,   *)
(* and at most width are in hand.                                          *)
(***************************************************************************)
EXTENDS Naturals, Sequences, FiniteSets, SequencesExt

CONSTANTS
    Size,   \* VMs of the resource group, 1..Size as Azure lists them
    Jobs,   \* the commands that may be given
    Top,    \* the highest load; a load that cannot be measured is Top + 1
    Limit,  \* the loads an --if-* gate lets pass are those below it
    Burst   \* tokens a full bucket holds

Vms == 1..Size
Arm == {"stop", "start"}
Exec == {"command", "run", "workflow"}

(* width is the number of workers, count that of --count or Size, steps[k] *)
(* says that step k of the workflow has a command.                         *)
Job == [kind : Arm \cup Exec \cup {"sync"}, width : Vms, gate : BOOLEAN, smart : BOOLEAN,
        count : 0..Size, retry : BOOLEAN, steps : Seq(BOOLEAN)]

ASSUME FleetAssumption ==
    /\ Size \in Nat \ {0} /\ Top \in Nat /\ Limit \in 0..Top /\ Burst \in Nat \ {0}
    /\ Jobs \subseteq Job
    /\ \A j \in Jobs : j.kind = "workflow" => j.steps # <<>>

VARIABLES
    host,     \* host[v]: is v selected, and is it behind a bastion
    job,      \* the command
    at,       \* where it is
    targets,  \* the VMs it acts on, in order
    load,     \* load[v]: what the probe read
    pool,     \* the work in hand
    report,   \* report[i]: what is shown for targets[i]
    bucket,   \* the rate limiter: tokens, how many it gave and how many it refilled
    step,     \* the step of a workflow
    ran       \* history: each VM's last answer and the step it was to

vars == <<host, job, at, targets, load, pool, report, bucket, step, ran>>

(* Exit 0, or anything else: another status, 124 from timeout(1), -1 from  *)
(* the transport.                                                          *)
Answer == {"ok", "bad"}
InHand == {"pace", "asleep", "link", "running", "key", "relink", "rerun"}
Ended == {"ok", "none", "failed", "refused"}

(* index is the place of each item among the targets.                      *)
Pool(index) ==
    [index |-> index, next |-> 1, stage |-> [i \in DOMAIN index |-> "waiting"],
     slot |-> [i \in DOMAIN index |-> "none"]]

Untouched == [last |-> "none", step |-> 0]

Init ==
    /\ host \in [Vms -> [chosen : BOOLEAN, bastion : BOOLEAN]]
    /\ job \in Jobs
    /\ at = "start" /\ targets = <<>> /\ pool = Pool(<<>>) /\ report = <<>>
    /\ load = [v \in Vms |-> 0]
    /\ bucket = [tokens |-> Burst, issued |-> 0, ticks |-> 0]
    /\ step = 1
    /\ ran = [v \in Vms |-> Untouched]

-----------------------------------------------------------------------------
(* Selection.                                                              *)

(* validate_selection, the prompt of stop and start, --dry-run, and a      *)
(* workflow that cannot be read.                                           *)
Start ==
    /\ at = "start" /\ at' \in {"list", "refused"}
    /\ UNCHANGED <<host, job, targets, load, pool, report, bucket, step, ran>>

Chosen == {v \in Vms : host[v].chosen}

(* The elements of S, in order.                                            *)
InOrder(S) == {s \in SetToSeqs(S) : \A j, k \in DOMAIN s : j < k => s[j] < s[k]}
First(s) == SubSeq(s, 1, IF Len(s) < job.count THEN Len(s) ELSE job.count)

Probes == job.kind = "run" /\ (job.gate \/ job.smart)

(* stop and start take ids out of a hash map, and do not look whether the  *)
(* listing succeeded.                                                      *)
ListIds ==
    /\ at = "list" /\ job.kind \in Arm
    /\ \/ \E s \in SetToSeqs(Chosen) :
            targets' = s /\ at' = IF s = <<>> THEN "none" ELSE "launch"
       \/ UNCHANGED targets /\ at' = "none"
    /\ UNCHANGED <<host, job, load, pool, report, bucket, step, ran>>

(* resolve_fleet_targets.  A selection that is empty is a failure.         *)
ListTargets ==
    /\ at = "list" /\ job.kind \notin Arm
    /\ \/ /\ Chosen # {}
          /\ \E all \in InOrder(Chosen) :
                LET s == IF Probes THEN all ELSE First(all)
                IN  /\ targets' = s
                    /\ at' = IF Probes THEN "probe" ELSE IF s = <<>> THEN "none" ELSE "launch"
       \/ UNCHANGED targets /\ at' = "failed"
    /\ UNCHANGED <<host, job, load, pool, report, bucket, step, ran>>

(* smart_route_order, stable for equal loads.                              *)
Before(v, w, l) == l[v] < l[w] \/ (l[v] = l[w] /\ v < w)
LeastFirst(S, l) ==
    {s \in SetToSeqs(S) : \A j, k \in DOMAIN s : j < k => Before(s[j], s[k], l)}

\* Altered: a VM that does not answer the probe counts as idle.
Passes_Optimist(v, l) == job.gate => l[v] < Limit \/ l[v] > Top

(* load_gate.                                                              *)
Passes(v, l) == job.gate => l[v] < Limit

Probe ==
    /\ at = "probe"
    /\ \E l \in [Range(targets) -> 0..(Top + 1)] :
         LET kept == {v \in Range(targets) : Passes(v, l)} IN
         /\ \E s \in IF job.smart THEN LeastFirst(kept, l) ELSE InOrder(kept) :
              /\ targets' = First(s)
              /\ at' = IF First(s) = <<>> THEN "none" ELSE "launch"
         /\ load' = [v \in Vms |-> IF v \in Range(targets) THEN l[v] ELSE 0]
    /\ UNCHANGED <<host, job, pool, report, bucket, step, ran>>

-----------------------------------------------------------------------------
(* The pool: exec_fleet and for_each_bounded.                              *)

All == [i \in DOMAIN targets |-> i]
Vm(i) == targets[pool.index[i]]
Stage(i) == pool.stage[i]
Items == DOMAIN pool.index

(* A step without a command is skipped.                                    *)
Launch ==
    /\ at = "launch"
    /\ IF job.kind = "workflow" /\ ~ job.steps[step]
       THEN at' = "joined" /\ UNCHANGED pool
       ELSE at' = "pool" /\ pool' = Pool(All)
    /\ UNCHANGED <<host, job, targets, load, report, bucket, step, ran>>

Enter(i, s) == pool' = [pool EXCEPT !.stage[i] = s]

(* A free thread draws the next index.                                     *)
Take ==
    /\ at = "pool" /\ pool.next \in Items
    /\ Cardinality({i \in Items : Stage(i) \in InHand}) < job.width
    /\ pool' = [pool EXCEPT !.next = @ + 1,
                  !.stage[pool.next] = IF job.kind \in Arm THEN "pace" ELSE "link"]
    /\ UNCHANGED <<host, job, at, targets, load, report, bucket, step, ran>>

\* Altered: the slot is that of the item answered last, not the item's own.
Answers_Appended(i, a) ==
    /\ LET n == Cardinality({j \in Items : Stage(j) = "answered"}) + 1 IN
         pool' = [pool EXCEPT !.stage[i] = "answered", !.slot[n] = a]
    /\ ran' = [ran EXCEPT ![Vm(i)] = [last |-> a, step |-> step]]

(* The thread fills the slot of its own item and is free again.            *)
Answers(i, a) ==
    /\ pool' = [pool EXCEPT !.stage[i] = "answered", !.slot[i] = a]
    /\ ran' = [ran EXCEPT ![Vm(i)] = [last |-> a, step |-> step]]

\* Altered: the thread sleeps once and goes on.
Acquire_Once(i) ==
    /\ Stage(i) = "pace"
    /\ IF bucket.tokens > 0
       THEN Enter(i, "link") /\ bucket' = [bucket EXCEPT !.tokens = @ - 1, !.issued = @ + 1]
       ELSE Enter(i, "link") /\ bucket' = [bucket EXCEPT !.issued = @ + 1]
    /\ UNCHANGED <<host, job, at, targets, load, report, step, ran>>

(* RateLimiter::acquire: take a token, or sleep until one may be there.    *)
Acquire(i) ==
    /\ Stage(i) = "pace"
    /\ IF bucket.tokens > 0
       THEN Enter(i, "link") /\ bucket' = [bucket EXCEPT !.tokens = @ - 1, !.issued = @ + 1]
       ELSE Enter(i, "asleep") /\ UNCHANGED bucket
    /\ UNCHANGED <<host, job, at, targets, load, report, step, ran>>

(* The time in which a token refills passes: every sleeper wakes and tries *)
(* again.                                                                  *)
Tick ==
    /\ at = "pool" /\ bucket.tokens < Burst
    /\ bucket' = [bucket EXCEPT !.tokens = @ + 1, !.ticks = @ + 1]
    /\ pool' = [pool EXCEPT !.stage =
                  [i \in Items |-> IF @[i] = "asleep" THEN "pace" ELSE @[i]]]
    /\ UNCHANGED <<host, job, at, targets, load, report, step, ran>>

(* az vm stop or start, and the transfers of azlin batch sync.             *)
Replies(i) ==
    /\ job.kind \notin Exec /\ Stage(i) = "link"
    /\ \E a \in Answer : Answers(i, a)
    /\ UNCHANGED <<host, job, at, targets, load, report, bucket, step>>

-----------------------------------------------------------------------------
(* VmSshTarget::exec_with_local_timeout.                                   *)

Begin(i) ==
    /\ job.kind \in Exec /\ Stage(i) \in {"link", "relink"}
    /\ Enter(i, IF Stage(i) = "link" THEN "running" ELSE "rerun")
    /\ UNCHANGED <<host, job, at, targets, load, report, bucket, step, ran>>

(* The command ends, or timeout(1) ends it on the VM.                      *)
Exit(i) ==
    /\ Stage(i) \in {"running", "rerun"}
    /\ \E a \in Answer : Answers(i, a)
    /\ UNCHANGED <<host, job, at, targets, load, report, bucket, step>>

\* Altered: the local timeout covers the connection only.
Lose_Connecting(i) ==
    /\ job.kind \in Exec /\ Stage(i) \in {"link", "relink"}
    /\ Answers(i, "bad")
    /\ UNCHANGED <<host, job, at, targets, load, report, bucket, step>>

(* ssh cannot connect or breaks off; a bastion's is killed on its local    *)
(* timeout.  The command, if it had begun, goes on without it.             *)
Lose(i) ==
    /\ job.kind \in Exec /\ Stage(i) \in {"link", "running", "relink", "rerun"}
    /\ Answers(i, "bad")
    /\ UNCHANGED <<host, job, at, targets, load, report, bucket, step>>

(* Exit 255 with "Permission denied", from ssh or from the command itself: *)
(* over a bastion the key is pushed and the command given once more.       *)
Deny(i) ==
    /\ job.kind \in Exec /\ Stage(i) \in {"link", "running"}
    /\ IF host[Vm(i)].bastion THEN Enter(i, "key") /\ UNCHANGED ran ELSE Answers(i, "bad")
    /\ UNCHANGED <<host, job, at, targets, load, report, bucket, step>>

PushKey(i) ==
    /\ Stage(i) = "key"
    /\ \/ Enter(i, "relink") /\ UNCHANGED ran
       \/ Answers(i, "bad")
    /\ UNCHANGED <<host, job, at, targets, load, report, bucket, step>>

-----------------------------------------------------------------------------
(* After the pool.                                                         *)

Failed == {i \in Items : pool.slot[i] # "ok"}
FirstRound == report = <<>>

Slots ==
    [i \in DOMAIN targets |->
       IF \E k \in Items : pool.index[k] = i
       THEN pool.slot[CHOOSE k \in Items : pool.index[k] = i] ELSE report[i]]

\* Altered: the threads of a workflow are not waited for.
Join_Detached ==
    /\ at = "pool" /\ pool.next \notin Items
    /\ IF job.kind = "workflow" THEN UNCHANGED report
       ELSE report' = Slots /\ \A i \in Items : Stage(i) = "answered"
    /\ IF job.kind = "run" /\ job.retry /\ FirstRound /\ Failed # {}
       THEN UNCHANGED at /\ \E again \in InOrder(Failed) : pool' = Pool(again)
       ELSE at' = "joined" /\ UNCHANGED pool
    /\ UNCHANGED <<host, job, targets, load, bucket, step, ran>>

(* Every thread has ended.  --retry-failed gives the command once more to  *)
(* those that did not succeed and puts the answers in their places.        *)
Join ==
    /\ at = "pool" /\ \A i \in Items : Stage(i) = "answered"
    /\ report' = Slots
    /\ IF job.kind = "run" /\ job.retry /\ FirstRound /\ Failed # {}
       THEN UNCHANGED at /\ \E again \in InOrder(Failed) : pool' = Pool(again)
       ELSE at' = "joined" /\ UNCHANGED pool
    /\ UNCHANGED <<host, job, targets, load, bucket, step, ran>>

(* The next step of a workflow, whatever became of this one; sync fails if *)
(* a transfer did, and nothing else does.                                  *)
Conclude ==
    /\ at = "joined"
    /\ IF job.kind = "workflow" /\ step < Len(job.steps)
       THEN at' = "launch" /\ step' = step + 1 /\ report' = <<>>
       ELSE /\ at' = IF job.kind = "sync" /\ "bad" \in Range(report) THEN "failed" ELSE "ok"
            /\ UNCHANGED <<step, report>>
    /\ UNCHANGED <<host, job, targets, load, pool, bucket, ran>>

Item(i) == \/ Acquire(i) \/ Replies(i) \/ Begin(i) \/ Exit(i) \/ Lose(i) \/ Deny(i)
           \/ PushKey(i)

Next ==
    \/ Start \/ ListIds \/ ListTargets \/ Probe \/ Launch \/ Take \/ Tick \/ Join \/ Conclude
    \/ at = "pool" /\ \E i \in Items : Item(i)

Spec == Init /\ [][Next]_vars

(* The threads run, time passes, and ssh through a bastion is killed on    *)
(* its local timeout.  Nothing bounds ssh without a bastion, az vm user    *)
(* update, az vm stop and rsync.                                           *)
Fairness ==
    /\ WF_vars(Launch \/ Take \/ Join \/ Conclude) /\ WF_vars(Tick)
    /\ \A n \in Vms :
         /\ WF_vars(n \in Items /\ at = "pool" /\ Acquire(n))
         /\ WF_vars(n \in Items /\ at = "pool" /\ host[Vm(n)].bastion /\ Lose(n))

FairSpec == Spec /\ Fairness

-----------------------------------------------------------------------------
FleetTypeOK ==
    /\ job \in Jobs /\ at \in Ended \cup {"start", "list", "probe", "launch", "pool", "joined"}
    /\ Range(targets) \subseteq Vms /\ Len(targets) <= Size
    /\ load \in [Vms -> 0..(Top + 1)]
    /\ pool.next \in 1..(Len(pool.index) + 1)
    /\ pool.stage \in [Items -> InHand \cup {"waiting", "answered"}]
    /\ pool.slot \in [Items -> Answer \cup {"none"}]
    /\ bucket.tokens \in 0..Burst /\ step \in {1} \cup DOMAIN job.steps

(* What is shown for a VM is the last answer it gave, and every target     *)
(* gave one: whatever the order in which the threads end, over the         *)
(* reordering of --smart-route and through a retry of some.                *)
(* (for_each_bounded: "Results stay in input order whatever order the      *)
(* operations finish in".)                                                 *)
ReportedIsLast ==
    at \in {"joined", "ok", "failed"} /\ report # <<>> =>
        \A i \in DOMAIN targets :
            report[i] = ran[targets[i]].last /\ report[i] # "none"

(* A command reaches only VMs the selectors chose and the gates let pass,  *)
(* and --smart-route never passes over a quieter VM for a busier one; one  *)
(* that could not be measured is neither idle nor quiet.  (fleet_select.rs:*)
(* "A failed probe is *not* zero load".)                                   *)
OnlyChosen ==
    \A i \in Items : Stage(i) # "waiting" =>
        /\ host[Vm(i)].chosen
        /\ job.kind = "run" /\ job.gate => load[Vm(i)] < Limit
        /\ job.kind = "run" /\ job.smart =>
             \A w \in Chosen \ Range(targets) :
                 Before(w, Vm(i), load) => job.gate /\ load[w] >= Limit

(* However many threads contend, no more writes reach Azure than the       *)
(* bucket held at first and has refilled since.  (batch_progress.rs: "the  *)
(* burst it may open with".)                                               *)
Paced == bucket.issued <= Burst + bucket.ticks

Begins(i) ==
    at = "pool" /\ at' = at /\ Stage(i) \in {"link", "relink"}
    /\ pool'.index = pool.index /\ pool'.stage[i] \in {"running", "rerun"}

(* A command (or a step of a workflow) that succeeded on a VM is not given *)
(* to it again (--retry-failed: "Retry failed VMs once"), and a step of a  *)
(* workflow starts on a VM only after every VM has answered all steps      *)
(* before it (docs-site/batch/fleet.md: "Sequential multi-step workflows").*)
BeginsInTurn ==
    [][\A i \in Items : Begins(i) =>
         /\ ran[Vm(i)] # [last |-> "ok", step |-> step]
         /\ \A w \in Range(targets), k \in 1..(step - 1) :
               job.steps[k] => ran[w].step >= k]_vars

(* One VM that hangs does not hold the others: behind a bastion every      *)
(* command comes to an end, or waits for az to push a key; and whoever     *)
(* waits for a token gets one.                                             *)
Finishes ==
    /\ job.kind \in Exec /\ (\A v \in Vms : host[v].bastion) =>
         []<>(at \notin {"launch", "pool", "joined"} \/ \E i \in Items : Stage(i) = "key")
    /\ \A n \in Vms :
         (n \in Items /\ Stage(n) = "asleep")
             ~> ~ (n \in Items /\ Stage(n) \in {"asleep", "pace"})

=============================================================================
