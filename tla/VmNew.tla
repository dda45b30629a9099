------------------------------- MODULE VmNew -------------------------------
(***************************************************************************)
(* azlin new: the bastion and NAT gateway of the region, the egress gate,  *)
(* the pool loop, and what is left behind when a step of it fails (crate   *)
(* azlin: cmd_vm_ops.rs, egress_gate.rs, nat_helpers.rs,                   *)
(* bastion_helpers.rs, auth_forward.rs; VmManager::create_vm of crate      *)
(* azlin-azure).                                                           *)
(*                                                                         *)
(* Several runs create VMs in one region at once.  Their names for the     *)
(* network are the same, so they share one VNet, one bastion and one NAT   *)
(* gateway.  The owner of the subscription may attach a gateway of his own *)
(* to the subnet, or detach one, whenever no write to it is in flight.     *)
(* Each call of az is a step of its own; one that is killed on its timeout *)
(* may still be carried out by Azure.                                      *)
(***************************************************************************)
EXTENDS Naturals, FiniteSets

CONSTANTS
    Runs,        \* invocations of azlin new
    Orders,      \* what they may be asked for
    Names,       \* the --name values in use
    MaxPool,     \* bound: the largest --pool
    MaxForeign,  \* bound: what the owner does to the subnet himself
    Nobody

Order == [name : Names, count : 1..MaxPool, public : BOOLEAN, tmp : BOOLEAN,
          key : BOOLEAN, repo : {"none", "valid", "invalid"}]

ASSUME ConstantsAssumption ==
    /\ Nobody \notin Runs /\ MaxPool \in Nat \ {0} /\ MaxForeign \in Nat
    /\ Orders \subseteq Order

VARIABLES
    net,     \* the region's network: VNet, bastion, gateway, subnet
    vm,      \* vm[n]: the VM called n
    disk,    \* disk[d]: the managed disk d
    run,     \* run[p]: the progress of invocation p
    foreign  \* bound: the owner's own changes so far

vars == <<net, vm, disk, run, foreign>>

VmName == Names \X (1..MaxPool)
Disk == VmName \X {"home", "tmp"}

-----------------------------------------------------------------------------
(* The region.  gateway is what the subnet is associated with: nothing,    *)
(* azlin's own gateway, or one of the owner's.  writer is the run whose    *)
(* update of the subnet is in flight.                                      *)

Gateway == {"none", "own", "foreign"}
Net == [vnet : BOOLEAN, bastion : BOOLEAN, pip : BOOLEAN, natgw : BOOLEAN,
        gateway : Gateway, writer : Runs \cup {Nobody}]
Bare == [vnet |-> FALSE, bastion |-> FALSE, pip |-> FALSE, natgw |-> FALSE,
         gateway |-> "none", writer |-> Nobody]

(* A VM that az was killed over is "pending": Azure still decides.         *)
(* data: the disks it was ordered with.  blind: a probe on it found no way *)
(* out.                                                                    *)
Vm == [state : {"none", "pending", "up"}, data : SUBSET Disk, blind : BOOLEAN]
NoVm == [state |-> "none", data |-> {}, blind |-> FALSE]

Network == {"bastion", "vnet", "host"}
Gate == {"detect", "prompt", "ensure", "pip", "natgw", "attach", "attaching", "recheck"}
PastGate == {"home", "tmp", "create", "cleanup", "reach", "probe", "finish"}
Ended == {"ok", "failed", "killed"}
Running == Network \cup Gate \cup PastGate

(* disks is disk_ids, degraded is DegradedVms.  The history: since says    *)
(* that the owner attached a gateway after the run had looked for the last *)
(* time, lost that he took one away after it, and stray holds the disks    *)
(* whose creation was killed or whose deletion failed.                     *)
Run == [at : Running \cup Ended \cup {"idle"}, order : Orders, public : BOOLEAN,
        member : 1..MaxPool, disks : SUBSET Disk, degraded : SUBSET VmName,
        tries : 0..3, since : BOOLEAN, lost : BOOLEAN, stray : SUBSET Disk]

-----------------------------------------------------------------------------
Init ==
    /\ \E v, b \in BOOLEAN : net = [Bare EXCEPT !.vnet = v, !.bastion = b]
    /\ vm = [n \in VmName |-> NoVm]
    /\ disk = [d \in Disk |-> "none"]
    /\ \E order \in [Runs -> Orders] :
         run = [p \in Runs |->
                  [at |-> "idle", order |-> order[p], public |-> order[p].public,
                   member |-> 1, disks |-> {}, degraded |-> {}, tries |-> 0,
                   since |-> FALSE, lost |-> FALSE, stray |-> {}]]
    /\ foreign = 0

At(p, l) == run[p].at = l
Goto(p, l) == run' = [run EXCEPT ![p].at = l]
Fails(p) == Goto(p, "failed")

Member(p) == <<run[p].order.name, run[p].member>>

-----------------------------------------------------------------------------
(* handle_vm_new up to the bastion.  --public skips both checks.           *)

Start(p) ==
    /\ At(p, "idle")
    /\ Goto(p, IF run[p].public THEN "home" ELSE "bastion")
    /\ UNCHANGED <<net, vm, disk, foreign>>

(* A list of bastions that cannot be read counts as empty.  The answer to  *)
(* the prompt: create it, give the VM a public IP instead, or abort.       *)
FindBastion(p) ==
    /\ At(p, "bastion")
    /\ \/ net.bastion /\ Goto(p, "detect")
       \/ Goto(p, "vnet")
       \/ run' = [run EXCEPT ![p].at = "home", ![p].public = TRUE]
       \/ Fails(p)
    /\ UNCHANGED <<net, vm, disk, foreign>>

(* ensure_bastion_infrastructure.  Each create is a create-or-update: what *)
(* is there already stays as it is.                                        *)
EnsureVnet(p) ==
    /\ At(p, "vnet")
    /\ \/ net' = [net EXCEPT !.vnet = TRUE] /\ Goto(p, "host")
       \/ UNCHANGED net /\ Fails(p)
    /\ UNCHANGED <<vm, disk, foreign>>

EnsureHost(p) ==
    /\ At(p, "host")
    /\ \/ net' = [net EXCEPT !.bastion = TRUE] /\ Goto(p, "detect")
       \/ UNCHANGED net /\ Fails(p)
    /\ UNCHANGED <<vm, disk, foreign>>

-----------------------------------------------------------------------------
(* The egress gate.  A read of the subnet is tried twice, and then it is   *)
(* an error, never an answer.                                              *)

Looks(p, absent) ==
    \/ /\ net.vnet /\ net.gateway # "none"
       /\ run' = [run EXCEPT ![p].at = "home", ![p].since = FALSE, ![p].lost = FALSE]
    \/ /\ net.vnet /\ net.gateway = "none"
       /\ run' = [run EXCEPT ![p].at = absent, ![p].since = FALSE, ![p].lost = FALSE]
    \/ Fails(p)

Detect(p) ==
    /\ At(p, "detect")
    /\ Looks(p, "prompt")
    /\ UNCHANGED <<net, vm, disk, foreign>>

(* The user may take his time over the prompt; without a terminal, or with *)
(* --yes, the answer is to create the gateway.                             *)
Prompt(p) ==
    /\ At(p, "prompt")
    /\ \/ Goto(p, "ensure")
       \/ run' = [run EXCEPT ![p].at = "home", ![p].public = TRUE]
       \/ Fails(p)
    /\ UNCHANGED <<net, vm, disk, foreign>>

\* Altered: what the gate saw before the prompt is good enough.
Ensure_Unread(p) ==
    /\ At(p, "ensure")
    /\ Goto(p, "pip")
    /\ UNCHANGED <<net, vm, disk, foreign>>

(* ensure_nat_gateway looks again before it provisions anything.           *)
Ensure(p) ==
    /\ At(p, "ensure")
    /\ Looks(p, "pip")
    /\ UNCHANGED <<net, vm, disk, foreign>>

CreatePip(p) ==
    /\ At(p, "pip")
    /\ \/ net' = [net EXCEPT !.pip = TRUE] /\ Goto(p, "natgw")
       \/ UNCHANGED net /\ Fails(p)
    /\ UNCHANGED <<vm, disk, foreign>>

CreateNatGateway(p) ==
    /\ At(p, "natgw")
    /\ \/ net' = [net EXCEPT !.natgw = TRUE] /\ Goto(p, "attach")
       \/ UNCHANGED net /\ Fails(p)
    /\ UNCHANGED <<vm, disk, foreign>>

(* The update of the subnet.  While another's is in flight it conflicts    *)
(* (as it does with a write of the owner's).                               *)
Attach(p) ==
    /\ At(p, "attach")
    /\ \/ /\ net.writer = Nobody
          /\ net' = [net EXCEPT !.writer = p]
          /\ Goto(p, "attaching")
       \/ /\ run' = [run EXCEPT ![p].at = "recheck", ![p].tries = 3]
          /\ UNCHANGED net
       \/ UNCHANGED net /\ Fails(p)
    /\ UNCHANGED <<vm, disk, foreign>>

(* Azure commits the update whether its run is alive or not; it replaces   *)
(* whatever the subnet had.                                                *)
Commit(p) ==
    /\ net.writer = p
    /\ net' = [net EXCEPT !.writer = Nobody, !.gateway = "own"]
    /\ IF At(p, "attaching")
       THEN run' = [run EXCEPT ![p].at = "home", ![p].lost = FALSE]
       ELSE UNCHANGED run
    /\ UNCHANGED <<vm, disk, foreign>>

CommitFails(p) ==
    /\ net.writer = p
    /\ net' = [net EXCEPT !.writer = Nobody]
    /\ IF At(p, "attaching") THEN Fails(p) ELSE UNCHANGED run
    /\ UNCHANGED <<vm, disk, foreign>>

\* Altered: a conflict is taken for the other run's success.
Recheck_Trusts(p) ==
    /\ At(p, "recheck")
    /\ run' = [run EXCEPT ![p].at = "home", ![p].lost = FALSE]
    /\ UNCHANGED <<net, vm, disk, foreign>>

(* resolve_attach_conflict: three looks, each after a wait.                *)
Recheck(p) ==
    /\ At(p, "recheck")
    /\ \/ /\ net.gateway # "none"
          /\ run' = [run EXCEPT ![p].at = "home", ![p].lost = FALSE]
       \/ /\ net.gateway = "none" /\ run[p].tries > 1
          /\ run' = [run EXCEPT ![p].tries = @ - 1]
       \/ /\ net.gateway = "none" /\ run[p].tries = 1
          /\ Fails(p)
       \/ Fails(p)
    /\ UNCHANGED <<net, vm, disk, foreign>>

-----------------------------------------------------------------------------
(* One member of the pool.  create_managed_disk: az creates the disk, or   *)
(* hands out the one of that name; it fails; or it is killed and the disk  *)
(* is created all the same.                                                *)

NextDisk(p) == IF run[p].order.tmp /\ At(p, "home") THEN "tmp" ELSE "create"

CreateDisk(p) ==
    \E role \in {"home", "tmp"} :
        LET d == <<Member(p), role>>
            made == IF disk[d] = "none" THEN [disk EXCEPT ![d] = "free"] ELSE disk
        IN  /\ At(p, role)
            /\ \/ /\ disk' = made
                  /\ run' = [run EXCEPT ![p].at = NextDisk(p), ![p].disks = @ \cup {d}]
               \/ disk' = disk /\ Goto(p, "cleanup")
               \/ /\ disk' = made
                  /\ run' = [run EXCEPT ![p].at = "cleanup", ![p].stray = @ \cup {d}]
            /\ UNCHANGED <<net, vm, foreign>>

Attached(D) == [d \in Disk |-> IF d \in D THEN "attached" ELSE disk[d]]

(* Azure can make the VM when the name and all its disks are free and, for *)
(* a private one, the VNet is there.                                       *)
CanCreate(p) ==
    /\ vm[Member(p)].state = "none"
    /\ \A d \in run[p].disks : disk[d] = "free"
    /\ run[p].public \/ net.vnet

Made(p, s) == [state |-> s, data |-> run[p].disks, blind |-> FALSE]

(* VmManager::create_vm: created; created, but its details cannot be read; *)
(* killed with Azure still at it; refused.                                 *)
CreateVm(p) ==
    /\ At(p, "create")
    /\ \/ /\ CanCreate(p)
          /\ vm' = [vm EXCEPT ![Member(p)] = Made(p, "up")]
          /\ disk' = Attached(run[p].disks)
          /\ \E l \in {"reach", "cleanup"} : Goto(p, l)
       \/ /\ CanCreate(p)
          /\ vm' = [vm EXCEPT ![Member(p)] = Made(p, "pending")]
          /\ Goto(p, "cleanup")
          /\ UNCHANGED disk
       \/ Goto(p, "cleanup") /\ UNCHANGED <<vm, disk>>
    /\ UNCHANGED <<net, foreign>>

(* Azure ends a creation nobody waits for; if a disk of it has been        *)
(* deleted meanwhile there is no VM.                                       *)
Settle(n) ==
    /\ vm[n].state = "pending"
    /\ \/ /\ \A d \in vm[n].data : disk[d] = "free"
          /\ vm' = [vm EXCEPT ![n].state = "up"]
          /\ disk' = Attached(vm[n].data)
       \/ vm' = [vm EXCEPT ![n] = NoVm] /\ UNCHANGED disk
    /\ UNCHANGED <<net, run, foreign>>

\* Altered: the first disk is not remembered for the clean-up.
CleanUp_TmpOnly(p) ==
    /\ At(p, "cleanup")
    /\ IF \A d \in run[p].disks : d[2] = "home"
       THEN Fails(p) /\ UNCHANGED disk
       ELSE \E d \in run[p].disks :
              /\ d[2] = "tmp"
              /\ disk' = [disk EXCEPT ![d] = IF @ = "free" THEN "none" ELSE @]
              /\ run' = [run EXCEPT ![p].disks = @ \ {d}]
    /\ UNCHANGED <<net, vm, foreign>>

(* cleanup_orphaned_disks, best effort: Azure refuses to delete a disk     *)
(* that is attached, and a call may fail.  The run fails after it.         *)
CleanUp(p) ==
    /\ At(p, "cleanup")
    /\ \/ run[p].disks = {} /\ Fails(p) /\ UNCHANGED disk
       \/ \E d \in run[p].disks :
            \/ /\ disk[d] # "attached"
               /\ disk' = [disk EXCEPT ![d] = "none"]
               /\ run' = [run EXCEPT ![p].disks = @ \ {d}]
            \/ /\ UNCHANGED disk
               /\ run' = [run EXCEPT ![p].disks = @ \ {d}, ![p].stray = @ \cup {d}]
    /\ UNCHANGED <<net, vm, foreign>>

-----------------------------------------------------------------------------
(* The VM is made and its table printed.  Without the private key the loop *)
(* goes on to the next member.                                             *)

Last(p) == run[p].member = run[p].order.count

NextMember(p, D) ==
    run' = [run EXCEPT ![p].at = IF Last(p) THEN "finish" ELSE "home",
                       ![p].member = IF Last(p) THEN @ ELSE @ + 1,
                       ![p].disks = {}, ![p].degraded = D]

(* The target is resolved, the tunnel opened and the guest waited for.  An *)
(* error of these, as of cloud-init, ends the run; SSH that does not come  *)
(* up in time only takes the probe away.                                   *)
Reach(p) ==
    /\ At(p, "reach")
    /\ \/ ~ run[p].order.key /\ NextMember(p, run[p].degraded)
       \/ run[p].order.key /\ Goto(p, "probe")
       \/ run[p].order.key /\ Fails(p)
    /\ UNCHANGED <<net, vm, disk, foreign>>

(* The rest of the member: credentials are forwarded (best effort), the    *)
(* home is seeded (its error ends the run), the repository cloned.  An URL *)
(* that cannot be cloned ends the run as a success.                        *)
AfterProbe(p, D) ==
    \/ run[p].order.repo # "invalid" /\ NextMember(p, D)
    \/ run[p].order.repo = "invalid" /\ Goto(p, "ok")
    \/ Fails(p)

\* Altered: a VM that failed the probe is only printed.
Probe_PrintsOnly(p) ==
    /\ At(p, "probe")
    /\ \E failed \in IF run[p].public \/ net.gateway # "none"
                     THEN {FALSE} ELSE {FALSE, TRUE} :
         /\ vm' = IF failed THEN [vm EXCEPT ![Member(p)].blind = TRUE] ELSE vm
         /\ AfterProbe(p, run[p].degraded)
    /\ UNCHANGED <<net, disk, foreign>>

(* The probe of a private VM fails when there is no gateway, or says       *)
(* nothing; a VM with a public IP is not probed.                           *)
Probe(p) ==
    /\ At(p, "probe")
    /\ \E failed \in IF run[p].public \/ net.gateway # "none"
                     THEN {FALSE} ELSE {FALSE, TRUE} :
         IF failed
         THEN /\ vm' = [vm EXCEPT ![Member(p)].blind = TRUE]
              /\ AfterProbe(p, run[p].degraded \cup {Member(p)})
         ELSE UNCHANGED vm /\ AfterProbe(p, run[p].degraded)
    /\ UNCHANGED <<net, disk, foreign>>

(* DegradedVms::into_failure.                                              *)
Finish(p) ==
    /\ At(p, "finish")
    /\ Goto(p, IF run[p].degraded = {} THEN "ok" ELSE "failed")
    /\ UNCHANGED <<net, vm, disk, foreign>>

Kill(p) ==
    /\ run[p].at \in Running
    /\ Goto(p, "killed")
    /\ UNCHANGED <<net, vm, disk, foreign>>

-----------------------------------------------------------------------------
(* The owner of the subnet.                                                *)

OwnerAttaches ==
    /\ net.vnet /\ net.writer = Nobody /\ foreign < MaxForeign
    /\ net' = [net EXCEPT !.gateway = "foreign"]
    /\ run' = [p \in Runs |-> [run[p] EXCEPT
                                  !.since = @ \/ run[p].at \in {"pip", "natgw", "attach"}]]
    /\ foreign' = foreign + 1
    /\ UNCHANGED <<vm, disk>>

OwnerDetaches ==
    /\ net.gateway # "none" /\ net.writer = Nobody /\ foreign < MaxForeign
    /\ net' = [net EXCEPT !.gateway = "none"]
    /\ run' = [p \in Runs |-> [run[p] EXCEPT !.lost = TRUE]]
    /\ foreign' = foreign + 1
    /\ UNCHANGED <<vm, disk>>

-----------------------------------------------------------------------------
Opening(p) == Start(p) \/ FindBastion(p) \/ EnsureVnet(p) \/ EnsureHost(p)
Gating(p) ==
    \/ Detect(p) \/ Prompt(p) \/ Ensure(p) \/ CreatePip(p) \/ CreateNatGateway(p)
    \/ Attach(p) \/ Commit(p) \/ CommitFails(p) \/ Recheck(p)
Creating(p) ==
    \/ CreateDisk(p) \/ CreateVm(p) \/ CleanUp(p) \/ Reach(p) \/ Probe(p) \/ Finish(p)

Next ==
    \/ \E p \in Runs : Opening(p) \/ Gating(p) \/ Creating(p) \/ Kill(p)
    \/ \E n \in VmName : Settle(n)
    \/ OwnerAttaches \/ OwnerDetaches

Spec == Init /\ [][Next]_vars

-----------------------------------------------------------------------------
TypeOK ==
    /\ net \in Net
    /\ vm \in [VmName -> Vm]
    /\ disk \in [Disk -> {"none", "free", "attached"}]
    /\ run \in [Runs -> Run]
    /\ foreign \in 0..MaxForeign

(* A run that gets past the gate with a private VM has egress for it:      *)
(* while it creates VMs the subnet has a gateway, unless its owner took it *)
(* away after the run last knew of one.  (egress_gate.rs, R4: "never fall  *)
(* through to az vm create without egress".)                               *)
GateHolds ==
    \A p \in Runs : run[p].at \in PastGate /\ ~ run[p].public =>
        net.gateway # "none" \/ run[p].lost

(* A gateway of the owner's is replaced by azlin's only when it came after *)
(* the writing run had looked at the subnet for the last time.             *)
NeverRepoints ==
    [][\A p \in Runs :
         net.writer = p /\ net.gateway = "foreign" /\ net'.gateway = "own" => run[p].since]_vars

(* The exit code 0 of a run whose repository, if any, could be cloned (what *)
(* an URL that cannot be cloned does to the exit code is told in README).  *)
Succeeds(p) == At(p, "ok") /\ run[p].order.repo # "invalid"

(* A run that exits with success has reported no VM it knows to be without *)
(* egress.  (egress_gate.rs, R5.)                                          *)
SuccessMeansEgress ==
    \A p \in Runs : Succeeds(p) =>
        \A i \in 1..run[p].order.count : ~ vm[<<run[p].order.name, i>>].blind

(* A run that exits with success has made every VM it was asked for.       *)
SuccessMeansAll ==
    \A p \in Runs : Succeeds(p) =>
        \A i \in 1..run[p].order.count : vm[<<run[p].order.name, i>>].state = "up"

(* azlin new ends with success only on what it has made, and only if what  *)
(* it has made can reach out.                                              *)
SuccessIsEarned == SuccessMeansEgress /\ SuccessMeansAll

(* When a run fails, each disk of its last member is deleted, belongs to a *)
(* VM, or is one of those azlin warned of or never heard of (unless another *)
(* run makes a VM of the same name).  (cmd_vm_ops.rs: "Clean up orphaned   *)
(* disks on VM creation failure".)                                         *)
FailureLeavesNoDisk ==
    \A p \in Runs :
        At(p, "failed") /\ (\A q \in Runs \ {p} : run[q].order.name # run[p].order.name) =>
        \A role \in {"home", "tmp"} :
            disk[<<Member(p), role>>] = "free" => <<Member(p), role>> \in run[p].stray

=============================================================================
