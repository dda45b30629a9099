------------------------------ MODULE Teardown ------------------------------
(***************************************************************************)
(* Tearing VMs down (crates azlin-azure, teardown.rs, and azlin,           *)
(* handlers/teardown.rs and `killall` of cmd_lifecycle.rs).                *)
(*                                                                         *)
(* A teardown reads the VM, the disks, the NICs, the public IPs and the    *)
(* NSGs of the resource group one after the other, plans what to delete    *)
(* from what it has read, deletes it in dependency order, and re-reads     *)
(* what it had to skip as in use.  Meanwhile other teardowns run, VMs are  *)
(* created, resources are shared, calls fail.                              *)
(*                                                                         *)
(* A resource is named by its kind and the VM it was created for: the      *)
(* public IP <<"pip", v>> has the default name `<v>PublicIP`, and a VM's   *)
(* name is also the session tag of a VM that is not in a pool.             *)
(***************************************************************************)
EXTENDS Naturals, FiniteSets

CONSTANTS
    VMs,           \* VM names
    Users,         \* the running azlin commands
    NoVm, NoTag,
    PoolTag,       \* the base name of a pool
    PoolMembers,   \* the VMs created as members of that pool
    Prefixed,      \* the VMs whose names have the prefix given to killall
    Programs,      \* "destroy", "killall"
    Reruns,        \* TRUE: a user may run one command after another
    Creates,       \* TRUE: `azlin new` may run
    Faults,        \* TRUE: any az call may fail
    Lag,           \* TRUE: lists may report an association that is gone
    Sharing        \* TRUE: a subnet may start to use an NSG at any time

ASSUME ConstantsAssumption ==
    /\ NoVm \notin VMs /\ NoTag \notin VMs \cup {PoolTag}
    /\ PoolMembers \subseteq VMs /\ Prefixed \subseteq VMs
    /\ Programs \subseteq {"destroy", "killall"}
    /\ Reruns \in BOOLEAN /\ Creates \in BOOLEAN /\ Faults \in BOOLEAN
    /\ Lag \in BOOLEAN /\ Sharing \in BOOLEAN

VARIABLES
    live,      \* the resources that exist
    tag,       \* tag[r]: the azlin-session tag of r
    uses,      \* <<a, b>>: a refers to b, so that Azure refuses to delete b
    building,  \* the VMs an `azlin new` is creating
    built,     \* the VMs created so far (each name is created at most once)
    task       \* task[u]: the state of command u

vars == <<live, tag, uses, building, built, task>>

-----------------------------------------------------------------------------
(* Resources.  The home disk is a data disk, which `az vm create` attaches *)
(* with the delete option "Detach".                                        *)

Kinds == {"vm", "osdisk", "home", "nic", "pip", "nsg"}
Resource == Kinds \X VMs
Tags == VMs \cup {PoolTag, NoTag}
Outsiders == {"subnet", "natgw"}
User == Resource \cup (Outsiders \X {NoVm})
Subnet == <<"subnet", NoVm>>
NatGateway == <<"natgw", NoVm>>

OfKind(K) == {r \in Resource : r[1] \in K}
Session(v) == IF v \in PoolMembers THEN PoolTag ELSE v

UsersOf(r) == {a \in User : <<a, r>> \in uses}

(* The associations of a VM with everything it has. *)
Wiring(v) == { <<<<"vm", v>>, <<"osdisk", v>>>>, <<<<"vm", v>>, <<"home", v>>>>,
               <<<<"vm", v>>, <<"nic", v>>>>, <<<<"nic", v>>, <<"pip", v>>>>,
               <<<<"nic", v>>, <<"nsg", v>>>> }
Among(W, L) == {w \in W : w[1] \in L \cup {Subnet, NatGateway} /\ w[2] \in L}

Drop(R) ==
    /\ live' = live \ R
    /\ uses' = {w \in uses : w[1] \notin R /\ w[2] \notin R}

(* Azure's part of a deletion: a referenced resource stays; a VM takes its *)
(* OS disk and its NIC along, as their delete options say.                 *)
Refused(r) == UsersOf(r) # {}
Implicit(r) == {x \in live \cap OfKind({"osdisk", "nic"}) : <<r, x>> \in uses}
AzureDeletes(r) == \E X \in SUBSET Implicit(r) : Drop({r} \cup X)

-----------------------------------------------------------------------------
(* Commands. *)

Order == [vm |-> 0, osdisk |-> 1, home |-> 1, nic |-> 2, pip |-> 3, nsg |-> 4]

Task == [pc       : {"idle", "list", "relist", "next", "vm", "disks", "nics",
                     "pips", "nsgs", "delete", "repips", "rensgs", "redelete",
                     "done", "error"},
         prog     : {"destroy", "killall"},
         target   : VMs \cup {NoVm},
         confirmed: SUBSET VMs,       \* the VMs named in killall's prompt
         queue    : SUBSET VMs,       \* the VMs killall has still to do
         found    : BOOLEAN,          \* get_vm succeeded
         sess     : Tags,             \* session_tag
         nics     : SUBSET Resource,  \* target_nic_names
         todo     : SUBSET Resource,  \* planned and not yet deleted
         inUse    : SUBSET Resource,  \* skipped as InUse and reported
         failed   : SUBSET Resource]  \* failures

Idle == [pc |-> "idle", prog |-> "destroy", target |-> NoVm, confirmed |-> {},
         queue |-> {}, found |-> FALSE, sess |-> NoTag, nics |-> {},
         todo |-> {}, inUse |-> {}, failed |-> {}]

Fresh(t, v) == [t EXCEPT !.pc = "vm", !.target = v, !.found = FALSE,
                         !.sess = NoTag, !.nics = {}, !.todo = {},
                         !.inUse = {}, !.failed = {}]

World == <<live, tag, uses, building, built>>

Become(u, t) == task' = [task EXCEPT ![u] = t]

-----------------------------------------------------------------------------
(* Initially each VM has any of these sets of resources: none, all with a  *)
(* public address or behind the bastion, with or without a home disk, or   *)
(* what an `az vm delete` of an older azlin left of it.  They carry the    *)
(* session's tag or, made by hand, none.  A subnet may use an NSG, and a   *)
(* NAT gateway a public IP no NIC uses.                                    *)

Whole(v) == {<<"vm", v>>, <<"osdisk", v>>, <<"nic", v>>, <<"nsg", v>>}
Profile(v) == [none |-> {}, private |-> Whole(v),
               public |-> Whole(v) \cup {<<"pip", v>>, <<"home", v>>},
               leftover |-> {<<"pip", v>>, <<"nsg", v>>}]

Init ==
    \E have \in [VMs -> {"none", "private", "public", "leftover"}],
       handmade, shared, natted \in SUBSET VMs :
        /\ live = UNION {Profile(v)[have[v]] : v \in VMs}
        /\ tag = [r \in Resource |-> IF r \notin live \/ r[2] \in handmade
                                       THEN NoTag ELSE Session(r[2])]
        /\ \A v \in handmade : have[v] # "none"
        /\ \A v \in shared : <<"nsg", v>> \in live
        /\ \A v \in natted : <<"pip", v>> \in live /\ <<"nic", v>> \notin live
        /\ uses = Among(UNION {Wiring(v) : v \in VMs}, live)
                    \cup {<<Subnet, <<"nsg", v>>>> : v \in shared}
                    \cup {<<NatGateway, <<"pip", v>>>> : v \in natted}
        /\ building = {} /\ built = {}
        /\ task = [u \in Users |-> Idle]

-----------------------------------------------------------------------------
(* The world. *)

(* `azlin new` starts: the home disk, the public IP and the NSG come first,*)
(* each tagged with the session; then the NIC, then the VM.                *)
BuildStart(v) ==
    /\ Creates /\ v \notin built
    /\ \A r \in live : r[2] # v
    /\ live' = live \cup {<<"home", v>>, <<"nsg", v>>, <<"pip", v>>}
    /\ tag' = [r \in Resource |-> IF r[2] = v THEN Session(v) ELSE tag[r]]
    /\ building' = building \cup {v}
    /\ built' = built \cup {v}
    /\ UNCHANGED <<uses, task>>

BuildNic(v) ==
    /\ v \in building
    /\ <<"nic", v>> \notin live
    /\ {<<"nsg", v>>, <<"pip", v>>} \subseteq live
    /\ live' = live \cup {<<"nic", v>>}
    /\ uses' = uses \cup Among(Wiring(v), live')
    /\ UNCHANGED <<tag, building, built, task>>

BuildVm(v) ==
    /\ v \in building
    /\ {<<"nic", v>>, <<"home", v>>} \subseteq live
    /\ live' = live \cup {<<"vm", v>>, <<"osdisk", v>>}
    /\ uses' = uses \cup Among(Wiring(v), live')
    /\ building' = building \ {v}
    /\ UNCHANGED <<tag, built, task>>

(* The creation fails: the home disk is deleted, best effort, and what     *)
(* `az vm create` had made stays.                                          *)
BuildFail(v) ==
    /\ v \in building
    /\ building' = building \ {v}
    /\ Drop({<<"home", v>>}) \/ UNCHANGED <<live, uses>>
    /\ UNCHANGED <<tag, built, task>>

(* Somebody puts a subnet behind an NSG. *)
Share(r) ==
    /\ Sharing
    /\ r \in live \cap OfKind({"nsg"})
    /\ uses' = uses \cup {<<Subnet, r>>}
    /\ UNCHANGED <<live, tag, building, built, task>>

-----------------------------------------------------------------------------
(* Starting. *)

Stopped(u) ==
    \/ task[u].pc = "idle"
    \/ Reruns /\ task[u].pc \in {"done", "error"} /\ task[u].queue = {}

Destroy(u, v) ==
    /\ "destroy" \in Programs /\ Stopped(u)
    /\ Become(u, Fresh(Idle, v))
    /\ UNCHANGED World

Killall(u) ==
    /\ "killall" \in Programs /\ Stopped(u)
    /\ Become(u, [Idle EXCEPT !.pc = "list", !.prog = "killall"])
    /\ UNCHANGED World

Listed == {v \in Prefixed : <<"vm", v>> \in live}

(* The VMs with the prefix are listed for the prompt, ... *)
KillallList(u) ==
    /\ task[u].pc = "list"
    /\ IF Listed = {} THEN Become(u, [task[u] EXCEPT !.pc = "done"])
                      ELSE Become(u, [task[u] EXCEPT !.pc = "relist",
                                                     !.confirmed = Listed])
    /\ UNCHANGED World

(* ... and listed again once confirmed; narrow_to_confirmed.              *)
KillallRelist(u) ==
    /\ task[u].pc = "relist"
    /\ Become(u, [task[u] EXCEPT !.pc = "done",
                                 !.queue = Listed \cap task[u].confirmed])
    /\ UNCHANGED World

(* The user does not confirm. *)
KillallDecline(u) ==
    /\ task[u].pc = "relist"
    /\ Become(u, [task[u] EXCEPT !.pc = "done"])
    /\ UNCHANGED World

(* The next VM's turn, whatever became of the one before. *)
KillallNext(u, v) ==
    /\ task[u].pc \in {"done", "error"}
    /\ v \in task[u].queue
    /\ Become(u, Fresh([task[u] EXCEPT !.queue = @ \ {v}], v))
    /\ UNCHANGED World

-----------------------------------------------------------------------------
(* build_teardown_plan *)

(* Any failure of get_vm counts as "the VM does not exist".                *)
GetVm(u) ==
    LET v == task[u].target
        yes == [task[u] EXCEPT !.pc = "disks", !.found = TRUE,
                   !.sess = tag[<<"vm", v>>], !.todo = {<<"vm", v>>}]
        no == [task[u] EXCEPT !.pc = "disks", !.sess = v]
    IN  /\ task[u].pc = "vm"
        /\ \/ <<"vm", v>> \in live /\ Become(u, yes)
           \/ (<<"vm", v>> \notin live \/ Faults) /\ Become(u, no)
        /\ UNCHANGED World

AttachedTo(v, K) == {r \in live \cap OfKind(K) : <<<<"vm", v>>, r>> \in uses}

ListDisks(u) ==
    /\ task[u].pc = "disks"
    /\ Become(u, [task[u] EXCEPT !.pc = "nics",
                    !.todo = @ \cup AttachedTo(task[u].target, {"osdisk", "home"})])
    /\ UNCHANGED World

ListNics(u) ==
    LET N == AttachedTo(task[u].target, {"nic"})
    IN  /\ task[u].pc = "nics"
        /\ Become(u, [task[u] EXCEPT !.pc = "pips", !.nics = N, !.todo = @ \cup N])
        /\ UNCHANGED World

(* No association, or none but with a NIC of the target. *)
Free(r, nics, ghosts) == r \notin ghosts /\ UsersOf(r) \subseteq nics

NameHint(t, r) == ~t.found /\ r[2] = t.target

\* Altered: a tag is not asked for.
Owned_AnyTag(t, r) == tag[r] = t.sess \/ NameHint(t, r)

Owned(t, r) == tag[r] # NoTag /\ (tag[r] = t.sess \/ NameHint(t, r))

(* classify, for the public IPs or the NSGs: what to delete and to skip.   *)
(* (A free one without a tag is only mentioned to the user.)               *)
Classified(t, K, ghosts) ==
    LET seen == live \cap OfKind(K)
        free == {r \in seen : Free(r, t.nics, ghosts)}
    IN  [t EXCEPT !.todo = @ \cup {r \in free : Owned(t, r)},
                  !.inUse = @ \cup {r \in seen \ free : Owned(t, r)}]

(* The lists may lag: associations that are gone are still reported.       *)
Ghosts(K) == IF Lag THEN SUBSET (live \cap OfKind(K)) ELSE {{}}

ListPips(u) ==
    /\ task[u].pc = "pips"
    /\ \E G \in Ghosts({"pip"}) :
          Become(u, [Classified(task[u], {"pip"}, G) EXCEPT !.pc = "nsgs"])
    /\ UNCHANGED World

ListNsgs(u) ==
    /\ task[u].pc = "nsgs"
    /\ \E G \in Ghosts({"nsg"}) :
          LET t == Classified(task[u], {"nsg"}, G)
          IN  Become(u, [t EXCEPT !.pc = IF t.todo = {} THEN "done" ELSE "delete"])
    /\ UNCHANGED World

(* A list fails. *)
ListError(u) ==
    /\ Faults
    /\ task[u].pc \in {"list", "relist", "disks", "nics", "pips", "nsgs"}
    /\ Become(u, [task[u] EXCEPT !.pc = "error"])
    /\ UNCHANGED World

-----------------------------------------------------------------------------
(* execute_teardown *)

\* Altered: the NIC goes last.
First_NicLast(t, r) ==
    \A s \in t.todo : s[1] = "nic" \/ (r[1] # "nic" /\ Order[r[1]] <= Order[s[1]])

First(t, r) == \A s \in t.todo : Order[r[1]] <= Order[s[1]]

(* One deletion.  A resource that is gone counts as deleted - except that  *)
(* delete_vm does not tolerate it when az reports it.  With faults the     *)
(* call may fail before or after Azure has done the work.                  *)
Delete(u, r) ==
    LET t == task[u]
        deleted == Become(u, [t EXCEPT !.todo = @ \ {r}])
        fails == Become(u, [t EXCEPT !.todo = @ \ {r}, !.failed = @ \cup {r}])
        done == IF r \in live THEN AzureDeletes(r) ELSE UNCHANGED <<live, uses>>
    IN  /\ t.pc \in {"delete", "redelete"}
        /\ r \in t.todo /\ First(t, r)
        /\ \/ ~Refused(r) /\ done /\ deleted
           \/ (Refused(r) \/ Faults \/ (r[1] = "vm" /\ r \notin live))
                /\ fails /\ UNCHANGED <<live, uses>>
           \/ Faults /\ ~Refused(r) /\ done /\ fails
        /\ UNCHANGED <<tag, building, built>>

(* Everything was attempted; what was skipped as in use is looked at again.*)
Attempted(u) ==
    LET t == task[u]
    IN  /\ t.todo = {}
        /\ \/ t.pc = "delete" /\ Become(u, [t EXCEPT !.pc =
                                    IF t.inUse = {} THEN "done" ELSE "repips"])
           \/ t.pc = "redelete" /\ Become(u, [t EXCEPT !.pc = "done"])
        /\ UNCHANGED World

(* plan_recheck: what was skipped as in use, is owned, and is now free of  *)
(* any association.                                                        *)
OwnedStill(t, r) == tag[r] = t.sess \/ (tag[r] # NoTag /\ NameHint(t, r))

Freed(t, K, ghosts) ==
    {r \in t.inUse \cap live \cap OfKind(K) :
        OwnedStill(t, r) /\ Free(r, {}, ghosts)}

RecheckPips(u) ==
    /\ task[u].pc = "repips"
    /\ \E G \in Ghosts({"pip"}) :
          Become(u, [task[u] EXCEPT !.pc = "rensgs", !.todo = Freed(task[u], {"pip"}, G)])
    /\ UNCHANGED World

\* Altered: the freed resources are no longer reported nor deleted.
RecheckNsgs_Forgotten(u) ==
    /\ task[u].pc = "rensgs"
    /\ \E G \in Ghosts({"nsg"}) :
          Become(u, [task[u] EXCEPT !.pc = "redelete",
                       !.inUse = @ \ (task[u].todo \cup Freed(task[u], {"nsg"}, G)),
                       !.todo = {}])
    /\ UNCHANGED World

RecheckNsgs(u) ==
    /\ task[u].pc = "rensgs"
    /\ \E G \in Ghosts({"nsg"}) :
          LET F == task[u].todo \cup Freed(task[u], {"nsg"}, G)
          IN  Become(u, [task[u] EXCEPT !.pc = "redelete", !.todo = F,
                                        !.inUse = @ \ F])
    /\ UNCHANGED World

(* A list fails: nothing is freed. *)
RecheckError(u) ==
    /\ Faults
    /\ task[u].pc \in {"repips", "rensgs"}
    /\ Become(u, [task[u] EXCEPT !.pc = "redelete", !.todo = {}])
    /\ UNCHANGED World

(* The command is killed. *)
Killed(u) ==
    /\ Faults
    /\ task[u].pc # "idle"
    /\ Become(u, Idle)
    /\ UNCHANGED World

-----------------------------------------------------------------------------

Command(u) ==
    \/ Killall(u) \/ KillallList(u) \/ KillallRelist(u)
    \/ KillallDecline(u)
    \/ \E v \in VMs : Destroy(u, v) \/ KillallNext(u, v)
    \/ GetVm(u) \/ ListDisks(u) \/ ListNics(u) \/ ListPips(u) \/ ListNsgs(u)
    \/ ListError(u)
    \/ \E r \in Resource : Delete(u, r)
    \/ Attempted(u) \/ RecheckPips(u) \/ RecheckNsgs(u) \/ RecheckError(u)
    \/ Killed(u)

Environment ==
    \/ \E v \in VMs : BuildStart(v) \/ BuildNic(v) \/ BuildVm(v) \/ BuildFail(v)
    \/ \E r \in Resource : Share(r)

Next == (\E u \in Users : Command(u)) \/ Environment

Spec == Init /\ [][Next]_vars

(* A resource group in which nothing is created meanwhile. *)
Unbuilt == (\E u \in Users : Command(u)) \/ \E r \in Resource : Share(r)
UnbuiltSpec == Init /\ [][Unbuilt]_vars

-----------------------------------------------------------------------------
(* Properties. *)

(* Every variable has its type. *)
TypeOK ==
    /\ live \in SUBSET Resource
    /\ tag \in [Resource -> Tags]
    /\ uses \in SUBSET (User \X Resource)
    /\ building \in SUBSET VMs
    /\ built \in SUBSET VMs
    /\ task \in [Users -> Task]

(* A public IP or an NSG that a teardown has planned to delete carries a    *)
(* tag, and it is the tag of the session torn down or the resource is the  *)
(* default-named one of a VM that is gone - in the first pass and in the   *)
(* recheck, and however the world changes before the deletion.             *)
PlanStaysInSession ==
    \A u \in Users : \A r \in task[u].todo :
        r[1] \in {"pip", "nsg"} =>
            /\ tag[r] # NoTag
            /\ tag[r] = task[u].sess \/ NameHint(task[u], r)

(* A deletion never reaches a VM, disk or NIC of another VM, nor a public  *)
(* IP or NSG of a session the target is not in.                            *)
SparesOtherSessions ==
    [][\A u \in Users : \A r \in live \ live' :
          task[u].pc \in {"delete", "redelete"} /\ task'[u] # task[u] =>
              \/ r[2] = task[u].target
              \/ /\ r[1] \in {"pip", "nsg"}
                 /\ tag[r] = Session(r[2]) /\ task[u].sess = tag[r]]_vars

(* The dependency order is right: with nobody else at work Azure refuses a  *)
(* deletion only after another one of the plan has failed, or because the  *)
(* plan was made blind (get_vm failed on a VM that exists), or because a   *)
(* subnet was put behind the NSG meanwhile - whatever the lists misreport, *)
(* and whatever an earlier teardown of the VM, killed half-way, has left.  *)
DependenciesFirst ==
    [][\A u \in Users : \A r \in task'[u].failed \ task[u].failed :
          LET t == task[u]
          IN  Refused(r) =>
                 \/ t.failed # {}
                 \/ ~t.found /\ <<"vm", t.target>> \in live
                 \/ <<Subnet, r>> \in uses]_vars

Finishes(u) == /\ task[u].pc \in {"nsgs", "delete", "redelete"}
               /\ task'[u].pc = "done"
               /\ task'[u].failed = {}

(* When a teardown reports success the VM is gone, and everything that was *)
(* its own is gone too or is reported as left in place: its disks and NIC, *)
(* if it was found, and the tagged public IP and NSG of its default names, *)
(* pool member or not.  (Its name has not been given to a new VM meanwhile.)*)
SuccessMeansReclaimed ==
    [][\A u \in Users :
          LET t == task[u]
              mine == {r \in live' : r[2] = t.target}
          IN  Finishes(u) /\ t.target \notin built =>
              \A r \in mine :
                  \/ r[1] \in {"pip", "nsg"} /\ (tag[r] = NoTag \/ r \in task'[u].inUse)
                  \/ r[1] \in {"osdisk", "home", "nic"} /\ ~t.found]_vars

=============================================================================
