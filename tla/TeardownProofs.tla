--------------------------- MODULE TeardownProofs ---------------------------
(***************************************************************************)
(* Proofs about Teardown and about Cleanup, its resource group with a      *)
(* cleanup beside the teardowns, for any VMs, users, pools and             *)
(* interleavings.                                                          *)
(***************************************************************************)
EXTENDS Cleanup, TLAPS

USE DEF World, Become

-----------------------------------------------------------------------------
(* Type correctness. *)

(* A session's name is a tag, and a tag of a VM is the VM's session. *)
LEMMA SessionIsTag == ASSUME NEW v \in VMs PROVE Session(v) \in Tags \ {NoTag}
  BY ConstantsAssumption DEF Session, Tags

LEMMA Resources ==
    /\ \A k \in Kinds, v \in VMs : <<k, v>> \in Resource
    /\ \A r \in Resource : r[1] \in Kinds /\ r[2] \in VMs
    /\ Resource \subseteq User /\ Subnet \in User /\ NatGateway \in User
  BY DEF Resource, User, Subnet, NatGateway, Outsiders

LEMMA WiringIsTyped ==
    ASSUME NEW v \in VMs PROVE Wiring(v) \subseteq User \X Resource
  <1>1. \A k \in Kinds : <<k, v>> \in Resource /\ <<k, v>> \in User
    BY Resources
  <1>2. {"vm", "osdisk", "home", "nic", "pip", "nsg"} = Kinds
    BY DEF Kinds
  <1>. QED  BY <1>1, <1>2 DEF Wiring

(* Whoever looks a VM up has a target. *)
GoodTask == {t \in Task : t.pc = "vm" => t.target \in VMs}
TypeInv == TypeOK /\ task \in [Users -> GoodTask]

LEMMA IdleIsGood == Idle \in Task /\ Idle \in GoodTask
  BY DEF Idle, Task, Tags, GoodTask

LEMMA OneTask ==
    ASSUME TypeInv, NEW u \in Users, NEW t \in GoodTask, Become(u, t)
    PROVE  task' \in [Users -> GoodTask]
  BY DEF TypeInv

LEMMA FreshIsGood ==
    ASSUME NEW t \in Task, NEW v \in VMs PROVE Fresh(t, v) \in GoodTask
  BY DEF Fresh, Task, Tags, GoodTask

LEMMA ClassifiedIsTask ==
    ASSUME NEW t \in Task, NEW K, NEW G, live \subseteq Resource
    PROVE  Classified(t, K, G) \in Task
  BY DEF Classified, Task, OfKind

(* A step of a command leaves a task. *)
LEMMA CommandKeepsType ==
    ASSUME TypeInv, NEW u \in Users, Command(u)
    PROVE  task' \in [Users -> GoodTask]
  <1>. DEFINE t == task[u]
  <1>1. /\ t \in Task /\ t \in GoodTask
        /\ live \subseteq Resource /\ tag \in [Resource -> Tags]
    BY DEF TypeInv, TypeOK
  <1>a. Listed \subseteq VMs
    BY ConstantsAssumption DEF Listed
  <1>b. \A pc \in {"done", "error", "repips", "redelete"} :
            [t EXCEPT !.pc = pc] \in GoodTask
    BY <1>1 DEF Task, GoodTask
  <1>2. CASE Killall(u)
    <2>1. [Idle EXCEPT !.pc = "list", !.prog = "killall"] \in GoodTask
      BY IdleIsGood DEF Task, GoodTask
    <2>. QED  BY <1>2, <2>1, OneTask DEF Killall
  <1>3. CASE KillallList(u)
    <2>1. [t EXCEPT !.pc = "relist", !.confirmed = Listed] \in GoodTask
      BY <1>1, <1>a DEF Task, GoodTask
    <2>. QED  BY <1>3, <2>1, <1>b, OneTask DEF KillallList
  <1>4. CASE KillallRelist(u)
    <2>1. [t EXCEPT !.pc = "done", !.queue = Listed \cap t.confirmed] \in GoodTask
      BY <1>1, <1>a DEF Task, GoodTask
    <2>. QED  BY <1>4, <2>1, OneTask DEF KillallRelist
  <1>5. CASE KillallDecline(u)
    BY <1>5, <1>b, OneTask DEF KillallDecline
  <1>6. ASSUME NEW v \in VMs, Destroy(u, v) PROVE task' \in [Users -> GoodTask]
    BY <1>6, IdleIsGood, FreshIsGood, OneTask DEF Destroy
  <1>7. ASSUME NEW v \in VMs, KillallNext(u, v) PROVE task' \in [Users -> GoodTask]
    <2>1. [t EXCEPT !.queue = @ \ {v}] \in Task
      BY <1>1 DEF Task
    <2>. QED  BY <1>7, <2>1, FreshIsGood, OneTask DEF KillallNext
  <1>8. CASE GetVm(u)
    <2>. DEFINE v == t.target
                yes == [t EXCEPT !.pc = "disks", !.found = TRUE,
                          !.sess = tag[<<"vm", v>>], !.todo = {<<"vm", v>>}]
                no == [t EXCEPT !.pc = "disks", !.sess = v]
    <2>1. v \in VMs
      BY <1>1, <1>8 DEF GetVm, GoodTask
    <2>2. <<"vm", v>> \in Resource
      BY <2>1, Resources DEF Kinds
    <2>3. tag[<<"vm", v>>] \in Tags
      BY <1>1, <2>2
    <2>4. yes \in GoodTask
      BY <1>1, <2>2, <2>3 DEF Task, GoodTask
    <2>5. no \in GoodTask
      BY <1>1, <2>1 DEF Task, Tags, GoodTask
    <2>. QED  BY <1>8, <2>4, <2>5, OneTask DEF GetVm
  <1>9. CASE ListDisks(u)
    <2>1. AttachedTo(t.target, {"osdisk", "home"}) \subseteq Resource
      BY <1>1 DEF AttachedTo
    <2>2. [t EXCEPT !.pc = "nics",
             !.todo = t.todo \cup AttachedTo(t.target, {"osdisk", "home"})] \in GoodTask
      BY <1>1, <2>1 DEF Task, GoodTask
    <2>. QED  BY <1>9, <2>2, OneTask DEF ListDisks
  <1>10. CASE ListNics(u)
    <2>. DEFINE N == AttachedTo(t.target, {"nic"})
    <2>1. N \subseteq Resource
      BY <1>1 DEF AttachedTo
    <2>2. [t EXCEPT !.pc = "pips", !.nics = N, !.todo = t.todo \cup N] \in GoodTask
      BY <1>1, <2>1 DEF Task, GoodTask
    <2>. QED  BY <1>10, <2>2, OneTask DEF ListNics
  <1>11. CASE ListPips(u)
    <2>1. PICK G \in Ghosts({"pip"}) :
             Become(u, [Classified(t, {"pip"}, G) EXCEPT !.pc = "nsgs"])
      BY <1>11 DEF ListPips
    <2>2. Classified(t, {"pip"}, G) \in Task
      BY <1>1, ClassifiedIsTask
    <2>3. [Classified(t, {"pip"}, G) EXCEPT !.pc = "nsgs"] \in GoodTask
      BY <2>2 DEF Task, GoodTask
    <2>. QED  BY <2>1, <2>3, OneTask
  <1>12. CASE ListNsgs(u)
    <2>. DEFINE next(G) == Classified(t, {"nsg"}, G)
    <2>1. PICK G \in Ghosts({"nsg"}) :
             Become(u, [next(G) EXCEPT !.pc =
                           IF next(G).todo = {} THEN "done" ELSE "delete"])
      BY <1>12 DEF ListNsgs
    <2>2. next(G) \in Task
      BY <1>1, ClassifiedIsTask
    <2>. HIDE DEF next
    <2>3. [next(G) EXCEPT !.pc =
              IF next(G).todo = {} THEN "done" ELSE "delete"] \in GoodTask
      BY <2>2 DEF Task, GoodTask
    <2>. QED  BY <2>1, <2>3, OneTask
  <1>13. CASE ListError(u)
    BY <1>13, <1>b, OneTask DEF ListError
  <1>14. ASSUME NEW r \in Resource, Delete(u, r) PROVE task' \in [Users -> GoodTask]
    <2>1. t.pc \in {"delete", "redelete"}
      BY <1>14 DEF Delete
    <2>2. [t EXCEPT !.todo = @ \ {r}] \in GoodTask
      BY <1>1, <2>1 DEF Task, GoodTask
    <2>3. [t EXCEPT !.todo = @ \ {r}, !.failed = @ \cup {r}] \in GoodTask
      BY <1>1, <2>1 DEF Task, GoodTask
    <2>. QED  BY <1>14, <2>2, <2>3, OneTask DEF Delete
  <1>15. CASE Attempted(u)
    BY <1>15, <1>b, OneTask DEF Attempted
  <1>16. CASE RecheckPips(u)
    <2>1. PICK G \in Ghosts({"pip"}) :
             Become(u, [t EXCEPT !.pc = "rensgs", !.todo = Freed(t, {"pip"}, G)])
      BY <1>16 DEF RecheckPips
    <2>2. Freed(t, {"pip"}, G) \subseteq Resource
      BY <1>1 DEF Freed
    <2>3. [t EXCEPT !.pc = "rensgs", !.todo = Freed(t, {"pip"}, G)] \in GoodTask
      BY <1>1, <2>2 DEF Task, GoodTask
    <2>. QED  BY <2>1, <2>3, OneTask
  <1>17. CASE RecheckNsgs(u)
    <2>. DEFINE F(G) == t.todo \cup Freed(t, {"nsg"}, G)
    <2>1. PICK G \in Ghosts({"nsg"}) :
             Become(u, [t EXCEPT !.pc = "redelete", !.todo = F(G),
                                 !.inUse = t.inUse \ F(G)])
      BY <1>17 DEF RecheckNsgs
    <2>2. Freed(t, {"nsg"}, G) \subseteq Resource
      BY <1>1 DEF Freed
    <2>3. F(G) \subseteq Resource
      BY <1>1, <2>2 DEF Task
    <2>. HIDE DEF F
    <2>4. [t EXCEPT !.pc = "redelete", !.todo = F(G), !.inUse = t.inUse \ F(G)]
             \in GoodTask
      BY <1>1, <2>3 DEF Task, GoodTask
    <2>. QED  BY <2>1, <2>4, OneTask
  <1>18. CASE RecheckError(u)
    <2>1. [t EXCEPT !.pc = "redelete", !.todo = {}] \in GoodTask
      BY <1>1 DEF Task, GoodTask
    <2>. QED  BY <1>18, <2>1, OneTask DEF RecheckError
  <1>19. CASE Killed(u)
    BY <1>19, IdleIsGood, OneTask DEF Killed
  <1>. QED
    BY <1>2, <1>3, <1>4, <1>5, <1>6, <1>7, <1>8, <1>9, <1>10, <1>11, <1>12,
       <1>13, <1>14, <1>15, <1>16, <1>17, <1>18, <1>19 DEF Command

(* What a step does to the world stays within its types. *)
LEMMA DropKeepsType ==
    ASSUME TypeOK, NEW R, Drop(R)
    PROVE  live' \subseteq live /\ live' \in SUBSET Resource
           /\ uses' \in SUBSET (User \X Resource)
  BY DEF TypeOK, Drop

LEMMA WorldKeepsType ==
    ASSUME TypeOK, [Next]_vars
    PROVE  /\ live' \in SUBSET Resource /\ tag' \in [Resource -> Tags]
           /\ uses' \in SUBSET (User \X Resource)
           /\ building' \in SUBSET VMs /\ built' \in SUBSET VMs
  <1>1. CASE UNCHANGED vars
    BY <1>1 DEF vars, TypeOK
  <1>2. ASSUME NEW u \in Users, Command(u)
        PROVE /\ live' \in SUBSET Resource /\ uses' \in SUBSET (User \X Resource)
              /\ UNCHANGED <<tag, building, built>>
    <2>1. CASE \E r \in Resource : Delete(u, r)
      <3>1. PICK r \in Resource : Delete(u, r)
        BY <2>1
      <3>2. UNCHANGED <<tag, building, built>>
        BY <3>1 DEF Delete
      <3>3. \/ UNCHANGED <<live, uses>>
            \/ \E X : Drop({r} \cup X)
        BY <3>1 DEF Delete, AzureDeletes
      <3>. QED  BY <3>2, <3>3, DropKeepsType DEF TypeOK
    <2>2. CASE ~\E r \in Resource : Delete(u, r)
      <3>1. UNCHANGED World
        BY <1>2, <2>2
           DEF Command, Killall, KillallList, KillallRelist, KillallDecline,
               KillallNext, Destroy, GetVm, ListDisks, ListNics, ListPips,
               ListNsgs, ListError, Attempted, RecheckPips, RecheckNsgs,
               RecheckError, Killed
      <3>. QED  BY <3>1 DEF TypeOK
    <2>. QED  BY <2>1, <2>2
  <1>3. ASSUME NEW v \in VMs, BuildStart(v)
        PROVE /\ live' \in SUBSET Resource /\ tag' \in [Resource -> Tags]
              /\ UNCHANGED uses
              /\ building' \in SUBSET VMs /\ built' \in SUBSET VMs
    <2>1. live' \in SUBSET Resource
      BY <1>3, Resources DEF BuildStart, TypeOK, Kinds
    <2>2. tag' \in [Resource -> Tags]
      BY <1>3, SessionIsTag DEF BuildStart, TypeOK
    <2>. QED  BY <1>3, <2>1, <2>2 DEF BuildStart, TypeOK
  <1>4. ASSUME NEW v \in VMs, BuildNic(v) \/ BuildVm(v)
        PROVE /\ live' \in SUBSET Resource /\ UNCHANGED <<tag, built>>
              /\ uses' \in SUBSET (User \X Resource)
              /\ building' \in SUBSET VMs
    <2>1. live' \in SUBSET Resource
      BY <1>4, Resources DEF BuildNic, BuildVm, TypeOK, Kinds
    <2>2. uses' \in SUBSET (User \X Resource)
      BY <1>4, WiringIsTyped DEF BuildNic, BuildVm, TypeOK, Among
    <2>. QED  BY <1>4, <2>1, <2>2 DEF BuildNic, BuildVm, TypeOK
  <1>5. ASSUME NEW v \in VMs, BuildFail(v)
        PROVE /\ live' \in SUBSET Resource /\ UNCHANGED <<tag, built>>
              /\ uses' \in SUBSET (User \X Resource)
              /\ building' \in SUBSET VMs
    BY <1>5, DropKeepsType DEF BuildFail, TypeOK
  <1>6. ASSUME NEW r \in Resource, Share(r)
        PROVE /\ UNCHANGED <<live, tag, building, built>>
              /\ uses' \in SUBSET (User \X Resource)
    BY <1>6, Resources DEF Share, TypeOK
  <1>. QED
    BY <1>1, <1>2, <1>3, <1>4, <1>5, <1>6 DEF Next, Environment, TypeOK

LEMMA TypeInit == Init => TypeInv
  <1>. SUFFICES ASSUME Init PROVE TypeInv
    OBVIOUS
  <1>1. PICK have \in [VMs -> {"none", "private", "public", "leftover"}],
             handmade \in SUBSET VMs, shared \in SUBSET VMs, natted \in SUBSET VMs :
            /\ live = UNION {Profile(v)[have[v]] : v \in VMs}
            /\ tag = [r \in Resource |-> IF r \notin live \/ r[2] \in handmade
                                           THEN NoTag ELSE Session(r[2])]
            /\ \A v \in handmade : have[v] # "none"
            /\ \A v \in shared : <<"nsg", v>> \in live
            /\ \A v \in natted : <<"pip", v>> \in live /\ <<"nic", v>> \notin live
            /\ uses = Among(UNION {Wiring(v) : v \in VMs}, live)
                        \cup {<<Subnet, <<"nsg", v>>>> : v \in shared}
                        \cup {<<NatGateway, <<"pip", v>>>> : v \in natted}
    BY DEF Init
  <1>2. \A v \in VMs : Profile(v)[have[v]] \subseteq Resource
    <2>. TAKE v \in VMs
    <2>1. \A k \in Kinds : <<k, v>> \in Resource
      BY Resources
    <2>2. {"vm", "osdisk", "home", "nic", "pip", "nsg"} = Kinds
      BY DEF Kinds
    <2>3. have[v] \in {"none", "private", "public", "leftover"}
      BY <1>1
    <2>. QED  BY <2>1, <2>2, <2>3 DEF Profile, Whole
  <1>3. live \in SUBSET Resource
    BY <1>1, <1>2
  <1>4. tag \in [Resource -> Tags]
    BY <1>1, SessionIsTag, Resources DEF Tags
  <1>5. uses \in SUBSET (User \X Resource)
    <2>1. Among(UNION {Wiring(v) : v \in VMs}, live) \subseteq User \X Resource
      BY WiringIsTyped DEF Among
    <2>2. {<<Subnet, <<"nsg", v>>>> : v \in shared} \subseteq User \X Resource
      BY <1>1, <1>3, Resources
    <2>3. {<<NatGateway, <<"pip", v>>>> : v \in natted} \subseteq User \X Resource
      <3>1. \A v \in natted : <<"pip", v>> \in live
        BY <1>1
      <3>. QED  BY <1>3, <3>1, Resources
    <2>. QED  BY <1>1, <2>1, <2>2, <2>3
  <1>6. building = {} /\ built = {} /\ task = [u \in Users |-> Idle]
    BY DEF Init
  <1>. QED  BY <1>3, <1>4, <1>5, <1>6, IdleIsGood DEF TypeInv, TypeOK

LEMMA TypeStep == TypeInv /\ [Next]_vars => TypeInv'
  <1>. SUFFICES ASSUME TypeInv, [Next]_vars PROVE TypeInv'
    OBVIOUS
  <1>1. task' \in [Users -> GoodTask]
    <2>1. CASE \E u \in Users : Command(u)
      BY <2>1, CommandKeepsType
    <2>2. CASE Environment \/ UNCHANGED vars
      BY <2>2 DEF Environment, BuildStart, BuildNic, BuildVm, BuildFail, Share,
                  vars, TypeInv
    <2>. QED  BY <2>1, <2>2 DEF Next
  <1>2. task' \in [Users -> Task]
    BY <1>1 DEF GoodTask
  <1>. QED  BY <1>1, <1>2, WorldKeepsType DEF TypeInv, TypeOK

(* Every variable keeps its type. *)
THEOREM TypeCorrect == Spec => []TypeOK
  <1>1. TypeInv => TypeOK
    BY DEF TypeInv
  <1>. QED  BY <1>1, TypeInit, TypeStep, PTL DEF Spec

-----------------------------------------------------------------------------
(* Teardowns and sessions.  What makes the argument inductive: a resource  *)
(* never carries another tag than its session's, a tag once there stays,   *)
(* VMs refer only to what is theirs, and a lookup starts with no plan.     *)

InSession(t, r) ==
    IF r[1] \in {"pip", "nsg"}
      THEN tag[r] # NoTag /\ (tag[r] = t.sess \/ NameHint(t, r))
      ELSE r[2] = t.target

GoodPlan(t) ==
    /\ t.pc = "vm" => t.todo = {}
    /\ \A r \in t.todo : InSession(t, r)
    /\ \A r \in t.inUse : tag[r] # NoTag

GoodTags == \A r \in Resource : tag[r] \in {NoTag, Session(r[2])}
GoodUses ==
    \A w \in uses :
        /\ w[1][1] = "vm" => w[2][2] = w[1][2]
        /\ w[2][1] \in {"osdisk", "nic"} => w[1][1] = "vm"
GoodPlans == \A u \in Users : GoodPlan(task[u])

SessionInv == TypeInv /\ GoodTags /\ GoodUses /\ GoodPlans

LEMMA SessionInit == Init => SessionInv
  <1>. SUFFICES ASSUME Init PROVE SessionInv
    OBVIOUS
  <1>1. TypeInv
    BY TypeInit
  <1>2. GoodTags
    BY DEF Init, GoodTags
  <1>3. GoodUses
    BY DEF Init, GoodUses, Among, Wiring, Subnet, NatGateway
  <1>4. GoodPlans
    BY DEF Init, GoodPlans, GoodPlan, Idle
  <1>. QED  BY <1>1, <1>2, <1>3, <1>4 DEF SessionInv

(* Tags stay: only a resource that has none gets one. *)
LEMMA TagsStay ==
    ASSUME TypeInv, GoodTags, [Next]_vars
    PROVE  /\ GoodTags'
           /\ \A r \in Resource : tag[r] # NoTag => tag'[r] = tag[r]
  <1>1. CASE UNCHANGED tag
    BY <1>1 DEF GoodTags
  <1>2. ASSUME NEW v \in VMs, BuildStart(v)
        PROVE tag' = [r \in Resource |-> IF r[2] = v THEN Session(v) ELSE tag[r]]
    BY <1>2 DEF BuildStart
  <1>3. UNCHANGED tag \/ \E v \in VMs : BuildStart(v)
    BY DEF Next, Command, Killall, KillallList, KillallRelist, KillallDecline,
           KillallNext, Destroy, GetVm, ListDisks, ListNics, ListPips, ListNsgs,
           ListError, Attempted, RecheckPips, RecheckNsgs, RecheckError, Killed,
           Delete, Environment, BuildNic, BuildVm, BuildFail, Share, vars
  <1>. QED  BY <1>1, <1>2, <1>3 DEF GoodTags

(* An association is an old one, one of a VM's own, or a subnet's.         *)
LEMMA UsesGrow ==
    ASSUME [Next]_vars
    PROVE  \A w \in uses' : \/ w \in uses
                            \/ \E v \in VMs : w \in Wiring(v)
                            \/ \E r \in OfKind({"nsg"}) : w = <<Subnet, r>>
  <1>1. CASE uses' \subseteq uses
    BY <1>1
  <1>2. CASE \E v \in VMs : uses' \subseteq uses \cup Wiring(v)
    BY <1>2
  <1>3. CASE \E r \in OfKind({"nsg"}) : uses' = uses \cup {<<Subnet, r>>}
    BY <1>3
  <1>4. ASSUME NEW v \in VMs, BuildStart(v) \/ BuildFail(v) PROVE uses' \subseteq uses
    BY <1>4 DEF BuildStart, BuildFail, Drop
  <1>5. ASSUME NEW v \in VMs, BuildNic(v) \/ BuildVm(v)
        PROVE uses' \subseteq uses \cup Wiring(v)
    BY <1>5 DEF BuildNic, BuildVm, Among
  <1>6. ASSUME NEW u \in Users, Command(u) PROVE uses' \subseteq uses
    BY <1>6 DEF Command, Killall, KillallList, KillallRelist, KillallDecline,
           KillallNext, Destroy, GetVm, ListDisks, ListNics, ListPips, ListNsgs,
           ListError, Attempted, RecheckPips, RecheckNsgs, RecheckError, Killed,
           Delete, AzureDeletes, Drop
  <1>. QED
    BY <1>1, <1>2, <1>3, <1>4, <1>5, <1>6 DEF Next, Environment, Share, vars

LEMMA UsesStayGood ==
    ASSUME TypeInv, GoodUses, [Next]_vars PROVE GoodUses'
  <1>1. \A v \in VMs : \A w \in Wiring(v) :
           /\ w[1][1] = "vm" => w[2][2] = w[1][2]
           /\ w[2][1] \in {"osdisk", "nic"} => w[1][1] = "vm"
    BY DEF Wiring
  <1>2. \A r \in OfKind({"nsg"}) : r[1] = "nsg"
    BY DEF OfKind
  <1>. QED  BY <1>1, <1>2, UsesGrow DEF GoodUses, Subnet

(* The new plan of a command that takes a step other than a build's. *)
LEMMA PlanBecomes ==
    ASSUME TypeInv, NEW u \in Users, NEW s, Become(u, s), UNCHANGED tag, GoodPlan(s)
    PROVE  GoodPlan(task[u])'
  <1>1. task'[u] = s
    BY DEF TypeInv
  <1>. QED  BY <1>1 DEF GoodPlan, InSession, NameHint

LEMMA ClassifiedIsGood ==
    ASSUME NEW t \in Task, GoodPlan(t), NEW pc \in {"nsgs", "done", "delete"},
           NEW K \in SUBSET {"pip", "nsg"}, NEW G
    PROVE  GoodPlan([Classified(t, K, G) EXCEPT !.pc = pc])
  <1>. DEFINE seen == live \cap OfKind(K)
              free == {r \in seen : Free(r, t.nics, G)}
              add == {r \in free : Owned(t, r)}
              skip == {r \in seen \ free : Owned(t, r)}
              s == [Classified(t, K, G) EXCEPT !.pc = pc]
  <1>1. \A r \in add \cup skip :
           /\ r[1] \in {"pip", "nsg"}
           /\ tag[r] # NoTag /\ (tag[r] = t.sess \/ NameHint(t, r))
    BY DEF OfKind, Owned
  <1>. HIDE DEF add, skip
  <1>2. s = [t EXCEPT !.pc = pc, !.todo = t.todo \cup add, !.inUse = t.inUse \cup skip]
    BY DEF Classified, Task, add, skip
  <1>3. /\ s.pc = pc /\ s.todo = t.todo \cup add /\ s.inUse = t.inUse \cup skip
        /\ s.sess = t.sess /\ s.found = t.found /\ s.target = t.target
    BY <1>2 DEF Task
  <1>. HIDE DEF s
  <1>4. \A r \in s.todo : InSession(s, r)
    BY <1>1, <1>3 DEF GoodPlan, InSession, NameHint
  <1>5. \A r \in s.inUse : tag[r] # NoTag
    BY <1>1, <1>3 DEF GoodPlan
  <1>6. s.pc # "vm"
    BY <1>3
  <1>7. GoodPlan(s)
    BY <1>4, <1>5, <1>6 DEF GoodPlan
  <1>. QED  BY <1>7 DEF s

(* What ListDisks and ListNics add is the target's. *)
LEMMA AttachedIsMine ==
    ASSUME GoodUses, NEW v, NEW K \in SUBSET {"osdisk", "home", "nic"}
    PROVE  \A r \in AttachedTo(v, K) : r[2] = v /\ r[1] \notin {"pip", "nsg"}
  BY DEF AttachedTo, GoodUses, OfKind

(* A command's step leaves a good plan. *)
LEMMA CommandKeepsPlan ==
    ASSUME SessionInv, NEW u \in Users, Command(u), UNCHANGED tag
    PROVE  GoodPlan(task[u])'
  <1>. DEFINE t == task[u]
  <1>1. /\ t \in Task /\ GoodPlan(t) /\ TypeInv /\ GoodUses
        /\ tag \in [Resource -> Tags]
    BY DEF SessionInv, GoodPlans, TypeInv, TypeOK
  <1>2. \A s : Become(u, s) /\ GoodPlan(s) => GoodPlan(task[u])'
    BY <1>1, PlanBecomes
  <1>3. \A pc \in {"relist", "done", "error", "repips"} :
           GoodPlan([t EXCEPT !.pc = pc])
    BY <1>1 DEF GoodPlan, InSession, NameHint, Task
  <1>4. GoodPlan(Idle) /\ \A s \in Task, v \in VMs : GoodPlan(Fresh(s, v))
    BY DEF GoodPlan, Idle, Fresh, Task
  <1>5. CASE Killall(u)
    <2>1. GoodPlan([Idle EXCEPT !.pc = "list", !.prog = "killall"])
      BY DEF GoodPlan, Idle
    <2>. QED  BY <1>5, <2>1, <1>2 DEF Killall
  <1>6. CASE KillallList(u)
    <2>1. GoodPlan([t EXCEPT !.pc = "relist", !.confirmed = Listed])
      BY <1>1 DEF GoodPlan, InSession, NameHint, Task
    <2>. QED  BY <1>6, <2>1, <1>2, <1>3 DEF KillallList
  <1>7. CASE KillallRelist(u)
    <2>1. GoodPlan([t EXCEPT !.pc = "done", !.queue = Listed \cap t.confirmed])
      BY <1>1 DEF GoodPlan, InSession, NameHint, Task
    <2>. QED  BY <1>7, <2>1, <1>2 DEF KillallRelist
  <1>8. CASE KillallDecline(u) \/ ListError(u)
    BY <1>8, <1>2, <1>3 DEF KillallDecline, ListError
  <1>9. ASSUME NEW v \in VMs, Destroy(u, v) \/ KillallNext(u, v)
        PROVE  GoodPlan(task[u])'
    <2>1. [t EXCEPT !.queue = @ \ {v}] \in Task /\ Idle \in Task
      BY <1>1, IdleIsGood DEF Task
    <2>. QED  BY <1>9, <2>1, <1>2, <1>4 DEF Destroy, KillallNext
  <1>10. CASE GetVm(u)
    <2>. DEFINE v == t.target
                yes == [t EXCEPT !.pc = "disks", !.found = TRUE,
                          !.sess = tag[<<"vm", v>>], !.todo = {<<"vm", v>>}]
                no == [t EXCEPT !.pc = "disks", !.sess = v]
    <2>1. t.todo = {}
      BY <1>1, <1>10 DEF GetVm, GoodPlan
    <2>2. GoodPlan(yes)
      BY <1>1 DEF GoodPlan, InSession, Task
    <2>3. GoodPlan(no)
      BY <1>1, <2>1 DEF GoodPlan, Task
    <2>. QED  BY <1>10, <2>2, <2>3, <1>2 DEF GetVm
  <1>11. CASE ListDisks(u)
    <2>. DEFINE D == AttachedTo(t.target, {"osdisk", "home"})
    <2>1. \A r \in D : r[2] = t.target /\ r[1] \notin {"pip", "nsg"}
      BY <1>1, AttachedIsMine
    <2>. HIDE DEF D
    <2>2. GoodPlan([t EXCEPT !.pc = "nics", !.todo = t.todo \cup D])
      BY <1>1, <2>1 DEF GoodPlan, InSession, NameHint, Task
    <2>. QED  BY <1>11, <2>2, <1>2 DEF ListDisks, D
  <1>12. CASE ListNics(u)
    <2>. DEFINE N == AttachedTo(t.target, {"nic"})
    <2>1. \A r \in N : r[2] = t.target /\ r[1] \notin {"pip", "nsg"}
      BY <1>1, AttachedIsMine
    <2>. HIDE DEF N
    <2>2. GoodPlan([t EXCEPT !.pc = "pips", !.nics = N, !.todo = t.todo \cup N])
      BY <1>1, <2>1 DEF GoodPlan, InSession, NameHint, Task
    <2>. QED  BY <1>12, <2>2, <1>2 DEF ListNics, N
  <1>13. CASE ListPips(u)
    BY <1>1, <1>13, <1>2, ClassifiedIsGood DEF ListPips
  <1>14. CASE ListNsgs(u)
    <2>. DEFINE next(G) == Classified(t, {"nsg"}, G)
    <2>1. PICK G : Become(u, [next(G) EXCEPT !.pc =
                                 IF next(G).todo = {} THEN "done" ELSE "delete"])
      BY <1>14 DEF ListNsgs
    <2>2. \A pc \in {"done", "delete"} : GoodPlan([next(G) EXCEPT !.pc = pc])
      BY <1>1, ClassifiedIsGood
    <2>. HIDE DEF next
    <2>. QED  BY <2>1, <2>2, <1>2
  <1>15. ASSUME NEW r \in Resource, Delete(u, r) PROVE GoodPlan(task[u])'
    <2>1. GoodPlan([t EXCEPT !.todo = @ \ {r}])
      BY <1>1 DEF GoodPlan, InSession, NameHint, Task
    <2>2. GoodPlan([t EXCEPT !.todo = @ \ {r}, !.failed = @ \cup {r}])
      BY <1>1 DEF GoodPlan, InSession, NameHint, Task
    <2>. QED  BY <1>15, <2>1, <2>2, <1>2 DEF Delete
  <1>16. CASE Attempted(u)
    BY <1>16, <1>2, <1>3 DEF Attempted
  <1>17. \A K \in SUBSET {"pip", "nsg"} : \A G : \A r \in Freed(t, K, G) :
            /\ r[1] \in {"pip", "nsg"} /\ tag[r] # NoTag
            /\ tag[r] = t.sess \/ NameHint(t, r)
    BY <1>1 DEF Freed, OfKind, OwnedStill, GoodPlan
  <1>18. CASE RecheckPips(u)
    <2>1. PICK G : Become(u, [t EXCEPT !.pc = "rensgs", !.todo = Freed(t, {"pip"}, G)])
      BY <1>18 DEF RecheckPips
    <2>. DEFINE F == Freed(t, {"pip"}, G)
    <2>2. \A r \in F : /\ r[1] \in {"pip", "nsg"} /\ tag[r] # NoTag
                       /\ tag[r] = t.sess \/ NameHint(t, r)
      BY <1>17
    <2>. HIDE DEF F
    <2>3. GoodPlan([t EXCEPT !.pc = "rensgs", !.todo = F])
      BY <1>1, <2>2 DEF GoodPlan, InSession, NameHint, Task
    <2>. QED  BY <2>1, <2>3, <1>2 DEF F
  <1>19. CASE RecheckNsgs(u)
    <2>1. PICK G : LET F == t.todo \cup Freed(t, {"nsg"}, G)
                   IN  Become(u, [t EXCEPT !.pc = "redelete", !.todo = F,
                                           !.inUse = t.inUse \ F])
      BY <1>19 DEF RecheckNsgs
    <2>. DEFINE N == Freed(t, {"nsg"}, G)
                F == t.todo \cup N
    <2>2. \A r \in N : /\ r[1] \in {"pip", "nsg"} /\ tag[r] # NoTag
                       /\ tag[r] = t.sess \/ NameHint(t, r)
      BY <1>17
    <2>. HIDE DEF N
    <2>3. \A r \in F : InSession(t, r)
      BY <1>1, <2>2 DEF GoodPlan, InSession
    <2>. HIDE DEF F
    <2>4. GoodPlan([t EXCEPT !.pc = "redelete", !.todo = F, !.inUse = t.inUse \ F])
      BY <1>1, <2>3 DEF GoodPlan, InSession, NameHint, Task
    <2>. QED  BY <2>1, <2>4, <1>2 DEF F, N
  <1>20. CASE RecheckError(u)
    <2>1. GoodPlan([t EXCEPT !.pc = "redelete", !.todo = {}])
      BY <1>1 DEF GoodPlan, Task
    <2>. QED  BY <1>20, <2>1, <1>2 DEF RecheckError
  <1>21. CASE Killed(u)
    BY <1>21, <1>2, <1>4 DEF Killed
  <1>. QED
    BY <1>5, <1>6, <1>7, <1>8, <1>9, <1>10, <1>11, <1>12, <1>13, <1>14, <1>15,
       <1>16, <1>18, <1>19, <1>20, <1>21 DEF Command

LEMMA SessionStep == SessionInv /\ [Next]_vars => SessionInv'
  <1>. SUFFICES ASSUME SessionInv, [Next]_vars PROVE SessionInv'
    OBVIOUS
  <1>1. TypeInv' /\ GoodTags' /\ GoodUses'
    BY TypeStep, TagsStay, UsesStayGood DEF SessionInv
  <1>2. \A r \in Resource : tag[r] # NoTag => tag'[r] = tag[r]
    BY TagsStay DEF SessionInv
  <1>3. ASSUME NEW p \in Users, task'[p] = task[p] PROVE GoodPlan(task[p])'
    <2>1. task[p] \in Task /\ GoodPlan(task[p])
      BY DEF SessionInv, GoodPlans, TypeInv, TypeOK
    <2>2. task[p].todo \subseteq Resource /\ task[p].inUse \subseteq Resource
      BY <2>1 DEF Task
    <2>. QED  BY <1>2, <1>3, <2>1, <2>2 DEF GoodPlan, InSession, NameHint
  <1>4. ASSUME NEW u \in Users, Command(u) PROVE GoodPlans'
    <2>1. UNCHANGED tag
      BY <1>4 DEF Command, Killall, KillallList, KillallRelist, KillallDecline,
           KillallNext, Destroy, GetVm, ListDisks, ListNics, ListPips, ListNsgs,
           ListError, Attempted, RecheckPips, RecheckNsgs, RecheckError, Killed,
           Delete
    <2>2. \A p \in Users \ {u} : task'[p] = task[p]
      <3>1. \E s : Become(u, s)
        BY <1>4 DEF Command, Killall, KillallList, KillallRelist, KillallDecline,
           KillallNext, Destroy, GetVm, ListDisks, ListNics, ListPips, ListNsgs,
           ListError, Attempted, RecheckPips, RecheckNsgs, RecheckError, Killed,
           Delete
      <3>. QED  BY <3>1 DEF SessionInv, TypeInv
    <2>3. GoodPlan(task[u])'
      BY <1>4, <2>1, CommandKeepsPlan
    <2>. QED  BY <1>3, <2>2, <2>3 DEF GoodPlans
  <1>5. ASSUME UNCHANGED task PROVE GoodPlans'
    <2>1. \A p \in Users : task'[p] = task[p]
      BY <1>5
    <2>2. \A p \in Users : GoodPlan(task[p])'
      BY <1>3, <2>1
    <2>. QED  BY <2>2 DEF GoodPlans
  <1>6. Environment => UNCHANGED task
    BY DEF Environment, BuildStart, BuildNic, BuildVm, BuildFail, Share
  <1>7. UNCHANGED vars => UNCHANGED task
    BY DEF vars
  <1>8. GoodPlans'
    BY <1>4, <1>5, <1>6, <1>7 DEF Next
  <1>. QED  BY <1>1, <1>8 DEF SessionInv

(* What a teardown has planned to delete is its session's when it planned   *)
(* it and still is when it deletes it, in the first pass and in the recheck.*)
THEOREM PlansStayInSession == Spec => []PlanStaysInSession
  <1>1. SessionInv => PlanStaysInSession
    BY DEF SessionInv, GoodPlans, GoodPlan, InSession, PlanStaysInSession
  <1>. QED  BY <1>1, SessionInit, SessionStep, PTL DEF Spec

Spared ==
    \A u \in Users : \A r \in live \ live' :
        task[u].pc \in {"delete", "redelete"} /\ task'[u] # task[u] =>
            \/ r[2] = task[u].target
            \/ /\ r[1] \in {"pip", "nsg"}
               /\ tag[r] = Session(r[2]) /\ task[u].sess = tag[r]

LEMMA SparedStep == ASSUME SessionInv, [Next]_vars PROVE Spared
  <1>. SUFFICES ASSUME NEW u \in Users, NEW r \in live \ live',
                       task'[u] # task[u]
                PROVE  \/ r[2] = task[u].target
                       \/ /\ r[1] \in {"pip", "nsg"}
                          /\ tag[r] = Session(r[2]) /\ task[u].sess = tag[r]
    BY DEF Spared
  <1>1. PICK d \in Resource : Delete(u, d)
    <2>1. ASSUME NEW p \in Users, Command(p), p # u PROVE FALSE
      <3>1. \E s : Become(p, s)
        BY <2>1 DEF Command, Killall, KillallList, KillallRelist, KillallDecline,
         KillallNext, Destroy, GetVm, ListDisks, ListNics, ListPips, ListNsgs,
         ListError, Attempted, RecheckPips, RecheckNsgs, RecheckError, Killed,
         Delete
      <3>. QED  BY <2>1, <3>1 DEF SessionInv, TypeInv
    <2>2. Command(u)
      BY <2>1 DEF Next, vars, Environment, BuildStart, BuildNic, BuildVm,
                        BuildFail, Share
    <2>3. live' # live
      OBVIOUS
    <2>. QED
      BY <2>2, <2>3 DEF Command, Killall, KillallList, KillallRelist,
         KillallDecline, KillallNext, Destroy, GetVm, ListDisks, ListNics,
         ListPips, ListNsgs, ListError, Attempted, RecheckPips, RecheckNsgs,
         RecheckError, Killed
  <1>2. InSession(task[u], d)
    BY <1>1 DEF Delete, SessionInv, GoodPlans, GoodPlan
  <1>3. r = d \/ r \in Implicit(d)
    BY <1>1 DEF Delete, AzureDeletes, Drop
  <1>4. r \in Resource
    BY DEF SessionInv, TypeInv, TypeOK
  <1>5. CASE r = d
    BY <1>2, <1>4, <1>5 DEF InSession, NameHint, SessionInv, GoodTags
  <1>6. CASE r \in Implicit(d)
    <2>1. <<d, r>> \in uses /\ r[1] \in {"osdisk", "nic"}
      BY <1>6 DEF Implicit, OfKind
    <2>2. d[1] = "vm" /\ r[2] = d[2]
      BY <2>1 DEF SessionInv, GoodUses
    <2>. QED  BY <1>2, <2>2 DEF InSession
  <1>. QED  BY <1>3, <1>5, <1>6

(* No deletion reaches a VM, disk or NIC of another VM, nor a public IP or  *)
(* NSG of a session that is not the target's.                               *)
THEOREM OthersAreSpared == Spec => SparesOtherSessions
  <1>1. SessionInv /\ [Next]_vars => [Spared]_vars
    BY SparedStep
  <1>. QED  BY <1>1, SessionInit, SessionStep, PTL DEF Spec, SparesOtherSessions, Spared

-----------------------------------------------------------------------------
(* The resource group of Cleanup.  A cleanup adds no tag, no resource and  *)
(* no association, and no plan to a teardown's: what holds of teardowns    *)
(* alone holds beside it.                                                  *)

LEMMA SweepShrinks ==
    ASSUME SweepStep
    PROVE  /\ live' \subseteq live /\ uses' \subseteq uses
           /\ UNCHANGED <<tag, building, built>>
  BY DEF SweepStep, SweepStart, SweepLists, SweepList, SweepListFails, SweepConfirm,
         SweepDelete, Deleted, Refind, SweepKilled, Sweeps, AzureDeletes, Drop

LEMMA GroupMoves ==
    ASSUME [GroupNext]_groupVars
    PROVE  [Next]_vars \/ (SweepStep /\ UNCHANGED task)
  BY DEF GroupNext, groupVars, vars

LEMMA GroupSessionStep == SessionInv /\ [GroupNext]_groupVars => SessionInv'
  <1>. SUFFICES ASSUME SessionInv, SweepStep, UNCHANGED task PROVE SessionInv'
    BY GroupMoves, SessionStep
  <1>1. /\ live' \subseteq live /\ uses' \subseteq uses
        /\ UNCHANGED <<tag, building, built>>
    BY SweepShrinks
  <1>2. TypeInv'
    BY <1>1 DEF SessionInv, TypeInv, TypeOK
  <1>3. GoodTags' /\ GoodUses'
    BY <1>1 DEF SessionInv, GoodTags, GoodUses
  <1>4. GoodPlans'
    BY <1>1 DEF SessionInv, GoodPlans, GoodPlan, InSession, NameHint
  <1>. QED  BY <1>2, <1>3, <1>4 DEF SessionInv

(* Beside a cleanup too, a teardown deletes only what is its session's.    *)
THEOREM GroupPlansStayInSession == GroupSpec => []PlanStaysInSession
  <1>1. SessionInv => PlanStaysInSession
    BY DEF SessionInv, GoodPlans, GoodPlan, InSession, PlanStaysInSession
  <1>2. GroupInit => SessionInv
    BY SessionInit DEF GroupInit
  <1>. QED  BY <1>1, <1>2, GroupSessionStep, PTL DEF GroupSpec

(* Beside a cleanup too, a teardown spares what is another session's.      *)
THEOREM GroupOthersAreSpared == GroupSpec => SparesOtherSessions
  <1>1. SessionInv /\ [GroupNext]_groupVars => [Spared]_vars
    <2>1. ASSUME SessionInv, [Next]_vars PROVE [Spared]_vars
      BY <2>1, SparedStep
    <2>2. ASSUME UNCHANGED task PROVE Spared
      BY <2>2 DEF Spared
    <2>. QED  BY <2>1, <2>2, GroupMoves
  <1>2. GroupInit => SessionInv
    BY SessionInit DEF GroupInit
  <1>. QED  BY <1>1, <1>2, GroupSessionStep, PTL DEF GroupSpec, SparesOtherSessions, Spared

-----------------------------------------------------------------------------
(* One cleanup is enough.  An undisturbed one has on its list every orphan *)
(* of the kinds it has looked through, but for the public IPs and NSGs a   *)
(* NIC it deleted has set free: those the second pass finds.               *)

(* Only a VM and a NIC of azlin's refer to anything. *)
FitUses ==
    \A w \in uses : /\ w[1][1] \notin {"osdisk", "home", "pip", "nsg"}
                    /\ w[1][1] = "nic" => w[2][1] \in {"pip", "nsg"}

Orphan(r) == r \in live /\ r[1] # "vm" /\ ~HeldBack(r) /\ UsersOf(r) = {}

(* The kinds the cleanup has still to look through. *)
Ahead(k) ==
    \/ sweep.at \in {"idle", "disks"}
    \/ sweep.at = "nics" /\ k \in {"nic", "pip", "nsg"}
    \/ sweep.at = "pips" /\ k \in {"pip", "nsg"}
    \/ sweep.at = "nsgs" /\ k = "nsg"
    \/ sweep.at = "delete" /\ sweep.nicGone /\ k \in {"pip", "nsg"}
    \/ sweep.at = "rensgs" /\ k \in {"pip", "nsg"}
    \/ sweep.at = "repips" /\ k = "pip"

SweepInv ==
    /\ sweep \in Sweep
    /\ \A r \in sweep.todo : r[1] # "vm"
    /\ sweep.at \in {"rensgs", "repips", "redelete"} =>
          \A r \in sweep.todo : r[1] \in {"pip", "nsg"}
    /\ sweep.at = "done" => sweep.todo = {}
    /\ sweep.clean => \A r \in Resource : Orphan(r) => r \in sweep.todo \/ Ahead(r[1])

GroupInv == SessionInv /\ FitUses /\ SweepInv

LEMMA FitUsesStep ==
    ASSUME FitUses, [GroupNext]_groupVars PROVE FitUses'
  <1>1. \A v \in VMs : \A w \in Wiring(v) :
           /\ w[1][1] \notin {"osdisk", "home", "pip", "nsg"}
           /\ w[1][1] = "nic" => w[2][1] \in {"pip", "nsg"}
    BY DEF Wiring
  <1>2. CASE [Next]_vars
    BY <1>1, <1>2, UsesGrow DEF FitUses, Subnet
  <1>3. CASE SweepStep
    BY <1>3, SweepShrinks DEF FitUses
  <1>. QED  BY <1>2, <1>3, GroupMoves

LEMMA GroupInitOk == GroupInit => GroupInv
  <1>. SUFFICES ASSUME GroupInit PROVE GroupInv
    OBVIOUS
  <1>1. SessionInv
    BY SessionInit DEF GroupInit
  <1>2. FitUses
    BY DEF GroupInit, Init, FitUses, Among, Wiring, Subnet, NatGateway
  <1>3. SweepInv
    BY DEF GroupInit, SweepInv, Unswept, Sweep, Ahead
  <1>. QED  BY <1>1, <1>2, <1>3 DEF GroupInv

(* The cleanup forgets, or goes on with a list.                            *)
LEMMA SweepFields ==
    ASSUME NEW s \in Sweep, NEW at \in Sweeping \cup {"idle", "done"},
           NEW todo \in SUBSET Resource, NEW gone \in BOOLEAN, NEW clean \in BOOLEAN
    PROVE  LET n == [s EXCEPT !.at = at, !.todo = todo, !.nicGone = gone, !.clean = clean]
           IN  /\ n \in Sweep /\ n.at = at /\ n.todo = todo /\ n.nicGone = gone
               /\ n.clean = clean /\ n.aged = s.aged
  BY DEF Sweep

LEMMA OverOk == ASSUME sweep' = Over PROVE SweepInv'
  BY DEF SweepInv, Over, Unswept, Sweep

(* The cleanup looks through some kinds.                                   *)
LEMMA ListOk ==
    ASSUME GroupInv, NEW at, NEW next \in Sweeping, NEW K \in SUBSET (Kinds \ {"vm"}),
           SweepList(at, K, next),
           \A k \in Kinds \ ({"vm"} \cup K) : Ahead(k) => Ahead(k)',
           next \in {"repips", "redelete"} =>
              at \in {"rensgs", "repips"} /\ K \subseteq {"pip", "nsg"},
           next # "rensgs"
    PROVE  SweepInv'
  <1>. DEFINE todo == sweep.todo \cup Orphans(K)
  <1>1. /\ sweep \in Sweep /\ sweep.at = at
        /\ sweep' = [sweep EXCEPT !.at = next, !.todo = todo]
        /\ UNCHANGED <<live, uses, built>>
    BY DEF GroupInv, SweepInv, SweepList, Sweeps
  <1>2. \A r \in Orphans(K) : r \in Resource /\ r[1] \in K
    BY DEF Orphans, OfKind
  <1>3. todo \in SUBSET Resource
    BY <1>1, <1>2 DEF Sweep
  <1>. HIDE DEF todo
  <1>4. /\ sweep' \in Sweep /\ sweep'.at = next /\ sweep'.todo = todo
        /\ sweep'.clean = sweep.clean /\ sweep'.aged = sweep.aged
    BY <1>1, <1>3 DEF Sweep
  <1>5. \A r \in todo : r[1] # "vm"
    BY <1>2 DEF todo, GroupInv, SweepInv
  <1>6. next \in {"rensgs", "repips", "redelete"} => \A r \in todo : r[1] \in {"pip", "nsg"}
    BY <1>1, <1>2 DEF todo, GroupInv, SweepInv
  <1>7. next # "done"
    BY DEF Sweeping, Listings
  <1>8. \A r \in Resource : Orphan(r)' <=> Orphan(r)
    BY <1>1, <1>4 DEF Orphan, HeldBack, UsersOf
  <1>9. ASSUME NEW r \in Resource, Orphan(r), r \in sweep.todo \/ Ahead(r[1])
        PROVE  r \in todo \/ Ahead(r[1])'
    <2>1. CASE r \in sweep.todo
      BY <2>1 DEF todo
    <2>2. CASE r[1] \in K
      BY <1>9, <2>2 DEF todo, Orphans, OfKind, Orphan
    <2>3. CASE r[1] \notin K /\ Ahead(r[1])
      BY <1>9, <2>3, Resources DEF Orphan
    <2>. QED  BY <1>9, <2>1, <2>2, <2>3
  <1>10. sweep.clean => \A r \in Resource : Orphan(r) => r \in sweep.todo \/ Ahead(r[1])
    BY DEF GroupInv, SweepInv
  <1>. QED  BY <1>4, <1>5, <1>6, <1>7, <1>8, <1>9, <1>10 DEF SweepInv

LEMMA SweepListsOk == ASSUME GroupInv, SweepLists \/ Refind PROVE SweepInv'
  <1>a. ASSUME NEW at, NEW K, NEW next, SweepList(at, K, next)
        PROVE  sweep.at = at /\ sweep'.at = next
    <2>. DEFINE todo == sweep.todo \cup Orphans(K)
    <2>1. sweep \in Sweep /\ sweep.at = at /\ sweep' = [sweep EXCEPT !.at = next, !.todo = todo]
      BY <1>a DEF GroupInv, SweepInv, SweepList, Sweeps
    <2>. HIDE DEF todo
    <2>. QED  BY <2>1 DEF Sweep
  <1>b. Kinds = {"vm", "osdisk", "home", "nic", "pip", "nsg"}
    BY DEF Kinds
  <1>c. {"nics", "pips", "nsgs", "confirm", "repips", "redelete"} \subseteq Sweeping
    BY DEF Sweeping, Listings
  <1>1. CASE SweepList("disks", {"osdisk", "home"}, "nics")
    <2>1. \A k \in Kinds \ ({"vm"} \cup {"osdisk", "home"}) : Ahead(k) => Ahead(k)'
      BY <1>1, <1>a, <1>b DEF Ahead
    <2>. QED  BY <1>1, <1>b, <1>c, <2>1, ListOk
  <1>2. CASE SweepList("nics", {"nic"}, "pips")
    <2>1. \A k \in Kinds \ ({"vm"} \cup {"nic"}) : Ahead(k) => Ahead(k)'
      BY <1>2, <1>a, <1>b DEF Ahead
    <2>. QED  BY <1>2, <1>b, <1>c, <2>1, ListOk
  <1>3. CASE SweepList("pips", {"pip"}, "nsgs")
    <2>1. \A k \in Kinds \ ({"vm"} \cup {"pip"}) : Ahead(k) => Ahead(k)'
      BY <1>3, <1>a, <1>b DEF Ahead
    <2>. QED  BY <1>3, <1>b, <1>c, <2>1, ListOk
  <1>4. CASE SweepList("nsgs", {"nsg"}, "confirm")
    <2>1. \A k \in Kinds \ ({"vm"} \cup {"nsg"}) : Ahead(k) => Ahead(k)'
      BY <1>4, <1>a, <1>b DEF Ahead
    <2>. QED  BY <1>4, <1>b, <1>c, <2>1, ListOk
  <1>5. CASE SweepList("rensgs", {"nsg"}, "repips")
    <2>1. \A k \in Kinds \ ({"vm"} \cup {"nsg"}) : Ahead(k) => Ahead(k)'
      BY <1>5, <1>a, <1>b DEF Ahead
    <2>. QED  BY <1>5, <1>b, <1>c, <2>1, ListOk
  <1>6. CASE SweepList("repips", {"pip"}, "redelete")
    <2>1. \A k \in Kinds \ ({"vm"} \cup {"pip"}) : Ahead(k) => Ahead(k)'
      BY <1>6, <1>a, <1>b DEF Ahead
    <2>. QED  BY <1>6, <1>b, <1>c, <2>1, ListOk
  <1>. QED  BY <1>1, <1>2, <1>3, <1>4, <1>5, <1>6 DEF SweepLists, Refind

(* One deletion: it sets nothing free, unless it is a NIC's.               *)
LEMMA SweepDeleteOk ==
    ASSUME GroupInv, NEW d \in Resource, SweepDelete(d) PROVE SweepInv'
  <1>1. /\ sweep \in Sweep /\ sweep.at \in {"delete", "redelete"} /\ d \in sweep.todo
        /\ d[1] # "vm" /\ UNCHANGED built
    BY DEF GroupInv, SweepInv, SweepDelete
  <1>. DEFINE todo == sweep.todo \ {d}
              gone == (sweep.nicGone \/ d[1] = "nic")
  <1>2. todo \in SUBSET Resource /\ gone \in BOOLEAN
    BY <1>1 DEF Sweep
  <1>3. CASE sweep' = [sweep EXCEPT !.todo = todo, !.clean = FALSE]
    <2>. HIDE DEF todo
    <2>1. /\ sweep' \in Sweep /\ sweep'.at = sweep.at /\ sweep'.todo = todo
          /\ ~sweep'.clean
      BY <1>1, <1>2, <1>3 DEF Sweep
    <2>. QED  BY <1>1, <2>1 DEF GroupInv, SweepInv, todo
  <1>4. CASE /\ ~Refused(d)
             /\ IF d \in live THEN AzureDeletes(d) ELSE UNCHANGED <<live, uses>>
             /\ sweep' = [sweep EXCEPT !.todo = todo, !.nicGone = gone]
    <2>1. /\ sweep' \in Sweep /\ sweep'.at = sweep.at /\ sweep'.todo = todo
          /\ sweep'.nicGone = gone /\ sweep'.clean = sweep.clean /\ sweep'.aged = sweep.aged
      <3>. HIDE DEF todo, gone
      <3>. QED  BY <1>1, <1>2, <1>4 DEF Sweep
    <2>2. Implicit(d) = {}
      <3>1. \A x \in Implicit(d) : <<d, x>> \in uses /\ x[1] \in {"osdisk", "nic"}
        BY DEF Implicit, OfKind
      <3>2. \A w \in uses : w[2][1] \in {"osdisk", "nic"} => w[1][1] = "vm"
        BY DEF GroupInv, SessionInv, GoodUses
      <3>3. ASSUME NEW x \in Implicit(d) PROVE FALSE
        <4>. DEFINE w == <<d, x>>
        <4>1. w \in uses /\ w[1] = d /\ w[2] = x /\ x[1] \in {"osdisk", "nic"}
          BY <3>1
        <4>. HIDE DEF w
        <4>. QED  BY <1>1, <3>2, <4>1
      <3>. QED  BY <3>3
    <2>3. /\ live' = live \ {d}
          /\ uses' = uses \/ uses' = {w \in uses : w[1] # d /\ w[2] # d}
      BY <1>4, <2>2 DEF AzureDeletes, Drop
    <2>4. ASSUME NEW r \in Resource, Orphan(r)', sweep.clean
          PROVE  r \in todo \/ Ahead(r[1])'
      <3>1. r \in live /\ r # d /\ r[1] # "vm" /\ ~HeldBack(r)
        BY <1>1, <2>1, <2>3, <2>4 DEF Orphan, HeldBack
      <3>2. CASE UsersOf(r) = {}
        <4>1. r \in sweep.todo \/ Ahead(r[1])
          BY <2>4, <3>1, <3>2 DEF Orphan, GroupInv, SweepInv
        <4>2. Ahead(r[1]) => Ahead(r[1])'
          BY <1>1, <2>1 DEF Ahead
        <4>. QED  BY <3>1, <4>1, <4>2
      <3>3. CASE UsersOf(r) # {}
        <4>1. PICK a \in User : <<a, r>> \in uses
          BY <3>3 DEF UsersOf
        <4>2. <<a, r>> \notin uses'
          BY <2>4, <4>1 DEF Orphan, UsersOf
        <4>3. a = d
          BY <2>3, <3>1, <4>1, <4>2
        <4>4. d[1] = "nic" /\ r[1] \in {"pip", "nsg"}
          BY <1>1, <4>1, <4>3, Resources DEF GroupInv, FitUses, Kinds
        <4>5. sweep.at = "delete"
          BY <1>1, <4>4 DEF GroupInv, SweepInv
        <4>. QED  BY <2>1, <4>4, <4>5 DEF Ahead
      <3>. QED  BY <3>2, <3>3
    <2>. QED  BY <1>1, <2>1, <2>4 DEF GroupInv, SweepInv
  <1>. QED  BY <1>3, <1>4 DEF SweepDelete

(* The other steps of the cleanup, and those of the others.                *)
LEMMA GroupStep == GroupInv /\ [GroupNext]_groupVars => GroupInv'
  <1>. SUFFICES ASSUME GroupInv, [GroupNext]_groupVars PROVE SweepInv'
    BY FitUsesStep, GroupSessionStep DEF GroupInv
  <1>0. sweep \in Sweep /\ SweepInv
    BY DEF GroupInv, SweepInv
  <1>1. CASE UNCHANGED groupVars
    BY <1>0, <1>1 DEF groupVars, SweepInv, Ahead, Orphan, HeldBack, UsersOf
  <1>2. CASE Next /\ sweep' = Disturbed
    <2>1. CASE sweep.at \in Sweeping
      <3>1. sweep' = [sweep EXCEPT !.clean = FALSE]
        BY <1>2, <2>1 DEF Disturbed, Sweeping, Listings
      <3>2. /\ sweep' \in Sweep /\ sweep'.at = sweep.at /\ sweep'.todo = sweep.todo
            /\ ~sweep'.clean
        BY <1>0, <3>1 DEF Sweep
      <3>. QED  BY <1>0, <3>2 DEF SweepInv
    <2>2. CASE sweep.at = "idle"
      <3>1. sweep' = sweep
        BY <1>2, <2>2 DEF Disturbed, Sweeping, Listings
      <3>. QED  BY <1>0, <2>2, <3>1 DEF SweepInv, Ahead
    <2>3. CASE sweep.at \notin Sweeping \cup {"idle"}
      BY <1>2, <2>3, OverOk DEF Disturbed
    <2>. QED  BY <2>1, <2>2, <2>3
  <1>3. CASE SweepStart
    <2>1. PICK b \in BOOLEAN : sweep' = [Unswept EXCEPT !.at = "disks", !.aged = b]
      BY <1>3 DEF SweepStart, Sweeps
    <2>2. sweep' \in Sweep /\ sweep'.at = "disks" /\ sweep'.todo = {}
      BY <2>1 DEF Unswept, Sweep, Sweeping, Listings
    <2>. QED  BY <2>2 DEF SweepInv, Ahead
  <1>4. CASE SweepLists \/ Refind
    BY <1>4, SweepListsOk
  <1>5. CASE SweepListFails \/ SweepKilled
    BY <1>5, OverOk DEF SweepListFails, SweepKilled, Sweeps
  <1>6. ASSUME NEW at \in {"done", "delete", "rensgs"}, UNCHANGED <<live, uses, built>>,
               sweep' = [sweep EXCEPT !.at = at],
               at # "delete" => sweep.todo = {},
               \A k \in Kinds : k # "vm" /\ Ahead(k) =>
                  sweep.at = "delete" /\ sweep.nicGone /\ at = "rensgs"
        PROVE  SweepInv'
    <2>1. /\ sweep' \in Sweep /\ sweep'.at = at /\ sweep'.todo = sweep.todo
          /\ sweep'.clean = sweep.clean /\ sweep'.aged = sweep.aged
      <3>1. at \in Sweeping \cup {"idle", "done"}
        BY DEF Sweeping, Listings
      <3>. QED  BY <1>0, <1>6, <3>1 DEF Sweep
    <2>2. \A r \in Resource : Orphan(r)' <=> Orphan(r)
      BY <1>6, <2>1 DEF Orphan, HeldBack, UsersOf
    <2>3. ASSUME NEW r \in Resource, Orphan(r), sweep.clean
          PROVE  r \in sweep.todo \/ Ahead(r[1])'
      <3>1. r \in sweep.todo \/ Ahead(r[1])
        BY <1>0, <2>3 DEF SweepInv
      <3>2. Ahead(r[1]) => Ahead(r[1])'
        <4>1. r[1] \in Kinds /\ r[1] # "vm"
          BY <2>3, Resources DEF Orphan
        <4>2. Ahead(r[1]) => /\ sweep.at = "delete" /\ sweep.nicGone /\ at = "rensgs"
          BY <1>6, <4>1
        <4>. QED  BY <2>1, <4>2 DEF Ahead
      <3>. QED  BY <3>1, <3>2
    <2>. QED  BY <1>0, <1>6, <2>1, <2>2, <2>3 DEF SweepInv
  <1>7. CASE SweepConfirm
    <2>1. CASE sweep' = Over
      BY <2>1, OverOk
    <2>2. CASE sweep' # Over
      <3>1. \A k \in Kinds : ~Ahead(k)
        BY <1>7 DEF SweepConfirm, Ahead
      <3>. QED  BY <1>6, <1>7, <2>2, <3>1 DEF SweepConfirm, Sweeps
    <2>. QED  BY <2>1, <2>2
  <1>8. CASE Deleted
    <2>1. CASE sweep.at = "delete"
      <3>1. /\ sweep' = [sweep EXCEPT !.at = IF sweep.nicGone THEN "rensgs" ELSE "done"]
            /\ UNCHANGED <<live, uses, built>> /\ sweep.todo = {}
        BY <1>8, <2>1 DEF Deleted, Sweeps
      <3>2. \A k \in Kinds : Ahead(k) => sweep.nicGone
        BY <2>1 DEF Ahead
      <3>. QED  BY <1>6, <2>1, <3>1, <3>2
    <2>2. CASE sweep.at = "redelete"
      <3>1. \A k \in Kinds : ~Ahead(k)
        BY <2>2 DEF Ahead
      <3>. QED  BY <1>6, <1>8, <2>2, <3>1 DEF Deleted, Sweeps
    <2>. QED  BY <1>8, <2>1, <2>2 DEF Deleted
  <1>9. ASSUME NEW d \in Resource, SweepDelete(d) PROVE SweepInv'
    BY <1>9, SweepDeleteOk
  <1>. QED
    BY <1>1, <1>2, <1>3, <1>4, <1>5, <1>7, <1>8, <1>9 DEF GroupNext, SweepStep

(* A cleanup nobody disturbs, and none of whose deletions fails, leaves no *)
(* orphan but the young disks it was told to hold back: it need not be run *)
(* a second time.                                                          *)
THEOREM OnePassSuffices == GroupSpec => []OnePassIsEnough
  <1>1. ASSUME GroupInv, sweep.at = "done", sweep.clean,
               NEW r \in live, r[1] # "vm", ~HeldBack(r), UsersOf(r) = {}
        PROVE  FALSE
    <2>1. r \in Resource
      BY <1>1 DEF GroupInv, SessionInv, TypeInv, TypeOK
    <2>2. r \in sweep.todo \/ Ahead(r[1])
      BY <1>1, <2>1 DEF GroupInv, SweepInv, Orphan
    <2>. QED  BY <1>1, <2>2 DEF GroupInv, SweepInv, Ahead
  <1>2. GroupInv => OnePassIsEnough
    BY <1>1 DEF OnePassIsEnough
  <1>. QED  BY <1>2, GroupInitOk, GroupStep, PTL DEF GroupSpec

-----------------------------------------------------------------------------
(* Teardowns while nothing is created.  Of the world: an association links *)
(* what exists, in the way azlin or a bystander made it; a VM has its OS   *)
(* disk and its NIC, and refers to each disk and NIC of its own; a VM made *)
(* by hand has nothing with a tag.                                         *)
Wired ==
    /\ \A w \in uses :
          /\ w[1] \in live \cup {Subnet, NatGateway} /\ w[2] \in live
          /\ \/ w[1][1] = "vm" /\ w[2][1] \in {"osdisk", "home", "nic"} /\ w[2][2] = w[1][2]
             \/ w[1][1] = "nic" /\ w[2][1] \in {"pip", "nsg"}
             \/ w[1] = Subnet /\ w[2][1] = "nsg"
             \/ w[1] = NatGateway /\ w[2][1] = "pip"
    /\ \A v \in VMs : <<"vm", v>> \in live =>
          /\ <<"osdisk", v>> \in live /\ <<"nic", v>> \in live
          /\ \A k \in {"osdisk", "home", "nic"} :
                <<k, v>> \in live => <<<<"vm", v>>, <<k, v>>>> \in uses
          /\ tag[<<"vm", v>>] = NoTag => \A k \in Kinds : tag[<<k, v>>] = NoTag

Looking == {"disks", "nics", "pips", "nsgs"}
Again == {"repips", "rensgs", "redelete"}
Planning == Looking \cup {"delete"} \cup Again

(* What is left of the target, of these kinds. *)
Left(t, K) == {r \in live \cap OfKind(K) : r[2] = t.target}

(* The plan is in order: until something fails, the target's VM and the    *)
(* NICs seen on it are in the plan or gone, and a public IP or an NSG in   *)
(* the plan is used by none but them and a subnet.                         *)
InOrder(t) ==
    /\ t.pc = "vm" => ~t.found /\ t.failed = {} /\ t.todo = {}
    /\ t.pc \in Planning => t.nics \subseteq OfKind({"nic"}) \/ t.pc \in {"disks", "nics"}
    /\ t.pc = "repips" => t.todo = {}
    /\ t.pc = "rensgs" => \A r \in t.todo : r[1] \in {"pip", "nsg"}
    /\ t.pc \in {"disks", "nics"} => \A r \in t.todo : r[1] \notin {"pip", "nsg"}
    /\ t.pc \in Planning /\ t.found /\ t.failed = {} => Left(t, {"vm"}) \subseteq t.todo
    /\ t.pc \in Planning \ {"disks", "nics"} /\ t.failed = {} =>
          /\ t.nics \cap live \subseteq t.todo
          /\ \A r \in t.todo : r[1] \in {"pip", "nsg"} => UsersOf(r) \subseteq t.nics \cup {Subnet}

(* The kinds a teardown has looked up for its target. *)
Seen(pc) ==
    {k \in {"osdisk", "home", "nic"} : pc \notin {"disks", "nics"} \/ (k # "nic" /\ pc = "nics")}
Sorted(pc) == {k \in {"pip", "nsg"} : pc \notin Looking \/ (k = "pip" /\ pc = "nsgs")}

(* The plan is complete: until something fails, all that is left of the    *)
(* target is in it, or skipped and reported.                               *)
Complete(t) ==
    /\ t.pc \in Planning => t.target \in VMs
    /\ t.pc \in Looking => t.failed = {} /\ (t.found => <<"vm", t.target>> \in live)
    /\ t.pc \in Planning /\ t.found => t.sess = tag[<<"vm", t.target>>]
    /\ t.pc \in Planning /\ t.failed = {} =>
          /\ t.found => Left(t, Seen(t.pc)) \subseteq t.todo
          /\ ~t.found /\ t.pc # "disks" /\ <<"vm", t.target>> \in live =>
                <<"osdisk", t.target>> \in t.todo
          /\ \A r \in Left(t, Sorted(t.pc)) : tag[r] # NoTag =>
                r \in t.inUse \/ (r \in t.todo /\ t.pc \notin {"repips", "rensgs"})


LEMMA PcSets ==
    /\ Planning = {"disks", "nics", "pips", "nsgs", "delete", "repips", "rensgs", "redelete"}
    /\ Looking = {"disks", "nics", "pips", "nsgs"}
  BY DEF Planning, Looking, Again

LEMMA Pairs ==
    /\ \A r \in Resource : r = <<r[1], r[2]>>
    /\ \A k \in Kinds, v \in VMs : <<k, v>> \in Resource /\ <<k, v>>[1] = k /\ <<k, v>>[2] = v
    /\ Subnet \notin Resource /\ NatGateway \notin Resource
    /\ Subnet[1] = "subnet" /\ NatGateway[1] = "natgw" /\ Subnet # NatGateway
    /\ Kinds = {"vm", "osdisk", "home", "nic", "pip", "nsg"}
  BY DEF Resource, Kinds, Subnet, NatGateway

(* What a command does to the world: nothing, or one deletion.             *)
LEMMA CommandWorld ==
    ASSUME NEW u \in Users, Command(u)
    PROVE  /\ UNCHANGED tag
           /\ \/ UNCHANGED <<live, uses>>
              \/ \E d \in live : ~Refused(d) /\ AzureDeletes(d)
  <1>1. CASE \E r \in Resource : Delete(u, r)
    BY <1>1 DEF Delete
  <1>2. CASE ~\E r \in Resource : Delete(u, r)
    BY <1>2 DEF Command, Killall, KillallList, KillallRelist, KillallDecline,
           KillallNext, Destroy, GetVm, ListDisks, ListNics, ListPips, ListNsgs,
           ListError, Attempted, RecheckPips, RecheckNsgs, RecheckError, Killed
  <1>. QED  BY <1>1, <1>2

(* What a deletion takes away: nothing that something else refers to.      *)
LEMMA DeletionTakes ==
    ASSUME TypeInv, Wired, NEW d \in live, ~Refused(d), AzureDeletes(d)
    PROVE  \E R \in SUBSET live :
              /\ d \in R /\ live' = live \ R
              /\ uses' = {w \in uses : w[1] \notin R /\ w[2] \notin R}
              /\ \A w \in uses : w[2] \in R => w[1] \in R
              /\ \A r \in R : r # d => d[1] = "vm" /\ r[2] = d[2] /\ r[1] \in {"osdisk", "nic"}
  <1>1. PICK X \in SUBSET Implicit(d) : Drop({d} \cup X)
    BY DEF AzureDeletes
  <1>2. \A x \in X : x \in live /\ x[1] \in {"osdisk", "nic"} /\ <<d, x>> \in uses
    BY <1>1 DEF Implicit, OfKind
  <1>3. d \in Resource /\ d # Subnet /\ d # NatGateway
    BY Pairs DEF TypeInv, TypeOK
  <1>4. ASSUME NEW x \in X PROVE d[1] = "vm" /\ x[2] = d[2]
    <2>. DEFINE w == <<d, x>>
    <2>1. w \in uses /\ w[1] = d /\ w[2] = x /\ x[1] \in {"osdisk", "nic"}
      BY <1>2
    <2>. HIDE DEF w
    <2>. QED  BY <1>3, <2>1 DEF Wired
  <1>5. ASSUME NEW w \in uses, w[2] \in {d} \cup X PROVE w[1] \in {d} \cup X
    <2>1. w = <<w[1], w[2]>> /\ w[1] \in User /\ w[2] \in Resource
      BY DEF TypeInv, TypeOK
    <2>2. w[2] # d
      BY <2>1 DEF Refused, UsersOf
    <2>3. w[2] \in X /\ w[2][1] \in {"osdisk", "nic"}
      BY <1>2, <1>5, <2>2
    <2>4. w[1][1] = "vm" /\ w[2][2] = w[1][2]
      BY <2>3, Pairs DEF Wired
    <2>5. w[1] \in Resource
      BY <2>1, <2>4, Pairs DEF Wired, TypeInv, TypeOK
    <2>6. w[1] = d
      BY <1>3, <1>4, <2>3, <2>4, <2>5, Pairs
    <2>. QED  BY <2>6
  <1>6. {d} \cup X \in SUBSET live
    BY <1>2
  <1>7. /\ live' = live \ ({d} \cup X)
        /\ uses' = {w \in uses : w[1] \notin {d} \cup X /\ w[2] \notin {d} \cup X}
    BY <1>1 DEF Drop
  <1>8. \A r \in {d} \cup X : r # d => d[1] = "vm" /\ r[2] = d[2] /\ r[1] \in {"osdisk", "nic"}
    BY <1>2, <1>4
  <1>. DEFINE R == {d} \cup X
  <1>9. d \in R
    OBVIOUS
  <1>. HIDE DEF R
  <1>. QED  BY <1>5, <1>6, <1>7, <1>8, <1>9 DEF R

LEMMA WiredInit == Init => Wired
  <1>. SUFFICES ASSUME Init PROVE Wired
    OBVIOUS
  <1>1. PICK have \in [VMs -> {"none", "private", "public", "leftover"}],
             handmade \in SUBSET VMs, shared \in SUBSET VMs, natted \in SUBSET VMs :
            /\ live = UNION {Profile(v)[have[v]] : v \in VMs}
            /\ tag = [r \in Resource |-> IF r \notin live \/ r[2] \in handmade
                                           THEN NoTag ELSE Session(r[2])]
            /\ \A v \in handmade : have[v] # "none"
            /\ \A v \in shared : <<"nsg", v>> \in live
            /\ \A v \in natted : <<"pip", v>> \in live /\ <<"nic", v>> \notin live
            /\ uses = Among(UNION {Wiring(v) : v \in VMs}, live)
                        \cup {<<Subnet, <<"nsg", v>>>> : v \in shared}
                        \cup {<<NatGateway, <<"pip", v>>>> : v \in natted}
    BY DEF Init
  <1>2. ASSUME NEW w \in uses
        PROVE  /\ w[1] \in live \cup {Subnet, NatGateway} /\ w[2] \in live
               /\ \/ w[1][1] = "vm" /\ w[2][1] \in {"osdisk", "home", "nic"} /\ w[2][2] = w[1][2]
                  \/ w[1][1] = "nic" /\ w[2][1] \in {"pip", "nsg"}
                  \/ w[1] = Subnet /\ w[2][1] = "nsg"
                  \/ w[1] = NatGateway /\ w[2][1] = "pip"
    <2>1. CASE w \in Among(UNION {Wiring(v) : v \in VMs}, live)
      <3>1. /\ w[1] \in live \cup {Subnet, NatGateway} /\ w[2] \in live
            /\ \E v \in VMs : w \in Wiring(v)
        BY <2>1 DEF Among
      <3>. QED  BY <3>1 DEF Wiring
    <2>2. CASE w \in {<<Subnet, <<"nsg", v>>>> : v \in shared}
      BY <1>1, <2>2
    <2>3. CASE w \in {<<NatGateway, <<"pip", v>>>> : v \in natted}
      <3>1. PICK v \in natted : w = <<NatGateway, <<"pip", v>>>>
        BY <2>3
      <3>2. <<"pip", v>> \in live
        BY <1>1
      <3>. QED  BY <3>1, <3>2
    <2>. QED  BY <1>1, <2>1, <2>2, <2>3
  <1>3. ASSUME NEW v \in VMs, <<"vm", v>> \in live
        PROVE  /\ <<"osdisk", v>> \in live /\ <<"nic", v>> \in live
               /\ \A k \in {"osdisk", "home", "nic"} :
                     <<k, v>> \in live => <<<<"vm", v>>, <<k, v>>>> \in uses
               /\ tag[<<"vm", v>>] = NoTag => \A k \in Kinds : tag[<<k, v>>] = NoTag
    <2>1. PICK x \in VMs : <<"vm", v>> \in Profile(x)[have[x]]
      BY <1>1, <1>3
    <2>2. x = v /\ Whole(v) \subseteq Profile(v)[have[v]]
      BY <1>1, <2>1 DEF Profile, Whole
    <2>3. Whole(v) \subseteq live
      BY <1>1, <2>2
    <2>4. <<"osdisk", v>> \in live /\ <<"nic", v>> \in live
      BY <2>3 DEF Whole
    <2>5. ASSUME NEW k \in {"osdisk", "home", "nic"}, <<k, v>> \in live
          PROVE  <<<<"vm", v>>, <<k, v>>>> \in uses
      <3>1. <<<<"vm", v>>, <<k, v>>>> \in Wiring(v)
        BY DEF Wiring
      <3>2. <<<<"vm", v>>, <<k, v>>>> \in Among(UNION {Wiring(y) : y \in VMs}, live)
        BY <1>3, <2>5, <3>1 DEF Among
      <3>. QED  BY <1>1, <3>2
    <2>6. ASSUME tag[<<"vm", v>>] = NoTag, NEW k \in Kinds PROVE tag[<<k, v>>] = NoTag
      <3>1. <<"vm", v>> \in Resource /\ <<k, v>> \in Resource
        BY Pairs
      <3>2. v \in handmade
        BY <1>1, <1>3, <2>6, <3>1, SessionIsTag
      <3>. QED  BY <1>1, <3>1, <3>2
    <2>. QED  BY <2>4, <2>5, <2>6
  <1>. QED  BY <1>2, <1>3 DEF Wired

LEMMA WiredStep == ASSUME TypeInv, Wired, [Unbuilt]_vars PROVE Wired'
  <1>1. CASE UNCHANGED <<live, uses, tag>>
    BY <1>1 DEF Wired
  <1>2. ASSUME NEW r \in Resource, Share(r) PROVE Wired'
    <2>1. /\ uses' = uses \cup {<<Subnet, r>>} /\ r \in live /\ r[1] = "nsg"
          /\ UNCHANGED <<live, tag>>
      BY <1>2 DEF Share, OfKind
    <2>2. \A w \in uses' : w \in uses \/ (w[1] = Subnet /\ w[2] = r)
      BY <2>1
    <2>3. uses \subseteq uses'
      BY <2>1
    <2>4. ASSUME NEW w \in uses'
          PROVE  /\ w[1] \in live \cup {Subnet, NatGateway} /\ w[2] \in live
                 /\ \/ w[1][1] = "vm" /\ w[2][1] \in {"osdisk", "home", "nic"}
                                         /\ w[2][2] = w[1][2]
                    \/ w[1][1] = "nic" /\ w[2][1] \in {"pip", "nsg"}
                    \/ w[1] = Subnet /\ w[2][1] = "nsg"
                    \/ w[1] = NatGateway /\ w[2][1] = "pip"
      BY <2>1, <2>2 DEF Wired
    <2>. QED  BY <2>1, <2>3, <2>4 DEF Wired
  <1>3. ASSUME NEW d \in live, ~Refused(d), AzureDeletes(d), UNCHANGED tag PROVE Wired'
    <2>1. PICK R \in SUBSET live :
              /\ d \in R /\ live' = live \ R
              /\ uses' = {w \in uses : w[1] \notin R /\ w[2] \notin R}
              /\ \A w \in uses : w[2] \in R => w[1] \in R
              /\ \A r \in R : r # d => d[1] = "vm" /\ r[2] = d[2] /\ r[1] \in {"osdisk", "nic"}
      BY <1>3, DeletionTakes
    <2>2. ASSUME NEW w \in uses' PROVE w[1] \in live' \cup {Subnet, NatGateway} /\ w[2] \in live'
      BY <2>1 DEF Wired
    <2>3. ASSUME NEW v \in VMs, <<"vm", v>> \in live', NEW k \in {"osdisk", "home", "nic"},
                 <<k, v>> \in live
          PROVE  <<k, v>> \in live' /\ <<<<"vm", v>>, <<k, v>>>> \in uses'
      <3>. DEFINE w == <<<<"vm", v>>, <<k, v>>>>
      <3>1. w \in uses /\ w[1] = <<"vm", v>> /\ w[2] = <<k, v>> /\ w[1] \notin R
        BY <2>1, <2>3 DEF Wired
      <3>. HIDE DEF w
      <3>2. w \in uses' /\ w[2] \notin R
        BY <2>1, <3>1
      <3>. QED  BY <2>1, <2>3, <3>1, <3>2 DEF w
    <2>. QED  BY <1>3, <2>1, <2>2, <2>3 DEF Wired
  <1>. QED  BY <1>1, <1>2, <1>3, CommandWorld DEF Unbuilt, vars

LEMMA UnbuiltIsNext == [Unbuilt]_vars => [Next]_vars
  BY DEF Unbuilt, Next, Environment

-----------------------------------------------------------------------------
(* The order of deletions.  What a step of a command makes of its task.    *)

(* A task outside the planning of a VM is in order and complete.           *)
LEMMA OutOfPlanning ==
    ASSUME NEW t, t.pc \notin Planning, t.pc = "vm" => ~t.found /\ t.failed = {} /\ t.todo = {}
    PROVE  InOrder(t) /\ Complete(t)
  BY PcSets DEF InOrder, Complete

LEMMA FreshFields ==
    ASSUME NEW t \in Task, NEW v
    PROVE  /\ Fresh(t, v).pc = "vm" /\ ~Fresh(t, v).found
           /\ Fresh(t, v).failed = {} /\ Fresh(t, v).todo = {}
  BY DEF Fresh, Task

(* The steps that plan.                                                    *)
Plans(u) ==
    \/ GetVm(u) \/ ListDisks(u) \/ ListNics(u) \/ ListPips(u) \/ ListNsgs(u)
    \/ \E r \in Resource : Delete(u, r)
    \/ Attempted(u) \/ RecheckPips(u) \/ RecheckNsgs(u) \/ RecheckError(u)

LEMMA OthersDoNotPlan ==
    ASSUME TypeInv, NEW u \in Users, Command(u), ~Plans(u)
    PROVE  /\ task'[u].pc \notin Planning
           /\ task'[u].pc = "vm" => /\ ~task'[u].found /\ task'[u].failed = {}
                                    /\ task'[u].todo = {}
           /\ task'[u].failed \subseteq task[u].failed
           /\ task'[u].pc = "done" => task[u].pc \in {"list", "relist"}
           /\ UNCHANGED World
  <1>. DEFINE t == task[u]
  <1>1. t \in Task /\ \A s : Become(u, s) => task'[u] = s
    BY DEF TypeInv, TypeOK
  <1>2. CASE Killall(u) \/ Killed(u)
    <2>1. \/ task'[u] = [Idle EXCEPT !.pc = "list", !.prog = "killall"]
          \/ task'[u] = Idle
      BY <1>1, <1>2 DEF Killall, Killed
    <2>2. /\ Idle.pc = "idle" /\ Idle.failed = {}
          /\ [Idle EXCEPT !.pc = "list", !.prog = "killall"].pc = "list"
          /\ [Idle EXCEPT !.pc = "list", !.prog = "killall"].failed = {}
      BY DEF Idle
    <2>3. task'[u].pc \in {"list", "idle"} /\ task'[u].failed = {}
      BY <2>1, <2>2
    <2>. QED  BY <1>2, <2>3, PcSets DEF Killall, Killed
  <1>3. CASE KillallList(u)
    <2>1. \/ task'[u] = [t EXCEPT !.pc = "done"]
          \/ task'[u] = [t EXCEPT !.pc = "relist", !.confirmed = Listed]
      BY <1>1, <1>3 DEF KillallList
    <2>2. task'[u].pc \in {"done", "relist"} /\ task'[u].failed = t.failed
      BY <1>1, <2>1 DEF Task
    <2>. QED  BY <1>3, <2>2, PcSets DEF KillallList
  <1>4. CASE KillallRelist(u)
    <2>1. task'[u] = [t EXCEPT !.pc = "done", !.queue = Listed \cap t.confirmed]
      BY <1>1, <1>4 DEF KillallRelist
    <2>2. task'[u].pc = "done" /\ task'[u].failed = t.failed
      BY <1>1, <2>1 DEF Task
    <2>. QED  BY <1>4, <2>2, PcSets DEF KillallRelist
  <1>5. CASE KillallDecline(u)
    <2>1. task'[u] = [t EXCEPT !.pc = "done"]
      BY <1>1, <1>5 DEF KillallDecline
    <2>2. task'[u].pc = "done" /\ task'[u].failed = t.failed
      BY <1>1, <2>1 DEF Task
    <2>. QED  BY <1>5, <2>2, PcSets DEF KillallDecline
  <1>6. CASE ListError(u)
    <2>1. task'[u] = [t EXCEPT !.pc = "error"]
      BY <1>1, <1>6 DEF ListError
    <2>2. task'[u].pc = "error" /\ task'[u].failed = t.failed
      BY <1>1, <2>1 DEF Task
    <2>. QED  BY <1>6, <2>2, PcSets DEF ListError
  <1>7. CASE \E v \in VMs : Destroy(u, v) \/ KillallNext(u, v)
    <2>1. Idle \in Task /\ \A v : [t EXCEPT !.queue = @ \ {v}] \in Task
      BY <1>1, IdleIsGood DEF Task
    <2>2. /\ \E s \in Task, v \in VMs : Become(u, Fresh(s, v))
          /\ UNCHANGED World
      BY <1>7, <2>1 DEF Destroy, KillallNext
    <2>. QED  BY <1>1, <2>2, FreshFields, PcSets
  <1>. QED  BY <1>2, <1>3, <1>4, <1>5, <1>6, <1>7 DEF Command, Plans

(* The fields of a task that a step of the plan leaves alone.              *)
Same(u) ==
    /\ task'[u].target = task[u].target /\ task'[u].found = task[u].found
    /\ task'[u].sess = task[u].sess /\ task'[u].failed = task[u].failed

LEMMA GetVmFields ==
    ASSUME TypeInv, NEW u \in Users, GetVm(u)
    PROVE  LET t == task[u]
               s == task'[u]
           IN  /\ t.pc = "vm" /\ s.pc = "disks" /\ s.target = t.target /\ t.target \in VMs
               /\ s.failed = t.failed
               /\ \/ /\ <<"vm", t.target>> \in live /\ s.found
                     /\ s.sess = tag[<<"vm", t.target>>] /\ s.todo = {<<"vm", t.target>>}
                  \/ s.found = t.found /\ s.todo = t.todo
               /\ UNCHANGED World
  <1>. DEFINE t == task[u]
              v == t.target
              yes == [t EXCEPT !.pc = "disks", !.found = TRUE,
                        !.sess = tag[<<"vm", v>>], !.todo = {<<"vm", v>>}]
              no == [t EXCEPT !.pc = "disks", !.sess = v]
  <1>1. t \in Task /\ \A s : Become(u, s) => task'[u] = s
    BY DEF TypeInv, TypeOK
  <1>2. /\ t.pc = "vm" /\ UNCHANGED World /\ v \in VMs
        /\ \/ <<"vm", v>> \in live /\ task'[u] = yes
           \/ task'[u] = no
    BY <1>1 DEF GetVm, TypeInv, GoodTask
  <1>3. /\ yes.pc = "disks" /\ yes.target = v /\ yes.failed = t.failed /\ yes.found
        /\ yes.sess = tag[<<"vm", v>>] /\ yes.todo = {<<"vm", v>>}
    BY <1>1 DEF Task
  <1>4. /\ no.pc = "disks" /\ no.target = v /\ no.failed = t.failed /\ no.found = t.found
        /\ no.todo = t.todo
    BY <1>1 DEF Task
  <1>. HIDE DEF yes, no
  <1>. QED  BY <1>2, <1>3, <1>4

LEMMA ListDisksFields ==
    ASSUME TypeInv, NEW u \in Users, ListDisks(u)
    PROVE  LET t == task[u]
               s == task'[u]
           IN  /\ t.pc = "disks" /\ s.pc = "nics" /\ Same(u)
               /\ s.todo = t.todo \cup AttachedTo(t.target, {"osdisk", "home"})
               /\ UNCHANGED World
  <1>. DEFINE D == AttachedTo(task[u].target, {"osdisk", "home"})
  <1>1. /\ task[u] \in Task /\ task[u].pc = "disks" /\ UNCHANGED World
        /\ task'[u] = [task[u] EXCEPT !.pc = "nics", !.todo = task[u].todo \cup D]
    BY DEF TypeInv, TypeOK, ListDisks
  <1>. HIDE DEF D
  <1>2. /\ task'[u].pc = "nics" /\ task'[u].todo = task[u].todo \cup D /\ Same(u)
    BY <1>1 DEF Task, Same
  <1>. QED  BY <1>1, <1>2 DEF D

LEMMA ListNicsFields ==
    ASSUME TypeInv, NEW u \in Users, ListNics(u)
    PROVE  LET t == task[u]
               s == task'[u]
               N == AttachedTo(t.target, {"nic"})
           IN  /\ t.pc = "nics" /\ s.pc = "pips" /\ Same(u)
               /\ s.todo = t.todo \cup N /\ s.nics = N
               /\ UNCHANGED World
  <1>. DEFINE N == AttachedTo(task[u].target, {"nic"})
  <1>1. /\ task[u] \in Task /\ task[u].pc = "nics" /\ UNCHANGED World
        /\ task'[u] = [task[u] EXCEPT !.pc = "pips", !.nics = N, !.todo = task[u].todo \cup N]
    BY DEF TypeInv, TypeOK, ListNics
  <1>. HIDE DEF N
  <1>2. /\ task'[u].pc = "pips" /\ task'[u].todo = task[u].todo \cup N /\ Same(u)
        /\ task'[u].nics = N
    BY <1>1 DEF Task, Same
  <1>. QED  BY <1>1, <1>2 DEF N

(* What classify adds to a plan, and to what is skipped.                   *)
Sorts(u, k) ==
    \E add, skip \in SUBSET Resource :
        /\ task'[u].todo = task[u].todo \cup add
        /\ task'[u].inUse = task[u].inUse \cup skip
        /\ \A r \in add : r[1] = k /\ UsersOf(r) \subseteq task[u].nics
        /\ \A r \in live \cap OfKind({k}) : Owned(task[u], r) => r \in add \cup skip

Classifies(u, k, G, pc) == task'[u] = [Classified(task[u], {k}, G) EXCEPT !.pc = pc]
Planned(u, k, G) == Classified(task[u], {k}, G).todo

LEMMA ClassifiedFields ==
    ASSUME TypeInv, NEW u \in Users, NEW k, NEW G, NEW pc, Classifies(u, k, G, pc)
    PROVE  /\ task'[u].pc = pc /\ Same(u) /\ task'[u].nics = task[u].nics /\ Sorts(u, k)
           /\ task'[u].todo = Planned(u, k, G)
  <1>. DEFINE t == task[u]
              seen == live \cap OfKind({k})
              free == {r \in seen : Free(r, t.nics, G)}
              add == {r \in free : Owned(t, r)}
              skip == {r \in seen \ free : Owned(t, r)}
              s == [Classified(t, {k}, G) EXCEPT !.pc = pc]
  <1>1. t \in Task /\ task'[u] = s
    BY DEF TypeInv, TypeOK, Classifies
  <1>2. /\ \A r \in add : r[1] = k /\ UsersOf(r) \subseteq t.nics
        /\ \A r \in seen : Owned(t, r) => r \in add \cup skip
        /\ add \in SUBSET Resource /\ skip \in SUBSET Resource
    BY DEF OfKind, Free
  <1>. HIDE DEF add, skip, seen
  <1>3. /\ Classified(t, {k}, G) = [t EXCEPT !.todo = t.todo \cup add, !.inUse = t.inUse \cup skip]
        /\ s = [t EXCEPT !.pc = pc, !.todo = t.todo \cup add, !.inUse = t.inUse \cup skip]
    BY <1>1 DEF Classified, Task, add, skip, seen
  <1>4. Planned(u, k, G) = t.todo \cup add
    BY <1>1, <1>3 DEF Task, Planned
  <1>5. /\ s.pc = pc /\ s.todo = t.todo \cup add /\ s.inUse = t.inUse \cup skip
        /\ s.nics = t.nics /\ s.target = t.target /\ s.found = t.found
        /\ s.sess = t.sess /\ s.failed = t.failed
    BY <1>1, <1>3 DEF Task
  <1>. HIDE DEF s
  <1>6. Sorts(u, k)
    BY <1>1, <1>2, <1>5 DEF Sorts, seen
  <1>. QED  BY <1>1, <1>4, <1>5, <1>6 DEF Same

LEMMA ListPipsFields ==
    ASSUME TypeInv, NEW u \in Users, ListPips(u)
    PROVE  /\ task[u].pc = "pips" /\ task'[u].pc = "nsgs" /\ Same(u)
           /\ task'[u].nics = task[u].nics /\ Sorts(u, "pip")
           /\ UNCHANGED World
  <1>1. PICK G : Become(u, [Classified(task[u], {"pip"}, G) EXCEPT !.pc = "nsgs"])
    BY DEF ListPips
  <1>2. Classifies(u, "pip", G, "nsgs")
    BY <1>1 DEF Classifies, TypeInv
  <1>. QED  BY <1>2, ClassifiedFields DEF ListPips

LEMMA ListNsgsFields ==
    ASSUME TypeInv, NEW u \in Users, ListNsgs(u)
    PROVE  /\ task[u].pc = "nsgs" /\ Same(u)
           /\ task'[u].pc = IF task'[u].todo = {} THEN "done" ELSE "delete"
           /\ task'[u].nics = task[u].nics /\ Sorts(u, "nsg")
           /\ UNCHANGED World
  <1>1. PICK G : LET c == Classified(task[u], {"nsg"}, G)
                 IN  Become(u, [c EXCEPT !.pc = IF c.todo = {} THEN "done" ELSE "delete"])
    BY DEF ListNsgs
  <1>. DEFINE pc == IF Planned(u, "nsg", G) = {} THEN "done" ELSE "delete"
  <1>2. Classifies(u, "nsg", G, pc)
    BY <1>1 DEF Classifies, Planned, TypeInv
  <1>3. /\ task'[u].pc = pc /\ Same(u) /\ task'[u].nics = task[u].nics
        /\ Sorts(u, "nsg") /\ task'[u].todo = Planned(u, "nsg", G)
    <2>. HIDE DEF pc
    <2>. QED  BY <1>2, ClassifiedFields
  <1>. QED  BY <1>3 DEF ListNsgs

LEMMA DeleteFields ==
    ASSUME TypeInv, NEW u \in Users, NEW d \in Resource, Delete(u, d)
    PROVE  LET t == task[u]
               s == task'[u]
           IN  /\ t.pc \in {"delete", "redelete"} /\ s.pc = t.pc
               /\ s.target = t.target /\ s.found = t.found /\ s.sess = t.sess
               /\ s.nics = t.nics /\ s.inUse = t.inUse
               /\ d \in t.todo /\ First(t, d) /\ s.todo = t.todo \ {d}
               /\ s.failed = t.failed \/ s.failed = t.failed \cup {d}
               /\ s.failed = t.failed =>
                     d \in t.failed \/ (~Refused(d) /\ d \notin live')
               /\ UNCHANGED tag
  <1>. DEFINE t == task[u]
              ok == [t EXCEPT !.todo = @ \ {d}]
              bad == [t EXCEPT !.todo = @ \ {d}, !.failed = @ \cup {d}]
  <1>1. t \in Task /\ \A s : Become(u, s) => task'[u] = s
    BY DEF TypeInv, TypeOK
  <1>2. /\ t.pc \in {"delete", "redelete"} /\ d \in t.todo /\ First(t, d) /\ UNCHANGED tag
        /\ \/ task'[u] = bad
           \/ /\ task'[u] = ok /\ ~Refused(d)
              /\ IF d \in live THEN AzureDeletes(d) ELSE UNCHANGED <<live, uses>>
    BY <1>1 DEF Delete
  <1>3. /\ ok.pc = t.pc /\ ok.target = t.target /\ ok.found = t.found /\ ok.sess = t.sess
        /\ ok.nics = t.nics /\ ok.inUse = t.inUse /\ ok.todo = t.todo \ {d}
        /\ ok.failed = t.failed
    BY <1>1 DEF Task
  <1>4. /\ bad.pc = t.pc /\ bad.target = t.target /\ bad.found = t.found /\ bad.sess = t.sess
        /\ bad.nics = t.nics /\ bad.inUse = t.inUse /\ bad.todo = t.todo \ {d}
        /\ bad.failed = t.failed \cup {d}
    BY <1>1 DEF Task
  <1>5. (IF d \in live THEN AzureDeletes(d) ELSE UNCHANGED <<live, uses>>) => d \notin live'
    BY DEF AzureDeletes, Drop
  <1>. HIDE DEF ok, bad
  <1>. QED  BY <1>2, <1>3, <1>4, <1>5

LEMMA AttemptedFields ==
    ASSUME TypeInv, NEW u \in Users, Attempted(u)
    PROVE  LET t == task[u]
               s == task'[u]
           IN  /\ Same(u) /\ s.todo = {} /\ t.todo = {} /\ s.nics = t.nics /\ s.inUse = t.inUse
               /\ t.pc \in {"delete", "redelete"}
               /\ s.pc = "done" \/ (s.pc = "repips" /\ t.pc = "delete")
               /\ UNCHANGED World
  <1>1. /\ task[u] \in Task /\ \A s : Become(u, s) => task'[u] = s
        /\ task[u].todo = {} /\ UNCHANGED World
    BY DEF TypeInv, TypeOK, Attempted
  <1>2. \E pc \in {"done", "repips"} :
           /\ task'[u] = [task[u] EXCEPT !.pc = pc]
           /\ task[u].pc \in {"delete", "redelete"}
           /\ pc = "repips" => task[u].pc = "delete"
    BY <1>1 DEF Attempted
  <1>. QED  BY <1>1, <1>2 DEF Task, Same

(* What the second look frees was skipped, and has no association.         *)
LEMMA FreedIs ==
    ASSUME NEW t, NEW K, NEW G, NEW r \in Freed(t, K, G)
    PROVE  r \in t.inUse /\ r[1] \in K /\ UsersOf(r) = {}
  BY DEF Freed, Free, OfKind

LEMMA RecheckPipsFields ==
    ASSUME TypeInv, NEW u \in Users, RecheckPips(u)
    PROVE  LET t == task[u]
               s == task'[u]
           IN  /\ Same(u) /\ s.nics = t.nics /\ s.inUse = t.inUse
               /\ t.pc = "repips" /\ s.pc = "rensgs"
               /\ \A r \in s.todo : r \in t.inUse /\ r[1] = "pip" /\ UsersOf(r) = {}
               /\ UNCHANGED World
  <1>1. PICK G : Become(u, [task[u] EXCEPT !.pc = "rensgs", !.todo = Freed(task[u], {"pip"}, G)])
    BY DEF RecheckPips
  <1>. DEFINE F == Freed(task[u], {"pip"}, G)
  <1>2. \A r \in F : r \in task[u].inUse /\ r[1] = "pip" /\ UsersOf(r) = {}
    BY FreedIs
  <1>. HIDE DEF F
  <1>3. task[u] \in Task /\ task'[u] = [task[u] EXCEPT !.pc = "rensgs", !.todo = F]
    BY <1>1 DEF TypeInv, TypeOK, F
  <1>4. /\ Same(u) /\ task'[u].nics = task[u].nics /\ task'[u].inUse = task[u].inUse
        /\ task'[u].pc = "rensgs" /\ task'[u].todo = F
    BY <1>3 DEF Task, Same
  <1>. QED  BY <1>2, <1>4 DEF RecheckPips

LEMMA RecheckNsgsFields ==
    ASSUME TypeInv, NEW u \in Users, RecheckNsgs(u)
    PROVE  LET t == task[u]
               s == task'[u]
           IN  /\ Same(u) /\ s.nics = t.nics /\ s.inUse = t.inUse \ s.todo
               /\ t.pc = "rensgs" /\ s.pc = "redelete" /\ t.todo \subseteq s.todo
               /\ \A r \in s.todo \ t.todo : r[1] = "nsg" /\ UsersOf(r) = {}
               /\ UNCHANGED World
  <1>1. PICK G : LET F == task[u].todo \cup Freed(task[u], {"nsg"}, G)
                 IN  Become(u, [task[u] EXCEPT !.pc = "redelete", !.todo = F,
                                               !.inUse = task[u].inUse \ F])
    BY DEF RecheckNsgs
  <1>. DEFINE N == Freed(task[u], {"nsg"}, G)
              F == task[u].todo \cup N
  <1>2. \A r \in F \ task[u].todo : r[1] = "nsg" /\ UsersOf(r) = {}
    BY FreedIs
  <1>3. task[u].todo \subseteq F
    OBVIOUS
  <1>4. task'[u] = [task[u] EXCEPT !.pc = "redelete", !.todo = F, !.inUse = task[u].inUse \ F]
    BY <1>1 DEF TypeInv, TypeOK
  <1>5. task[u] \in Task
    BY DEF TypeInv, TypeOK
  <1>. HIDE DEF F
  <1>6. /\ Same(u) /\ task'[u].nics = task[u].nics /\ task'[u].inUse = task[u].inUse \ F
        /\ task'[u].pc = "redelete" /\ task'[u].todo = F
    BY <1>4, <1>5 DEF Task, Same
  <1>. QED  BY <1>2, <1>3, <1>6 DEF RecheckNsgs

LEMMA RecheckErrorFields ==
    ASSUME TypeInv, NEW u \in Users, RecheckError(u)
    PROVE  LET t == task[u]
               s == task'[u]
           IN  /\ Same(u) /\ s.nics = t.nics /\ s.inUse = t.inUse
               /\ t.pc \in {"repips", "rensgs"} /\ s.pc = "redelete" /\ s.todo = {}
               /\ UNCHANGED World
  <1>1. /\ task[u] \in Task /\ task'[u] = [task[u] EXCEPT !.pc = "redelete", !.todo = {}]
        /\ task[u].pc \in {"repips", "rensgs"} /\ UNCHANGED World
    BY DEF TypeInv, TypeOK, RecheckError
  <1>. QED  BY <1>1 DEF Task, Same

(* Whatever happens to the world, a plan that stays as it is stays in      *)
(* order: resources only go, and only a subnet refers to more.             *)
LEMMA WorldShrinks ==
    ASSUME TypeInv, Wired, [Unbuilt]_vars
    PROVE  /\ live' \subseteq live
           /\ \A w \in uses' : w \in uses \/ w[1] = Subnet
           /\ UNCHANGED <<tag, built>>
  <1>1. ASSUME NEW u \in Users, Command(u) PROVE live' \subseteq live /\ uses' \subseteq uses
    BY <1>1, CommandWorld DEF AzureDeletes, Drop
  <1>2. ASSUME NEW u \in Users, Command(u) PROVE UNCHANGED <<tag, built>>
    BY <1>2 DEF Command, Killall, KillallList, KillallRelist, KillallDecline,
           KillallNext, Destroy, GetVm, ListDisks, ListNics, ListPips, ListNsgs,
           ListError, Delete, Attempted, RecheckPips, RecheckNsgs, RecheckError, Killed
  <1>3. ASSUME NEW r \in Resource, Share(r)
        PROVE  UNCHANGED <<live, tag, built>> /\ uses' = uses \cup {<<Subnet, r>>}
    BY <1>3 DEF Share
  <1>. QED  BY <1>1, <1>2, <1>3 DEF Unbuilt, vars

LEMMA UsersShrink ==
    ASSUME TypeInv, Wired, [Unbuilt]_vars
    PROVE  \A r : UsersOf(r)' \subseteq UsersOf(r) \cup {Subnet}
  <1>. SUFFICES ASSUME NEW r, NEW a \in User, <<a, r>> \in uses'
                PROVE  <<a, r>> \in uses \/ a = Subnet
    BY DEF UsersOf
  <1>. DEFINE w == <<a, r>>
  <1>1. w \in uses' /\ w[1] = a
    OBVIOUS
  <1>. HIDE DEF w
  <1>2. w \in uses \/ a = Subnet
    BY <1>1, WorldShrinks
  <1>. QED  BY <1>2 DEF w

LEMMA OrderStays ==
    ASSUME TypeInv, Wired, [Unbuilt]_vars, NEW u \in Users, task'[u] = task[u],
           InOrder(task[u])
    PROVE  InOrder(task[u])'
  <1>1. live' \subseteq live
    BY WorldShrinks
  <1>2. Left(task[u], {"vm"})' \subseteq Left(task[u], {"vm"})
    BY <1>1 DEF Left
  <1>. QED  BY <1>1, <1>2, UsersShrink DEF InOrder

(* A step of the plan leaves it in order.                                  *)
LEMMA OrderStep ==
    ASSUME SessionInv, Wired, [Unbuilt]_vars, NEW u \in Users, Command(u), InOrder(task[u])
    PROVE  InOrder(task[u])'
  <1>. DEFINE t == task[u]
              s == task'[u]
  <1>. USE DEF Same
  <1>1. TypeInv /\ live' \subseteq live /\ t \in Task
    BY WorldShrinks DEF SessionInv, TypeInv, TypeOK
  <1>2. Left(t, {"vm"})' = {r \in live' \cap OfKind({"vm"}) : r[2] = s.target}
    BY DEF Left
  <1>3. \A r : UsersOf(r)' \subseteq UsersOf(r) \cup {Subnet}
    BY <1>1, UsersShrink
  <1>. DEFINE Ordered ==
         /\ s.pc = "vm" => ~s.found /\ s.failed = {} /\ s.todo = {}
         /\ s.pc \in Planning => s.nics \subseteq OfKind({"nic"}) \/ s.pc \in {"disks", "nics"}
         /\ s.pc = "repips" => s.todo = {}
         /\ s.pc = "rensgs" => \A r \in s.todo : r[1] \in {"pip", "nsg"}
         /\ s.pc \in {"disks", "nics"} => \A r \in s.todo : r[1] \notin {"pip", "nsg"}
         /\ s.pc \in Planning /\ s.found /\ s.failed = {} =>
               \A r \in live' \cap OfKind({"vm"}) : r[2] = s.target => r \in s.todo
         /\ s.pc \in Planning \ {"disks", "nics"} /\ s.failed = {} =>
               /\ s.nics \cap live' \subseteq s.todo
               /\ \A r \in s.todo : r[1] \in {"pip", "nsg"} =>
                                       UsersOf(r)' \subseteq s.nics \cup {Subnet}
  <1>4. SUFFICES Ordered
    BY <1>2 DEF InOrder
  <1>5. t.pc \in Planning /\ t.found /\ t.failed = {} =>
           \A r \in live' \cap OfKind({"vm"}) : r[2] = t.target => r \in t.todo
    BY <1>1 DEF InOrder, Left
  <1>6. CASE GetVm(u)
    <2>1. /\ s.pc = "disks" /\ s.target = t.target /\ ~t.found /\ t.todo = {}
          /\ \/ s.todo = {<<"vm", t.target>>}
             \/ s.found = t.found /\ s.todo = t.todo
      BY <1>1, <1>6, GetVmFields DEF InOrder
    <2>2. \A r \in OfKind({"vm"}) : r[2] = t.target => r = <<"vm", t.target>>
      BY Pairs DEF OfKind
    <2>. QED  BY <2>1, <2>2
  <1>7. CASE ListDisks(u)
    <2>1. \A r \in AttachedTo(t.target, {"osdisk", "home"}) : r[1] \notin {"pip", "nsg"}
      BY DEF AttachedTo, OfKind
    <2>2. /\ t.pc = "disks" /\ s.pc = "nics" /\ Same(u)
          /\ s.todo = t.todo \cup AttachedTo(t.target, {"osdisk", "home"})
      BY <1>1, <1>7, ListDisksFields
    <2>. QED  BY <1>5, <2>1, <2>2, PcSets DEF InOrder
  <1>8. CASE ListNics(u)
    <2>. DEFINE N == AttachedTo(t.target, {"nic"})
    <2>1. N \subseteq OfKind({"nic"}) /\ \A r \in N : r[1] \notin {"pip", "nsg"}
      BY DEF AttachedTo, OfKind
    <2>2. /\ t.pc = "nics" /\ s.pc = "pips" /\ Same(u)
          /\ s.todo = t.todo \cup N /\ s.nics = N
      BY <1>1, <1>8, ListNicsFields
    <2>. HIDE DEF N
    <2>. QED  BY <1>5, <2>1, <2>2, PcSets DEF InOrder
  <1>9. ASSUME NEW k \in {"pip", "nsg"}, Sorts(u, k), Same(u), s.nics = t.nics,
               t.pc \in {"pips", "nsgs"}, s.pc \in {"nsgs", "delete", "done"}
        PROVE  Ordered
    <2>1. /\ t.todo \subseteq s.todo
          /\ \A r \in s.todo : r \in t.todo \/ (r[1] = k /\ UsersOf(r) \subseteq t.nics)
      BY <1>9 DEF Sorts
    <2>2. ASSUME s.pc \in Planning, t.failed = {}, NEW r \in s.todo, r[1] \in {"pip", "nsg"}
          PROVE  UsersOf(r)' \subseteq t.nics \cup {Subnet}
      BY <1>3, <1>9, <2>1, <2>2, PcSets DEF InOrder
    <2>3. t.failed = {} => t.nics \cap live' \subseteq s.todo
      BY <1>1, <1>9, <2>1, PcSets DEF InOrder
    <2>4. t.nics \subseteq OfKind({"nic"}) /\ t.pc \in Planning
      BY <1>9, PcSets DEF InOrder
    <2>. QED  BY <1>5, <1>9, <2>1, <2>2, <2>3, <2>4
  <1>10. CASE ListPips(u)
    BY <1>1, <1>9, <1>10, ListPipsFields
  <1>11. CASE ListNsgs(u)
    BY <1>1, <1>9, <1>11, ListNsgsFields
  <1>12. ASSUME NEW d \in Resource, Delete(u, d) PROVE Ordered
    <2>1. /\ t.pc \in {"delete", "redelete"} /\ s.pc = t.pc
          /\ s.target = t.target /\ s.found = t.found /\ s.nics = t.nics
          /\ s.todo = t.todo \ {d}
          /\ s.failed = {} => t.failed = {} /\ d \notin live'
      BY <1>1, <1>12, DeleteFields
    <2>2. s.failed = {} => t.nics \cap live' \subseteq s.todo
      BY <1>1, <2>1, PcSets DEF InOrder
    <2>3. ASSUME s.failed = {}, NEW r \in s.todo, r[1] \in {"pip", "nsg"}
          PROVE  UsersOf(r)' \subseteq s.nics \cup {Subnet}
      BY <1>3, <2>1, <2>3, PcSets DEF InOrder
    <2>4. t.nics \subseteq OfKind({"nic"}) /\ t.pc \in Planning
      BY <2>1, PcSets DEF InOrder
    <2>. QED  BY <1>5, <2>1, <2>2, <2>3, <2>4
  <1>13. CASE Attempted(u)
    <2>1. /\ Same(u) /\ s.todo = {} /\ t.todo = {} /\ s.nics = t.nics
          /\ t.pc \in {"delete", "redelete"} /\ s.pc \in {"done", "repips"}
      BY <1>1, <1>13, AttemptedFields
    <2>2. t.failed = {} => t.nics \cap live' \subseteq {}
      BY <1>1, <2>1, PcSets DEF InOrder
    <2>3. t.nics \subseteq OfKind({"nic"}) /\ t.pc \in Planning
      BY <2>1, PcSets DEF InOrder
    <2>. QED  BY <1>5, <2>1, <2>2, <2>3
  <1>14. CASE RecheckPips(u)
    <2>1. /\ Same(u) /\ s.nics = t.nics /\ t.pc = "repips" /\ s.pc = "rensgs"
          /\ \A r \in s.todo : r[1] = "pip" /\ UsersOf(r) = {}
      BY <1>1, <1>14, RecheckPipsFields
    <2>2. t.todo = {} /\ t.nics \subseteq OfKind({"nic"}) /\ t.pc \in Planning
      BY <2>1, PcSets DEF InOrder
    <2>3. t.failed = {} => t.nics \cap live' \subseteq {}
      BY <1>1, <2>1, <2>2, PcSets DEF InOrder
    <2>. QED  BY <1>3, <1>5, <2>1, <2>2, <2>3
  <1>15. CASE RecheckNsgs(u)
    <2>1. /\ Same(u) /\ s.nics = t.nics /\ t.pc = "rensgs" /\ s.pc = "redelete"
          /\ t.todo \subseteq s.todo
          /\ \A r \in s.todo \ t.todo : r[1] = "nsg" /\ UsersOf(r) = {}
      BY <1>1, <1>15, RecheckNsgsFields
    <2>2. t.nics \subseteq OfKind({"nic"}) /\ t.pc \in Planning
      BY <2>1, PcSets DEF InOrder
    <2>3. t.failed = {} => t.nics \cap live' \subseteq s.todo
      BY <1>1, <2>1, <2>2, PcSets DEF InOrder
    <2>4. ASSUME t.failed = {}, NEW r \in s.todo, r[1] \in {"pip", "nsg"}
          PROVE  UsersOf(r)' \subseteq t.nics \cup {Subnet}
      BY <1>3, <2>1, <2>2, <2>4 DEF InOrder
    <2>. QED  BY <1>5, <2>1, <2>2, <2>3, <2>4
  <1>16. CASE RecheckError(u)
    <2>1. /\ Same(u) /\ s.nics = t.nics /\ t.pc \in {"repips", "rensgs"}
          /\ s.pc = "redelete" /\ s.todo = {}
      BY <1>1, <1>16, RecheckErrorFields
    <2>2. /\ t.nics \subseteq OfKind({"nic"}) /\ t.pc \in Planning
          /\ \A r \in t.todo : r[1] \in {"pip", "nsg"}
      BY <2>1, PcSets DEF InOrder
    <2>3. t.failed = {} => t.nics \cap live' \subseteq {}
      BY <1>1, <2>1, <2>2 DEF InOrder, OfKind
    <2>4. \A r \in OfKind({"vm"}) : r \notin t.todo
      BY <2>2 DEF OfKind
    <2>. QED  BY <1>5, <2>1, <2>2, <2>3, <2>4
  <1>17. CASE ~Plans(u)
    BY <1>1, <1>17, OthersDoNotPlan, PcSets
  <1>. QED
    BY <1>6, <1>7, <1>8, <1>10, <1>11, <1>12, <1>13, <1>14, <1>15, <1>16, <1>17 DEF Plans

(* Only a command itself changes its task.                                 *)
LEMMA OnlyOwnTask ==
    ASSUME TypeInv, [Unbuilt]_vars, NEW u \in Users
    PROVE  task'[u] = task[u] \/ Command(u)
  <1>1. ASSUME NEW v \in Users, Command(v) PROVE \E s : task' = [task EXCEPT ![v] = s]
    <2>1. CASE \E r \in Resource : Delete(v, r)
      BY <2>1 DEF Delete
    <2>2. CASE ~\E r \in Resource : Delete(v, r)
      BY <1>1, <2>2 DEF Command, Killall, KillallList, KillallRelist, KillallDecline,
           KillallNext, Destroy, GetVm, ListDisks, ListNics, ListPips, ListNsgs,
           ListError, Attempted, RecheckPips, RecheckNsgs, RecheckError, Killed
    <2>. QED  BY <2>1, <2>2
  <1>2. (\A v \in Users : ~Command(v)) => UNCHANGED task
    BY DEF Unbuilt, Share, vars
  <1>. QED  BY <1>1, <1>2 DEF TypeInv

OrderInv == SessionInv /\ Wired /\ \A u \in Users : InOrder(task[u])

LEMMA OrderInit == Init => OrderInv
  <1>. SUFFICES ASSUME Init PROVE \A u \in Users : InOrder(task[u])
    BY SessionInit, WiredInit DEF OrderInv
  <1>1. Idle.pc = "idle"
    BY DEF Idle
  <1>2. \A u \in Users : task[u] = Idle
    BY DEF Init
  <1>. QED  BY <1>1, <1>2, OutOfPlanning, PcSets

LEMMA OrderNext == OrderInv /\ [Unbuilt]_vars => OrderInv'
  <1>. SUFFICES ASSUME OrderInv, [Unbuilt]_vars PROVE OrderInv'
    OBVIOUS
  <1>1. SessionInv' /\ Wired' /\ TypeInv
    BY UnbuiltIsNext, SessionStep, WiredStep DEF OrderInv, SessionInv
  <1>2. ASSUME NEW u \in Users PROVE InOrder(task[u])'
    <2>1. CASE task'[u] = task[u]
      BY <1>1, <2>1, OrderStays DEF OrderInv
    <2>2. CASE Command(u)
      BY <2>2, OrderStep DEF OrderInv
    <2>3. task'[u] = task[u] \/ Command(u)
      BY <1>1, OnlyOwnTask
    <2>. QED  BY <2>1, <2>2, <2>3
  <1>. QED  BY <1>1, <1>2 DEF OrderInv

(* Only a deletion adds to the failures.                                   *)
LEMMA FailuresAreDeletions ==
    ASSUME TypeInv, [Unbuilt]_vars, NEW u \in Users,
           NEW r \in task'[u].failed \ task[u].failed
    PROVE  r \in Resource /\ Delete(u, r)
  <1>1. Command(u)
    BY OnlyOwnTask
  <1>2. ~(\E d \in Resource : Delete(u, d)) => task'[u].failed \subseteq task[u].failed
    BY <1>1, OthersDoNotPlan, GetVmFields, ListDisksFields, ListNicsFields,
       ListPipsFields, ListNsgsFields, AttemptedFields, RecheckPipsFields,
       RecheckNsgsFields, RecheckErrorFields DEF Plans, Same
  <1>3. ASSUME NEW d \in Resource, Delete(u, d) PROVE r = d
    BY <1>3, DeleteFields
  <1>. QED  BY <1>2, <1>3

FailsInOrder(u, r) ==
    Refused(r) => \/ task[u].failed # {}
                  \/ ~task[u].found /\ <<"vm", task[u].target>> \in live
                  \/ <<Subnet, r>> \in uses

LEMMA FailedInOrder ==
    ASSUME OrderInv, [Unbuilt]_vars, NEW u \in Users,
           NEW r \in task'[u].failed \ task[u].failed
    PROVE  FailsInOrder(u, r)
  <1>. DEFINE t == task[u]
  <1>1. /\ TypeInv /\ Wired /\ InOrder(t) /\ t \in Task
        /\ uses \subseteq User \X Resource
    BY DEF OrderInv, SessionInv, TypeInv, TypeOK
  <1>2. r \in Resource /\ Delete(u, r)
    BY <1>1, FailuresAreDeletions
  <1>3. r \in t.todo /\ First(t, r) /\ t.pc \in {"delete", "redelete"}
    BY <1>2 DEF Delete
  <1>4. SUFFICES ASSUME NEW a \in User, <<a, r>> \in uses, t.failed = {},
                        <<Subnet, r>> \notin uses
                 PROVE  ~t.found /\ <<"vm", t.target>> \in live
    BY DEF FailsInOrder, Refused, UsersOf
  <1>. DEFINE w == <<a, r>>
  <1>5. w \in uses /\ w[1] = a /\ w[2] = r /\ a # Subnet
    BY <1>4
  <1>. HIDE DEF w
  <1>6. /\ a \in live \cup {NatGateway} /\ r \in live
        /\ \/ a[1] = "vm" /\ r[1] \in {"osdisk", "home", "nic"} /\ r[2] = a[2]
           \/ a[1] = "nic" /\ r[1] \in {"pip", "nsg"}
           \/ a = NatGateway /\ r[1] = "pip"
    BY <1>1, <1>5 DEF Wired
  <1>7. a \in UsersOf(r)
    BY <1>4 DEF UsersOf
  <1>8. \A s \in t.todo : Order[r[1]] <= Order[s[1]]
    BY <1>3 DEF First
  <1>9. CASE r[1] \in {"pip", "nsg"}
    <2>1. a \in t.nics \cup {Subnet}
      BY <1>1, <1>3, <1>4, <1>7, <1>9, PcSets DEF InOrder
    <2>2. a \in t.nics /\ t.nics \subseteq OfKind({"nic"})
      BY <1>1, <1>3, <1>5, <2>1, PcSets DEF InOrder
    <2>3. a[1] = "nic" /\ a \in live
      BY <1>6, <2>2, Pairs DEF OfKind
    <2>4. a \in t.todo
      BY <1>1, <1>3, <1>4, <2>2, <2>3, PcSets DEF InOrder
    <2>. QED  BY <1>8, <1>9, <2>3, <2>4 DEF Order
  <1>10. CASE r[1] \notin {"pip", "nsg"}
    <2>1. a[1] = "vm" /\ r[1] \in {"osdisk", "home", "nic"} /\ r[2] = a[2] /\ a \in live
      BY <1>6, <1>10, Pairs
    <2>2. r[2] = t.target
      BY <1>3, <1>10 DEF OrderInv, SessionInv, GoodPlans, GoodPlan, InSession
    <2>3. a = <<"vm", t.target>> /\ a \in Resource
      <3>1. a \in Resource
        BY <1>1, <2>1 DEF TypeInv, TypeOK
      <3>2. a = <<a[1], a[2]>>
        BY <3>1, Pairs
      <3>. QED  BY <2>1, <2>2, <3>1, <3>2
    <2>4. a \notin t.todo
      BY <1>8, <2>1 DEF Order
    <2>5. ~t.found
      BY <1>1, <1>3, <1>4, <2>1, <2>2, <2>3, <2>4, PcSets DEF InOrder, Left, OfKind
    <2>. QED  BY <2>1, <2>3, <2>5
  <1>. QED  BY <1>9, <1>10

(* While nothing is created, whoever else tears down, whatever fails,      *)
(* lags or is killed, and whatever a subnet is put behind: the deletions   *)
(* are in an order Azure accepts.                                          *)
THEOREM DeletionsAreOrdered == UnbuiltSpec => DependenciesFirst
  <1>. DEFINE Ok == \A u \in Users : \A r \in task'[u].failed \ task[u].failed :
                       FailsInOrder(u, r)
  <1>1. OrderInv /\ [Unbuilt]_vars => Ok
    BY FailedInOrder
  <1>2. Ok <=> \A u \in Users : \A r \in task'[u].failed \ task[u].failed :
                 LET t == task[u]
                 IN  Refused(r) => \/ t.failed # {}
                                   \/ ~t.found /\ <<"vm", t.target>> \in live
                                   \/ <<Subnet, r>> \in uses
    BY DEF FailsInOrder
  <1>3. UnbuiltSpec => [][Ok]_vars
    <2>. HIDE DEF Ok
    <2>. QED  BY <1>1, OrderInit, OrderNext, PTL DEF UnbuiltSpec
  <1>. QED  BY <1>2, <1>3, PTL DEF DependenciesFirst

-----------------------------------------------------------------------------
(* What a success leaves, of one teardown after another: no two at a time, *)
(* for a VM deleted by somebody else between get_vm and the list of disks  *)
(* takes the trace of its disks along.                                     *)
OneAtATime == \A u, w \in Users : u = w

LEMMA Mine ==
    ASSUME Wired, NEW v \in VMs, <<"vm", v>> \in live, NEW K \in SUBSET {"osdisk", "home", "nic"}
    PROVE  \A r \in live \cap OfKind(K) : r[2] = v => r \in AttachedTo(v, K)
  <1>. SUFFICES ASSUME NEW r \in live, r \in OfKind(K), r[2] = v
                PROVE  <<<<"vm", v>>, r>> \in uses
    BY DEF AttachedTo
  <1>1. r \in Resource /\ r[1] \in K
    BY DEF OfKind
  <1>2. r = <<r[1], v>>
    BY <1>1, Pairs
  <1>3. PICK k \in {"osdisk", "home", "nic"} : r = <<k, v>>
    BY <1>1, <1>2
  <1>4. <<k, v>> \in live => <<<<"vm", v>>, <<k, v>>>> \in uses
    BY <1>3 DEF Wired
  <1>. QED  BY <1>3, <1>4

LEMMA Kinded ==
    /\ Seen("disks") = {} /\ Seen("nics") = {"osdisk", "home"}
    /\ \A pc \in Planning \ {"disks", "nics"} : Seen(pc) = {"osdisk", "home", "nic"}
    /\ \A pc \in {"disks", "nics", "pips"} : Sorted(pc) = {}
    /\ Sorted("nsgs") = {"pip"}
    /\ \A pc \in Planning \ Looking : Sorted(pc) = {"pip", "nsg"}
  BY PcSets DEF Seen, Sorted

(* While the VM is looked up, whatever of its default names has a tag is   *)
(* sorted.                                                                 *)
LEMMA AllSorted ==
    ASSUME SessionInv, Wired, NEW u \in Users, NEW k, Sorts(u, k),
           task[u].pc \in {"pips", "nsgs"}, Complete(task[u])
    PROVE  \A r \in Left(task[u], Sorted(task[u].pc) \cup {k}) : tag[r] # NoTag =>
              r \in task'[u].inUse \cup task'[u].todo
  <1>. DEFINE t == task[u]
  <1>1. t.target \in VMs /\ t.failed = {} /\ t.pc \in Planning
        /\ (t.found => <<"vm", t.target>> \in live /\ t.sess = tag[<<"vm", t.target>>])
    BY PcSets DEF Complete
  <1>. SUFFICES ASSUME NEW r \in Left(t, Sorted(t.pc) \cup {k}), tag[r] # NoTag
                PROVE  r \in task'[u].inUse \cup task'[u].todo
    OBVIOUS
  <1>2. r \in live /\ r \in Resource /\ r[2] = t.target /\ r[1] \in Sorted(t.pc) \cup {k}
    BY DEF Left, OfKind
  <1>3. CASE r[1] \in Sorted(t.pc)
    <2>1. r \in Left(t, Sorted(t.pc))
      BY <1>2, <1>3 DEF Left, OfKind
    <2>2. r \in t.inUse \cup t.todo
      BY <1>1, <2>1 DEF Complete
    <2>. QED  BY <2>2 DEF Sorts
  <1>4. CASE r[1] = k
    <2>1. tag[r] = t.sess \/ NameHint(t, r)
      <3>1. CASE ~t.found
        BY <1>2, <3>1 DEF NameHint
      <3>2. CASE t.found
        <4>. DEFINE vm == <<"vm", t.target>>
        <4>1. vm \in Resource /\ vm[2] = t.target /\ r = <<r[1], t.target>> /\ r[1] \in Kinds
          BY <1>1, <1>2, Pairs DEF Resource
        <4>2. tag[vm] # NoTag
          <5>1. tag[<<"vm", t.target>>] = NoTag => tag[<<r[1], t.target>>] = NoTag
            BY <1>1, <3>2, <4>1 DEF Wired
          <5>. QED  BY <4>1, <5>1
        <4>. HIDE DEF vm
        <4>3. tag[vm] = Session(t.target) /\ tag[r] = Session(t.target)
          BY <1>2, <4>1, <4>2 DEF SessionInv, GoodTags
        <4>. QED  BY <1>1, <3>2, <4>3 DEF vm
      <3>. QED  BY <3>1, <3>2
    <2>2. Owned(t, r)
      BY <2>1 DEF Owned
    <2>3. r \in live \cap OfKind({k})
      BY <1>2, <1>4 DEF OfKind
    <2>. QED  BY <2>2, <2>3 DEF Sorts
  <1>. QED  BY <1>2, <1>3, <1>4

(* A step of the plan leaves it complete.                                  *)
LEMMA CompleteStep ==
    ASSUME SessionInv, Wired, Wired', [Unbuilt]_vars, NEW u \in Users, Command(u),
           InOrder(task[u]), Complete(task[u])
    PROVE  Complete(task[u])'
  <1>. DEFINE t == task[u]
              s == task'[u]
              of(k) == <<k, s.target>>
  <1>. USE DEF Same
  <1>1. TypeInv /\ live' \subseteq live /\ t \in Task /\ UNCHANGED tag
    BY WorldShrinks DEF SessionInv, TypeInv, TypeOK
  <1>. DEFINE Whole1 ==
         /\ s.pc \in Planning => s.target \in VMs
         /\ s.pc \in Looking => s.failed = {} /\ (s.found => of("vm") \in live')
         /\ s.pc \in Planning /\ s.found => s.sess = tag[of("vm")]
         /\ s.pc \in Planning /\ s.failed = {} =>
               /\ s.found => \A r \in live' \cap OfKind(Seen(s.pc)) :
                                r[2] = s.target => r \in s.todo
               /\ ~s.found /\ s.pc # "disks" /\ of("vm") \in live' => of("osdisk") \in s.todo
               /\ \A r \in live' \cap OfKind(Sorted(s.pc)) : r[2] = s.target /\ tag[r] # NoTag =>
                     r \in s.inUse \/ (r \in s.todo /\ s.pc \notin {"repips", "rensgs"})
  <1>2. SUFFICES Whole1
    BY <1>1 DEF Complete, Left
  <1>3. /\ t.pc \in Planning => t.target \in VMs
        /\ t.pc \in Looking => t.failed = {} /\ (t.found => <<"vm", t.target>> \in live)
        /\ t.pc \in Planning /\ t.found => t.sess = tag[<<"vm", t.target>>]
        /\ t.pc \in Planning /\ t.failed = {} =>
              /\ t.found => \A r \in live \cap OfKind(Seen(t.pc)) :
                               r[2] = t.target => r \in t.todo
              /\ ~t.found /\ t.pc # "disks" /\ <<"vm", t.target>> \in live =>
                    <<"osdisk", t.target>> \in t.todo
              /\ \A r \in live \cap OfKind(Sorted(t.pc)) : r[2] = t.target /\ tag[r] # NoTag =>
                    r \in t.inUse \/ (r \in t.todo /\ t.pc \notin {"repips", "rensgs"})
    BY DEF Complete, Left
  <1>4. OfKind({}) = {}
    BY DEF OfKind
  <1>5. CASE GetVm(u)
    <2>1. /\ t.pc = "vm" /\ s.pc = "disks" /\ s.target = t.target /\ t.target \in VMs
          /\ s.failed = {} /\ ~t.found /\ live' = live
          /\ \/ <<"vm", t.target>> \in live /\ s.sess = tag[<<"vm", t.target>>]
             \/ s.found = t.found
      BY <1>1, <1>5, GetVmFields DEF InOrder
    <2>2. Seen(s.pc) = {} /\ Sorted(s.pc) = {}
      BY <2>1, Kinded
    <2>. QED  BY <1>4, <2>1, <2>2
  <1>6. CASE ListDisks(u)
    <2>. DEFINE D == AttachedTo(t.target, {"osdisk", "home"})
    <2>1. /\ t.pc = "disks" /\ s.pc = "nics" /\ Same(u) /\ s.todo = t.todo \cup D
          /\ live' = live
      BY <1>1, <1>6, ListDisksFields
    <2>2. /\ t.pc \in Looking /\ t.pc \in Planning
          /\ Seen(s.pc) = {"osdisk", "home"} /\ Sorted(s.pc) = {}
      BY <2>1, Kinded, PcSets
    <2>3. <<"vm", t.target>> \in live =>
             /\ \A r \in live \cap OfKind({"osdisk", "home"}) : r[2] = t.target => r \in D
             /\ <<"osdisk", t.target>> \in D
      <3>. SUFFICES ASSUME <<"vm", t.target>> \in live
                    PROVE  /\ \A r \in live \cap OfKind({"osdisk", "home"}) :
                                 r[2] = t.target => r \in D
                           /\ <<"osdisk", t.target>> \in D
        OBVIOUS
      <3>1. \A r \in live \cap OfKind({"osdisk", "home"}) : r[2] = t.target => r \in D
        BY <1>3, <2>2, Mine
      <3>2. <<"osdisk", t.target>> \in live
        BY <1>3, <2>2 DEF Wired
      <3>3. <<"osdisk", t.target>> \in OfKind({"osdisk", "home"})
        BY <1>3, <2>2, Pairs DEF OfKind
      <3>. HIDE DEF D
      <3>. QED  BY <3>1, <3>2, <3>3
    <2>. HIDE DEF D
    <2>. QED  BY <1>3, <1>4, <2>1, <2>2, <2>3
  <1>7. CASE ListNics(u)
    <2>. DEFINE N == AttachedTo(t.target, {"nic"})
    <2>1. /\ t.pc = "nics" /\ s.pc = "pips" /\ Same(u) /\ s.todo = t.todo \cup N
          /\ live' = live
      BY <1>1, <1>7, ListNicsFields
    <2>2. /\ t.pc \in Looking /\ t.pc \in Planning /\ t.pc # "disks"
          /\ Seen(t.pc) = {"osdisk", "home"}
          /\ Seen(s.pc) = {"osdisk", "home", "nic"} /\ Sorted(s.pc) = {}
      BY <2>1, Kinded, PcSets
    <2>3. <<"vm", t.target>> \in live =>
             \A r \in live \cap OfKind({"nic"}) : r[2] = t.target => r \in N
      BY <1>3, <2>2, Mine
    <2>4. \A r \in OfKind({"osdisk", "home", "nic"}) :
             r \in OfKind({"osdisk", "home"}) \/ r \in OfKind({"nic"})
      BY DEF OfKind
    <2>. HIDE DEF N
    <2>. QED  BY <1>3, <1>4, <2>1, <2>2, <2>3, <2>4
  <1>8. CASE ListPips(u)
    <2>1. /\ t.pc = "pips" /\ s.pc = "nsgs" /\ Same(u) /\ Sorts(u, "pip") /\ live' = live
      BY <1>1, <1>8, ListPipsFields
    <2>2. /\ t.pc \in Looking /\ t.pc \in Planning /\ s.pc \in Looking /\ s.pc \in Planning
          /\ Seen(t.pc) = Seen(s.pc) /\ t.pc # "disks"
          /\ Sorted(s.pc) = {"pip"} /\ Sorted(t.pc) = {}
      BY <2>1, Kinded, PcSets
    <2>3. \A r \in live \cap OfKind({"pip"}) : r[2] = t.target /\ tag[r] # NoTag =>
             r \in s.inUse \cup s.todo
      BY <2>1, <2>2, AllSorted DEF Left
    <2>4. t.todo \subseteq s.todo
      BY <2>1 DEF Sorts
    <2>. QED  BY <1>3, <2>1, <2>2, <2>3, <2>4
  <1>9. CASE ListNsgs(u) /\ s.pc # "done"
    <2>1. /\ t.pc = "nsgs" /\ s.pc = "delete" /\ Same(u) /\ Sorts(u, "nsg") /\ live' = live
      BY <1>1, <1>9, ListNsgsFields
    <2>2. /\ t.pc \in Looking /\ t.pc \in Planning /\ s.pc \notin Looking /\ s.pc \in Planning
          /\ Seen(t.pc) = Seen(s.pc) /\ t.pc # "disks"
          /\ Sorted(s.pc) = Sorted(t.pc) \cup {"nsg"}
      BY <2>1, Kinded, PcSets
    <2>3. \A r \in live \cap OfKind(Sorted(s.pc)) : r[2] = t.target /\ tag[r] # NoTag =>
             r \in s.inUse \cup s.todo
      BY <2>1, <2>2, AllSorted DEF Left
    <2>4. t.todo \subseteq s.todo
      BY <2>1 DEF Sorts
    <2>. QED  BY <1>3, <2>1, <2>2, <2>3, <2>4
  <1>10. ASSUME NEW d \in Resource, Delete(u, d) PROVE Whole1
    <2>1. /\ t.pc \in {"delete", "redelete"} /\ s.pc = t.pc
          /\ s.target = t.target /\ s.found = t.found /\ s.sess = t.sess
          /\ s.inUse = t.inUse /\ s.todo = t.todo \ {d}
          /\ s.failed = {} => t.failed = {} /\ d \notin live'
      BY <1>1, <1>10, DeleteFields
    <2>2. t.pc \in Planning /\ t.pc \notin Looking /\ t.pc # "disks"
      BY <2>1, PcSets
    <2>3. <<"vm", t.target>> \in live' => <<"osdisk", t.target>> \in live'
      BY <1>3, <2>2 DEF Wired
    <2>. QED  BY <1>1, <1>3, <2>1, <2>2, <2>3
  <1>11. ASSUME t.pc \in Planning \ Looking, s.pc \in Planning \ Looking, Same(u),
                live' = live, t.failed = {} => t.todo \subseteq s.todo \cup OfKind({"pip", "nsg"}),
                t.inUse \subseteq s.inUse \cup s.todo,
                s.pc \in {"repips", "rensgs"} => t.inUse = s.inUse,
                t.todo = {} \/ t.pc \in {"repips", "rensgs"}
         PROVE  Whole1
    <2>1. /\ Seen(t.pc) = {"osdisk", "home", "nic"} /\ Seen(s.pc) = Seen(t.pc)
          /\ Sorted(s.pc) = Sorted(t.pc) /\ t.pc # "disks"
      BY <1>11, Kinded, PcSets
    <2>2. \A r \in OfKind({"osdisk", "home", "nic"}) : r \notin OfKind({"pip", "nsg"})
      BY DEF OfKind
    <2>3. t.target \in VMs => <<"osdisk", t.target>> \notin OfKind({"pip", "nsg"})
      BY Pairs DEF OfKind
    <2>. QED  BY <1>3, <1>11, <2>1, <2>2, <2>3
  <1>12. CASE Attempted(u) /\ s.pc # "done"
    BY <1>1, <1>11, <1>12, AttemptedFields, PcSets
  <1>13. CASE RecheckPips(u)
    <2>1. t.todo = {}
      BY <1>1, <1>13, RecheckPipsFields DEF InOrder
    <2>. QED  BY <1>1, <1>11, <1>13, <2>1, RecheckPipsFields, PcSets
  <1>14. CASE RecheckNsgs(u)
    BY <1>1, <1>11, <1>14, RecheckNsgsFields, PcSets
  <1>15. CASE RecheckError(u)
    <2>1. /\ Same(u) /\ s.inUse = t.inUse /\ t.pc \in {"repips", "rensgs"}
          /\ s.pc = "redelete" /\ s.todo = {} /\ live' = live
      BY <1>1, <1>15, RecheckErrorFields
    <2>2. t.todo \subseteq OfKind({"pip", "nsg"})
      BY <1>1, <2>1 DEF InOrder, OfKind, Task
    <2>. QED  BY <1>11, <2>1, <2>2, PcSets
  <1>16. CASE ~Plans(u) \/ s.pc = "done"
    BY <1>1, <1>16, OthersDoNotPlan, PcSets
  <1>. QED
    BY <1>5, <1>6, <1>7, <1>8, <1>9, <1>10, <1>12, <1>13, <1>14, <1>15, <1>16 DEF Plans

ReclaimInv == OrderInv /\ \A u \in Users : Complete(task[u])

LEMMA ReclaimInit == Init => ReclaimInv
  <1>. SUFFICES ASSUME Init PROVE \A u \in Users : Complete(task[u])
    BY OrderInit DEF ReclaimInv
  <1>1. Idle.pc = "idle"
    BY DEF Idle
  <1>2. \A u \in Users : task[u] = Idle
    BY DEF Init
  <1>. QED  BY <1>1, <1>2, OutOfPlanning, PcSets

LEMMA ReclaimNext ==
    ASSUME OneAtATime, ReclaimInv, [Unbuilt]_vars PROVE ReclaimInv'
  <1>1. OrderInv' /\ TypeInv /\ Wired /\ Wired'
    BY OrderNext DEF ReclaimInv, OrderInv, SessionInv
  <1>2. ASSUME NEW u \in Users PROVE Complete(task[u])'
    <2>1. CASE Command(u)
      BY <1>1, <2>1, CompleteStep DEF ReclaimInv, OrderInv
    <2>2. CASE ~Command(u)
      <3>1. \A v \in Users : ~Command(v)
        BY <2>2 DEF OneAtATime
      <3>2. UNCHANGED <<live, tag, task>>
        BY <3>1 DEF Unbuilt, Share, vars
      <3>. QED  BY <3>2 DEF ReclaimInv, Complete, Left
    <2>. QED  BY <2>1, <2>2
  <1>. QED  BY <1>1, <1>2 DEF ReclaimInv

Reclaimed(u) ==
    Finishes(u) /\ task[u].target \notin built =>
        \A r \in {x \in live' : x[2] = task[u].target} :
            \/ r[1] \in {"pip", "nsg"} /\ (tag[r] = NoTag \/ r \in task'[u].inUse)
            \/ r[1] \in {"osdisk", "home", "nic"} /\ ~task[u].found

LEMMA SuccessReclaims ==
    ASSUME ReclaimInv, [Unbuilt]_vars, NEW u \in Users PROVE Reclaimed(u)
  <1>. DEFINE t == task[u]
              s == task'[u]
  <1>. USE DEF Same
  <1>. SUFFICES ASSUME Finishes(u), NEW r \in live', r[2] = t.target
                PROVE  \/ r[1] \in {"pip", "nsg"} /\ (tag[r] = NoTag \/ r \in s.inUse)
                       \/ r[1] \in {"osdisk", "home", "nic"} /\ ~t.found
    BY DEF Reclaimed
  <1>1. /\ TypeInv /\ Wired /\ SessionInv /\ InOrder(t) /\ Complete(t) /\ t \in Task
        /\ live' \subseteq live /\ r \in live /\ r \in Resource
        /\ t.pc \in {"nsgs", "delete", "redelete"} /\ s.pc = "done" /\ s.failed = {}
    BY WorldShrinks DEF ReclaimInv, OrderInv, SessionInv, TypeInv, TypeOK, Finishes
  <1>2. Command(u)
    BY <1>1, OnlyOwnTask
  <1>3. ListNsgs(u) \/ Attempted(u)
    BY <1>1, <1>2, OthersDoNotPlan, GetVmFields, ListDisksFields, ListNicsFields,
       ListPipsFields, DeleteFields, RecheckPipsFields, RecheckNsgsFields,
       RecheckErrorFields DEF Plans
  <1>4. Same(u) /\ s.todo = {} /\ t.todo = {} /\ t.inUse \subseteq s.inUse
    <2>1. CASE ListNsgs(u)
      BY <1>1, <2>1, ListNsgsFields DEF Sorts
    <2>2. CASE Attempted(u)
      BY <1>1, <2>2, AttemptedFields
    <2>. QED  BY <1>3, <2>1, <2>2
  <1>5. /\ t.pc \in Planning /\ t.pc # "disks" /\ t.failed = {} /\ t.target \in VMs
        /\ Seen(t.pc) = {"osdisk", "home", "nic"}
    BY <1>1, <1>4, Kinded, PcSets DEF Complete
  <1>6. r[1] \in {"vm", "osdisk", "home", "nic", "pip", "nsg"} /\ r = <<r[1], t.target>>
    BY <1>1, Pairs DEF Resource
  <1>7. CASE r[1] = "vm"
    <2>1. <<"vm", t.target>> \in live
      BY <1>1, <1>6, <1>7
    <2>2. t.found
      BY <1>1, <1>4, <1>5, <2>1 DEF Complete
    <2>. QED  BY <1>1, <1>4, <1>5, <1>7, <2>2 DEF InOrder, Left, OfKind
  <1>8. CASE r[1] \in {"osdisk", "home", "nic"}
    BY <1>1, <1>4, <1>5, <1>8 DEF Complete, Left, OfKind
  <1>9. CASE r[1] \in {"pip", "nsg"} /\ tag[r] # NoTag
    <2>1. CASE ListNsgs(u)
      <3>1. t.pc = "nsgs" /\ Sorts(u, "nsg")
        BY <1>1, <2>1, ListNsgsFields
      <3>2. r \in Left(t, Sorted(t.pc) \cup {"nsg"})
        BY <1>1, <1>9, <3>1, Kinded DEF Left, OfKind
      <3>. QED  BY <1>1, <1>4, <1>9, <3>1, <3>2, AllSorted
    <2>2. CASE Attempted(u)
      <3>1. t.pc \in {"delete", "redelete"}
        BY <1>1, <2>2, AttemptedFields
      <3>2. r \in Left(t, Sorted(t.pc))
        BY <1>1, <1>9, <3>1, Kinded, PcSets DEF Left, OfKind
      <3>. QED  BY <1>1, <1>4, <1>5, <1>9, <3>2 DEF Complete
    <2>. QED  BY <1>3, <2>1, <2>2
  <1>. QED  BY <1>6, <1>7, <1>8, <1>9

(* Of one teardown after another, while nothing is created, with any       *)
(* faults, lags, kills and shared NSGs: a success leaves nothing of its VM *)
(* but what it mentions.                                                   *)
THEOREM SuccessReclaimsAll ==
    ASSUME OneAtATime PROVE UnbuiltSpec => SuccessMeansReclaimed
  <1>. DEFINE Ok == \A u \in Users : Reclaimed(u)
  <1>1. ReclaimInv /\ [Unbuilt]_vars => Ok
    BY SuccessReclaims
  <1>2. Ok <=> \A u \in Users :
                 LET t == task[u]
                     mine == {r \in live' : r[2] = t.target}
                 IN  Finishes(u) /\ t.target \notin built =>
                       \A r \in mine :
                         \/ r[1] \in {"pip", "nsg"} /\ (tag[r] = NoTag \/ r \in task'[u].inUse)
                         \/ r[1] \in {"osdisk", "home", "nic"} /\ ~t.found
    BY DEF Reclaimed
  <1>3. ReclaimInv /\ [Unbuilt]_vars => ReclaimInv'
    BY ReclaimNext
  <1>4. UnbuiltSpec => [][Ok]_vars
    <2>. HIDE DEF Ok
    <2>. QED  BY <1>1, <1>3, ReclaimInit, PTL DEF UnbuiltSpec
  <1>. QED  BY <1>2, <1>4, PTL DEF SuccessMeansReclaimed
=============================================================================
