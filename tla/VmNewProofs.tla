----------------------------- MODULE VmNewProofs -----------------------------
(***************************************************************************)
(* Proofs about VmNew, for any number of invocations and pools of any size;*)
(* and, in the second half, about Commands, for scripts of any length.     *)
(***************************************************************************)
EXTENDS VmNew, CommandState, Integers, Sequences, TLAPS

(* The loop of a pool never gets past the number that was asked for.       *)
InPool == \A p \in Runs : run[p].member <= run[p].order.count

(* The update of the subnet in flight is that of a run that waits for it,  *)
(* or has been killed over it.                                             *)
IsWriting == \A p \in Runs : net.writer = p => run[p].at \in {"attaching", "killed"}

(* Between its last look and its update a run saw no gateway: one that is  *)
(* there now has come since, and nobody attaches one during the update.    *)
LookedLast ==
    \A p \in Runs :
        (run[p].at \in {"pip", "natgw", "attach"} \/ net.writer = p) /\ net.gateway = "foreign"
            => run[p].since

(* The members a run has made and is still busy with, or has left behind.  *)
MadeBy(p) ==
    {n \in VmName :
        /\ n[1] = run[p].order.name
        /\ \/ n[2] < run[p].member
           \/ n[2] = run[p].member /\ run[p].at \in {"reach", "probe", "finish", "ok"}}

(* Every VM is made by one run, is up from then on, and is blind only if   *)
(* its run keeps it among the degraded ones.                               *)
Owned ==
    \A p \in Runs : \A n \in MadeBy(p) :
        /\ vm[n].state = "up"
        /\ vm[n].blind => n \in run[p].degraded \/ run[p].order.repo = "invalid"
        /\ \A q \in Runs \ {p} : n \notin MadeBy(q)

Complete ==
    \A p \in Runs :
        /\ At(p, "finish") => Last(p)
        /\ Succeeds(p) => Last(p) /\ run[p].degraded = {}

Alone(p) == \A q \in Runs \ {p} : run[q].order.name # run[p].order.name

(* A disk of the member in hand, or of one to come, is free only when its  *)
(* run knows of it, until the VM takes it over.                            *)
Known ==
    \A p \in Runs : Alone(p) /\ ~ At(p, "killed") =>
        \A i \in 1..MaxPool, role \in {"home", "tmp"} :
            LET d == <<<<run[p].order.name, i>>, role>> IN
            disk[d] = "free" /\ i >= run[p].member =>
                /\ i = run[p].member
                /\ \/ d \in run[p].stray
                   \/ d \in run[p].disks /\ run[p].at \in {"home", "tmp", "create", "cleanup"}

TypeInv == TypeOK /\ InPool

IInv == TypeInv /\ GateHolds /\ IsWriting /\ LookedLast /\ Owned /\ Complete /\ Known

-----------------------------------------------------------------------------
(* Type correctness. *)

LEMMA OrderIsTyped ==
    ASSUME NEW o \in Orders
    PROVE  /\ o.name \in Names /\ o.count \in 1..MaxPool /\ o.count \in Nat
           /\ o.public \in BOOLEAN /\ o.key \in BOOLEAN /\ o.tmp \in BOOLEAN
           /\ o.repo \in {"none", "valid", "invalid"}
  BY ConstantsAssumption DEF Order

LEMMA MemberIsTyped ==
    ASSUME TypeOK, NEW p \in Runs
    PROVE  /\ Member(p) \in VmName
           /\ \A role \in {"home", "tmp"} : <<Member(p), role>> \in Disk
  <1>1. run[p] \in Run
    BY DEF TypeOK
  <1>2. Member(p) \in VmName
    BY <1>1, OrderIsTyped DEF Run, Member, VmName
  <1>. QED  BY <1>2 DEF Disk

USE DEF At, Goto, Fails

(* A step of one run that leaves it a run leaves all of them typed. *)
LEMMA OneRun ==
    ASSUME TypeInv, NEW p \in Runs, NEW r \in Run, r.member <= r.order.count,
           run' = [run EXCEPT ![p] = r]
    PROVE  run' \in [Runs -> Run] /\ InPool'
  BY DEF TypeInv, TypeOK, InPool

LEMMA RunIsTyped ==
    ASSUME TypeInv, NEW p \in Runs
    PROVE  /\ run[p] \in Run /\ run[p].member <= run[p].order.count
           /\ \A l \in Running \cup Ended : [run[p] EXCEPT !.at = l] \in Run
  BY DEF TypeInv, TypeOK, InPool, Run

LEMMA GotoKeepsType ==
    ASSUME TypeInv, NEW p \in Runs, NEW l \in Running \cup Ended, Goto(p, l)
    PROVE  run' \in [Runs -> Run] /\ InPool'
  <1>1. [run[p] EXCEPT !.at = l].member = run[p].member /\ [run[p] EXCEPT !.at = l].order = run[p].order
    BY RunIsTyped DEF Run
  <1>. QED  BY <1>1, OneRun, RunIsTyped DEF Goto

(* The steps up to the gate, and the gate. *)
LEMMA OpeningKeepsRuns ==
    ASSUME TypeInv, NEW p \in Runs, Opening(p) \/ Gating(p)
    PROVE  run' \in [Runs -> Run] /\ InPool'
  <1>. DEFINE t == run[p]
  <1>1. t \in Run /\ t.member <= t.order.count
    BY RunIsTyped
  <1>2. \A l \in Network \cup Gate \cup PastGate \cup Ended : l \in Running \cup Ended
    BY DEF Running
  <1>3. ASSUME NEW l, Goto(p, l), l \in Network \cup Gate \cup PastGate \cup Ended
        PROVE  run' \in [Runs -> Run] /\ InPool'
    BY <1>2, <1>3, GotoKeepsType
  <1>4. ASSUME NEW l \in Network \cup Gate \cup PastGate
        PROVE  LET r == [t EXCEPT !.at = l, !.since = FALSE, !.lost = FALSE]
               IN  r \in Run /\ r.member = t.member /\ r.order = t.order
    BY <1>1, <1>2 DEF Run
  <1>5. ASSUME NEW l \in {"prompt", "pip"}, Looks(p, l)
        PROVE  run' \in [Runs -> Run] /\ InPool'
    <2>1. CASE Fails(p)
      BY <1>3, <2>1 DEF Ended
    <2>2. ASSUME NEW k \in {l, "home"},
                 run' = [run EXCEPT ![p].at = k, ![p].since = FALSE, ![p].lost = FALSE]
          PROVE  run' \in [Runs -> Run] /\ InPool'
      <3>1. k \in Network \cup Gate \cup PastGate
        BY DEF Gate, PastGate
      <3>2. run' = [run EXCEPT ![p] = [t EXCEPT !.at = k, !.since = FALSE, !.lost = FALSE]]
        BY <2>2
      <3>. QED  BY <1>1, <1>4, <3>1, <3>2, OneRun
    <2>. QED  BY <1>5, <2>1, <2>2 DEF Looks
  <1>6. ASSUME NEW l \in {"home"}, run' = [run EXCEPT ![p].at = l, ![p].public = TRUE]
        PROVE  run' \in [Runs -> Run] /\ InPool'
    <2>. DEFINE r == [t EXCEPT !.at = l, !.public = TRUE]
    <2>1. r \in Run /\ r.member <= r.order.count
      BY <1>1, <1>2 DEF Run, PastGate
    <2>2. run' = [run EXCEPT ![p] = r]
      BY <1>6
    <2>. QED  BY <2>1, <2>2, OneRun
  <1>7. ASSUME run' = [run EXCEPT ![p].at = "home", ![p].lost = FALSE]
        PROVE  run' \in [Runs -> Run] /\ InPool'
    <2>. DEFINE r == [t EXCEPT !.at = "home", !.lost = FALSE]
    <2>1. r \in Run /\ r.member <= r.order.count
      BY <1>1, <1>2 DEF Run, PastGate
    <2>2. run' = [run EXCEPT ![p] = r]
      BY <1>7
    <2>. QED  BY <2>1, <2>2, OneRun
  <1>8. CASE Start(p)
    BY <1>3, <1>8 DEF Start, Network, PastGate
  <1>9. CASE FindBastion(p)
    BY <1>3, <1>6, <1>9 DEF FindBastion, Network, Gate, Ended
  <1>10. CASE EnsureVnet(p) \/ EnsureHost(p)
    BY <1>3, <1>10 DEF EnsureVnet, EnsureHost, Network, Gate, Ended
  <1>11. CASE Detect(p) \/ Ensure(p)
    BY <1>5, <1>11 DEF Detect, Ensure
  <1>12. CASE Prompt(p)
    BY <1>3, <1>6, <1>12 DEF Prompt, Gate, Ended
  <1>13. CASE CreatePip(p) \/ CreateNatGateway(p)
    BY <1>3, <1>13 DEF CreatePip, CreateNatGateway, Gate, Ended
  <1>14. CASE Attach(p)
    <2>. DEFINE r == [t EXCEPT !.at = "recheck", !.tries = 3]
    <2>1. r \in Run /\ r.member <= r.order.count
      <3>1. "recheck" \in Running /\ 3 \in 0..3
        BY <1>2 DEF Gate, Running
      <3>. QED  BY <1>1, <3>1 DEF Run
    <2>2. ASSUME run' = [run EXCEPT ![p].at = "recheck", ![p].tries = 3]
          PROVE  run' \in [Runs -> Run] /\ InPool'
      <3>1. run' = [run EXCEPT ![p] = r]
        BY <2>2
      <3>. QED  BY <2>1, <3>1, OneRun
    <2>. QED  BY <1>3, <1>14, <2>2 DEF Attach, Gate, Ended
  <1>15. CASE Commit(p)
    BY <1>7, <1>15 DEF Commit, TypeInv, TypeOK, InPool
  <1>16. CASE CommitFails(p)
    BY <1>3, <1>16 DEF CommitFails, TypeInv, TypeOK, InPool, Ended
  <1>17. CASE Recheck(p)
    <2>1. ASSUME t.tries > 1, run' = [run EXCEPT ![p].tries = @ - 1]
          PROVE  run' \in [Runs -> Run] /\ InPool'
      <3>. DEFINE r == [t EXCEPT !.tries = t.tries - 1]
      <3>1. r \in Run /\ r.member <= r.order.count
        BY <1>1, <2>1 DEF Run
      <3>2. run' = [run EXCEPT ![p] = r]
        BY <2>1
      <3>. QED  BY <3>1, <3>2, OneRun
    <2>. QED  BY <1>3, <1>7, <1>17, <2>1 DEF Recheck, Ended
  <1>. QED
    BY <1>8, <1>9, <1>10, <1>11, <1>12, <1>13, <1>14, <1>15, <1>16, <1>17 DEF Opening, Gating

LEMMA CreatingKeepsRuns ==
    ASSUME TypeInv, NEW p \in Runs, Creating(p) \/ Kill(p)
    PROVE  run' \in [Runs -> Run] /\ InPool'
  <1>. DEFINE t == run[p]
  <1>1. t \in Run /\ t.member <= t.order.count /\ t.order \in Orders
    BY RunIsTyped DEF Run
  <1>2. \A l \in PastGate \cup Ended : l \in Running \cup Ended
    BY DEF Running
  <1>3. ASSUME NEW l, Goto(p, l), l \in PastGate \cup Ended
        PROVE  run' \in [Runs -> Run] /\ InPool'
    BY <1>2, <1>3, GotoKeepsType
  <1>4. CASE CreateDisk(p)
    <2>1. PICK role \in {"home", "tmp"} :
             LET d == <<Member(p), role>> IN
             \/ run' = [run EXCEPT ![p].at = NextDisk(p), ![p].disks = @ \cup {d}]
             \/ Goto(p, "cleanup")
             \/ run' = [run EXCEPT ![p].at = "cleanup", ![p].stray = @ \cup {d}]
      BY <1>4 DEF CreateDisk
    <2>. DEFINE d == <<Member(p), role>>
    <2>2. d \in Disk
      BY MemberIsTyped DEF TypeInv
    <2>3. NextDisk(p) \in PastGate
      BY DEF NextDisk, PastGate
    <2>. DEFINE got == [t EXCEPT !.at = NextDisk(p), !.disks = t.disks \cup {d}]
                lost == [t EXCEPT !.at = "cleanup", !.stray = t.stray \cup {d}]
    <2>4. got \in Run /\ got.member <= got.order.count
      BY <1>1, <1>2, <2>2, <2>3 DEF Run
    <2>5. lost \in Run /\ lost.member <= lost.order.count
      BY <1>1, <1>2, <2>2 DEF Run, PastGate
    <2>6. CASE Goto(p, "cleanup")
      BY <1>3, <2>6 DEF PastGate
    <2>7. CASE run' = [run EXCEPT ![p].at = NextDisk(p), ![p].disks = @ \cup {d}]
      <3>1. run' = [run EXCEPT ![p] = got]
        BY <2>7
      <3>. QED  BY <2>4, <3>1, OneRun
    <2>8. CASE run' = [run EXCEPT ![p].at = "cleanup", ![p].stray = @ \cup {d}]
      <3>1. run' = [run EXCEPT ![p] = lost]
        BY <2>8
      <3>. QED  BY <2>5, <3>1, OneRun
    <2>. QED  BY <2>1, <2>6, <2>7, <2>8
  <1>5. CASE CreateVm(p)
    BY <1>3, <1>5 DEF CreateVm, PastGate
  <1>6. CASE CleanUp(p)
    <2>1. CASE Fails(p)
      BY <1>3, <2>1 DEF Ended
    <2>2. ASSUME NEW d \in t.disks, run' = [run EXCEPT ![p].disks = @ \ {d}]
          PROVE  run' \in [Runs -> Run] /\ InPool'
      <3>. DEFINE r == [t EXCEPT !.disks = t.disks \ {d}]
      <3>1. r \in Run /\ r.member <= r.order.count
        BY <1>1 DEF Run
      <3>2. run' = [run EXCEPT ![p] = r]
        BY <2>2
      <3>. QED  BY <3>1, <3>2, OneRun
    <2>3. ASSUME NEW d \in t.disks,
                 run' = [run EXCEPT ![p].disks = @ \ {d}, ![p].stray = @ \cup {d}]
          PROVE  run' \in [Runs -> Run] /\ InPool'
      <3>. DEFINE r == [t EXCEPT !.disks = t.disks \ {d}, !.stray = t.stray \cup {d}]
      <3>1. r \in Run /\ r.member <= r.order.count
        BY <1>1 DEF Run
      <3>2. run' = [run EXCEPT ![p] = r]
        BY <2>3
      <3>. QED  BY <3>1, <3>2, OneRun
    <2>. QED  BY <1>6, <2>1, <2>2, <2>3 DEF CleanUp
  <1>7. ASSUME NEW D \in SUBSET VmName, NextMember(p, D)
        PROVE  run' \in [Runs -> Run] /\ InPool'
    <2>. DEFINE r == [t EXCEPT !.at = IF Last(p) THEN "finish" ELSE "home",
                               !.member = IF Last(p) THEN t.member ELSE t.member + 1,
                               !.disks = {}, !.degraded = D]
    <2>1. t.member \in 1..MaxPool /\ t.order.count \in 1..MaxPool /\ MaxPool \in Nat
      BY <1>1, OrderIsTyped, ConstantsAssumption DEF Run
    <2>2. \A k \in {t.member, t.member + 1} :
             k <= t.order.count => k \in 1..MaxPool
      BY <2>1
    <2>3. ~ Last(p) => t.member + 1 <= t.order.count
      BY <1>1, <2>1 DEF Last
    <2>4. r \in Run /\ r.member <= r.order.count
      BY <1>1, <1>2, <2>2, <2>3 DEF Run, PastGate
    <2>5. run' = [run EXCEPT ![p] = r]
      BY <1>7 DEF NextMember
    <2>. QED  BY <2>4, <2>5, OneRun
  <1>8. t.degraded \in SUBSET VmName /\ Member(p) \in VmName
    BY <1>1, MemberIsTyped DEF Run, TypeInv
  <1>9. ASSUME NEW D \in SUBSET VmName, AfterProbe(p, D)
        PROVE  run' \in [Runs -> Run] /\ InPool'
    BY <1>3, <1>7, <1>9 DEF AfterProbe, Ended
  <1>10. CASE Reach(p)
    BY <1>3, <1>7, <1>8, <1>10 DEF Reach, PastGate, Ended
  <1>11. CASE Probe(p)
    <2>1. t.degraded \cup {Member(p)} \in SUBSET VmName
      BY <1>8
    <2>. QED  BY <1>8, <1>9, <1>11, <2>1 DEF Probe
  <1>12. CASE Finish(p) \/ Kill(p)
    BY <1>3, <1>12 DEF Finish, Kill, Ended
  <1>. QED  BY <1>4, <1>5, <1>6, <1>10, <1>11, <1>12 DEF Creating

LEMMA RunsKeepType ==
    ASSUME TypeInv, [Next]_vars PROVE run' \in [Runs -> Run] /\ InPool'
  <1>1. CASE UNCHANGED run
    BY <1>1 DEF TypeInv, TypeOK, InPool
  <1>2. ASSUME NEW p \in Runs, Opening(p) \/ Gating(p) \/ Creating(p) \/ Kill(p)
        PROVE  run' \in [Runs -> Run] /\ InPool'
    BY <1>2, OpeningKeepsRuns, CreatingKeepsRuns
  <1>3. CASE OwnerAttaches
    <2>. DEFINE r(p) == [run[p] EXCEPT
                            !.since = @ \/ run[p].at \in {"pip", "natgw", "attach"}]
    <2>1. \A p \in Runs : r(p) \in Run /\ r(p).member <= r(p).order.count
      BY RunIsTyped DEF Run
    <2>2. run' = [p \in Runs |-> r(p)]
      BY <1>3 DEF OwnerAttaches
    <2>. QED  BY <2>1, <2>2 DEF InPool
  <1>4. CASE OwnerDetaches
    <2>. DEFINE r(p) == [run[p] EXCEPT !.lost = TRUE]
    <2>1. \A p \in Runs : r(p) \in Run /\ r(p).member <= r(p).order.count
      BY RunIsTyped DEF Run
    <2>2. run' = [p \in Runs |-> r(p)]
      BY <1>4 DEF OwnerDetaches
    <2>. QED  BY <2>1, <2>2 DEF InPool
  <1>. QED  BY <1>1, <1>2, <1>3, <1>4 DEF Next, Settle, vars

LEMMA NetKeepsType ==
    ASSUME TypeInv, [Next]_vars PROVE net' \in Net
  <1>1. /\ net \in [vnet : BOOLEAN, bastion : BOOLEAN, pip : BOOLEAN, natgw : BOOLEAN,
                    gateway : Gateway, writer : Runs \cup {Nobody}]
        /\ \A g \in {"none", "own", "foreign"} : g \in Gateway
    BY DEF TypeInv, TypeOK, Net, Gateway
  <1>2. ASSUME NEW p \in Runs, Opening(p) \/ Gating(p) PROVE net' \in Net
    BY <1>1, <1>2 DEF Opening, Gating, Start, FindBastion, EnsureVnet, EnsureHost, Detect, Prompt,
       Ensure, CreatePip, CreateNatGateway, Attach, Commit, CommitFails, Recheck, Net
  <1>3. ASSUME NEW p \in Runs, Creating(p) \/ Kill(p) PROVE UNCHANGED net
    BY <1>3 DEF Creating, Kill, CreateDisk, CreateVm, CleanUp, Reach, Probe, Finish
  <1>4. CASE OwnerAttaches \/ OwnerDetaches
    BY <1>1, <1>4 DEF OwnerAttaches, OwnerDetaches, Net
  <1>. QED  BY <1>1, <1>2, <1>3, <1>4 DEF Next, Settle, vars, Net

Disks == [Disk -> {"none", "free", "attached"}]

LEMMA WorldKeepsType ==
    ASSUME TypeInv, [Next]_vars
    PROVE  vm' \in [VmName -> Vm] /\ disk' \in Disks /\ foreign' \in 0..MaxForeign
  <1>1. /\ vm \in [VmName -> Vm] /\ disk \in Disks /\ foreign \in 0..MaxForeign
        /\ MaxForeign \in Nat
    BY ConstantsAssumption DEF TypeInv, TypeOK, Disks
  <1>2. ASSUME NEW p \in Runs, Opening(p) \/ Gating(p) \/ Reach(p) \/ Finish(p) \/ Kill(p)
        PROVE  UNCHANGED <<vm, disk, foreign>>
    BY <1>2 DEF Opening, Gating, Start, FindBastion, EnsureVnet, EnsureHost, Detect, Prompt,
       Ensure, CreatePip, CreateNatGateway, Attach, Commit, CommitFails, Recheck, Reach, Finish, Kill
  <1>3. CASE OwnerAttaches \/ OwnerDetaches
    BY <1>1, <1>3 DEF OwnerAttaches, OwnerDetaches
  <1>4. ASSUME NEW D PROVE Attached(D) \in Disks
    BY <1>1 DEF Attached, Disks
  <1>5. ASSUME NEW n, Settle(n), n \in VmName
        PROVE  vm' \in [VmName -> Vm] /\ disk' \in Disks /\ UNCHANGED foreign
    <2>1. [vm[n] EXCEPT !.state = "up"] \in Vm /\ NoVm \in Vm
      BY <1>1, <1>5 DEF Vm, NoVm
    <2>. QED  BY <1>1, <1>4, <1>5, <2>1 DEF Settle
  <1>6. ASSUME NEW p \in Runs, CreateDisk(p) \/ CleanUp(p)
        PROVE  UNCHANGED <<vm, foreign>> /\ disk' \in Disks
    BY <1>1, <1>6 DEF CreateDisk, CleanUp, Disks
  <1>7. ASSUME NEW p \in Runs, CreateVm(p)
        PROVE  vm' \in [VmName -> Vm] /\ disk' \in Disks /\ UNCHANGED foreign
    <2>1. Made(p, "up") \in Vm /\ Made(p, "pending") \in Vm
      BY RunIsTyped DEF Made, Vm, Run
    <2>. QED  BY <1>1, <1>4, <1>7, <2>1 DEF CreateVm
  <1>8. ASSUME NEW p \in Runs, Probe(p)
        PROVE  vm' \in [VmName -> Vm] /\ UNCHANGED <<disk, foreign>>
    <2>1. Member(p) \in VmName
      BY MemberIsTyped DEF TypeInv
    <2>2. [vm[Member(p)] EXCEPT !.blind = TRUE] \in Vm
      BY <1>1, <2>1 DEF Vm
    <2>. QED  BY <1>1, <1>8, <2>2 DEF Probe
  <1>. QED  BY <1>1, <1>2, <1>3, <1>5, <1>6, <1>7, <1>8 DEF Next, Creating, vars

LEMMA InitIsTyped == Init => TypeInv
  <1>. SUFFICES ASSUME Init PROVE TypeInv
    OBVIOUS
  <1>1. net \in Net
    BY DEF Init, Net, Bare, Gateway
  <1>2. vm \in [VmName -> Vm] /\ disk \in Disks
    BY DEF Init, Vm, NoVm, Disks
  <1>3. PICK order \in [Runs -> Orders] :
            run = [p \in Runs |->
                     [at |-> "idle", order |-> order[p], public |-> order[p].public,
                      member |-> 1, disks |-> {}, degraded |-> {}, tries |-> 0,
                      since |-> FALSE, lost |-> FALSE, stray |-> {}]]
    BY DEF Init
  <1>4. \A p \in Runs : order[p].public \in BOOLEAN /\ order[p].count \in 1..MaxPool
    BY OrderIsTyped
  <1>5. 1 \in 1..MaxPool /\ 0 \in 0..MaxForeign /\ 0 \in 0..3
    BY ConstantsAssumption
  <1>6. run \in [Runs -> Run]
    BY <1>3, <1>4, <1>5 DEF Run
  <1>7. InPool
    BY <1>3, <1>4 DEF InPool
  <1>. QED  BY <1>1, <1>2, <1>5, <1>6, <1>7 DEF TypeInv, TypeOK, Init, Disks

LEMMA TypeInvStep == TypeInv /\ [Next]_vars => TypeInv'
  BY RunsKeepType, NetKeepsType, WorldKeepsType DEF TypeInv, TypeOK, Disks

(* TypeOK holds throughout: of any number of invocations, for any orders.  *)
THEOREM TypeCorrect == Spec => []TypeOK
  <1>1. Spec => []TypeInv
    BY InitIsTyped, TypeInvStep, PTL DEF Spec
  <1>2. TypeInv => TypeOK
    BY DEF TypeInv
  <1>. QED  BY <1>1, <1>2, PTL

-----------------------------------------------------------------------------
(* The gate. *)

LEMMA OthersStay ==
    ASSUME TypeInv, NEW p \in Runs, Opening(p) \/ Gating(p) \/ Creating(p) \/ Kill(p)
    PROVE  /\ \A q \in Runs \ {p} : run'[q] = run[q]
           /\ run'[p].order = run[p].order
  <1>1. run \in [Runs -> Run] /\ run[p] \in Run
    BY DEF TypeInv, TypeOK
  <1>2. CASE Opening(p)
    BY <1>1, <1>2 DEF Opening, Start, FindBastion, EnsureVnet, EnsureHost, Run
  <1>3. CASE Gating(p)
    BY <1>1, <1>3 DEF Gating, Detect, Prompt, Ensure, CreatePip, CreateNatGateway, Attach, Commit,
       CommitFails, Recheck, Looks, Run
  <1>4. CASE Creating(p)
    <2>1. CASE CreateDisk(p)
      BY <1>1, <2>1 DEF CreateDisk, Run
    <2>a. CASE CreateVm(p)
      BY <1>1, <2>a DEF CreateVm, Run
    <2>b. CASE CleanUp(p)
      <3>1. Fails(p) \/ \E d :
               \/ run' = [run EXCEPT ![p].disks = @ \ {d}]
               \/ run' = [run EXCEPT ![p].disks = @ \ {d}, ![p].stray = @ \cup {d}]
        BY <2>b DEF CleanUp
      <3>. QED  BY <1>1, <3>1 DEF Run
    <2>c. CASE Finish(p)
      BY <1>1, <2>c DEF Finish, Run
    <2>2. CASE Reach(p) \/ Probe(p)
      <3>1. (\E D : NextMember(p, D)) \/ \E l : Goto(p, l)
        BY <2>2 DEF Reach, Probe, AfterProbe
      <3>. QED  BY <1>1, <3>1 DEF NextMember, Run
    <2>. QED  BY <1>4, <2>1, <2>2, <2>a, <2>b, <2>c DEF Creating
  <1>5. CASE Kill(p)
    BY <1>1, <1>5 DEF Kill, Run
  <1>. QED  BY <1>2, <1>3, <1>4, <1>5

GateInv == TypeInv /\ GateHolds /\ IsWriting /\ LookedLast

(* What the gate asks of one run. *)
Gated(p) ==
    /\ run[p].at \in PastGate /\ ~ run[p].public => net.gateway # "none" \/ run[p].lost
    /\ net.writer = p => run[p].at \in {"attaching", "killed"}
    /\ (run[p].at \in {"pip", "natgw", "attach"} \/ net.writer = p) /\ net.gateway = "foreign"
           => run[p].since

LEMMA GateOfOne ==
    ASSUME GateInv, NEW p \in Runs, Opening(p) \/ Gating(p) \/ Creating(p) \/ Kill(p)
    PROVE  Gated(p)'
  <1>1. /\ run \in [Runs -> Run] /\ run[p] \in Run /\ net \in Net /\ Nobody # p
        /\ run[p].public = TRUE \/ run[p].public = FALSE
    BY ConstantsAssumption DEF GateInv, TypeInv, TypeOK, Run
  <1>2. Gated(p)
    BY DEF GateInv, GateHolds, IsWriting, LookedLast, Gated
  <1>3. CASE Opening(p)
    BY <1>1, <1>2, <1>3 DEF Opening, Start, FindBastion, EnsureVnet, EnsureHost, Run, Net, Gated, PastGate
  <1>4. CASE Detect(p) \/ Ensure(p)
    BY <1>1, <1>2, <1>4 DEF Detect, Ensure, Looks, Run, Gated, PastGate
  <1>5. CASE Prompt(p) \/ CreatePip(p) \/ CreateNatGateway(p)
    BY <1>1, <1>2, <1>5 DEF Prompt, CreatePip, CreateNatGateway, Run, Net, Gated, PastGate
  <1>6. CASE Attach(p)
    BY <1>1, <1>2, <1>6 DEF Attach, Run, Net, Gated, PastGate
  <1>7. CASE Commit(p) \/ CommitFails(p)
    <2>1. net'.writer = Nobody /\ (Commit(p) => net'.gateway = "own")
          /\ (CommitFails(p) => net'.gateway = net.gateway)
      BY <1>1, <1>7 DEF Commit, CommitFails, Net
    <2>2. run[p].at \in {"attaching", "killed"}
      BY <1>2, <1>7 DEF Gated, Commit, CommitFails
    <2>3. run'[p].at \in {"home", "failed", "killed"}
          /\ (run'[p].at = "home" => Commit(p))
      BY <1>1, <1>7, <2>2 DEF Commit, CommitFails, Run
    <2>. QED  BY <1>1, <2>1, <2>3 DEF Gated, PastGate
  <1>8. CASE Recheck(p)
    BY <1>1, <1>2, <1>8 DEF Recheck, Run, Gated, PastGate
  <1>9. CASE Creating(p)
    <2>1. run[p].at \in PastGate /\ net' = net
      BY <1>9 DEF Creating, CreateDisk, CreateVm, CleanUp, Reach, Probe, Finish, PastGate
    <2>2. /\ run'[p].at \in PastGate \cup {"ok", "failed"}
          /\ run'[p].public = run[p].public /\ run'[p].lost = run[p].lost
      <3>1. CASE CreateDisk(p)
        BY <1>1, <3>1 DEF CreateDisk, NextDisk, PastGate, Run
      <3>a. CASE CreateVm(p)
        BY <1>1, <3>a DEF CreateVm, PastGate, Run
      <3>b. CASE CleanUp(p)
        <4>1. CASE Fails(p)
          BY <1>1, <4>1 DEF Run
        <4>2. ASSUME NEW d, run' = [run EXCEPT ![p].disks = @ \ {d}] PROVE run'[p].at = run[p].at
                 /\ run'[p].public = run[p].public /\ run'[p].lost = run[p].lost
          BY <1>1, <4>2 DEF Run
        <4>3. ASSUME NEW d, run' = [run EXCEPT ![p].disks = @ \ {d}, ![p].stray = @ \cup {d}]
              PROVE  run'[p].at = run[p].at
                 /\ run'[p].public = run[p].public /\ run'[p].lost = run[p].lost
          BY <1>1, <4>3 DEF Run
        <4>. QED  BY <3>b, <2>1, <4>1, <4>2, <4>3 DEF CleanUp
      <3>c. CASE Finish(p)
        BY <1>1, <3>c DEF Finish, PastGate, Run
      <3>2. CASE Reach(p) \/ Probe(p)
        <4>1. (\E D : NextMember(p, D)) \/ \E l \in {"probe", "ok", "failed"} : Goto(p, l)
          BY <3>2 DEF Reach, Probe, AfterProbe
        <4>. QED  BY <1>1, <4>1 DEF NextMember, PastGate, Run
      <3>. QED  BY <1>9, <3>1, <3>2, <3>a, <3>b, <3>c DEF Creating
    <2>. QED  BY <1>2, <2>1, <2>2 DEF Gated, PastGate
  <1>10. CASE Kill(p)
    BY <1>1, <1>2, <1>10 DEF Kill, Run, Gated, PastGate
  <1>. QED  BY <1>3, <1>4, <1>5, <1>6, <1>7, <1>8, <1>9, <1>10 DEF Gating

(* A step of one run makes a gateway of nothing, or of another, only for   *)
(* azlin's own, and becomes the writer only when nobody else is. *)
LEMMA NetOfOne ==
    ASSUME GateInv, NEW p \in Runs, Opening(p) \/ Gating(p) \/ Creating(p) \/ Kill(p)
    PROVE  /\ net'.gateway \in {net.gateway, "own"}
           /\ net'.writer \in {net.writer, Nobody, p}
           /\ net'.gateway # net.gateway => net.writer = p
  <1>1. net \in Net
    BY DEF GateInv, TypeInv, TypeOK
  <1>2. CASE Opening(p) \/ Gating(p)
    BY <1>1, <1>2 DEF Opening, Start, FindBastion, EnsureVnet, EnsureHost, Gating, Detect, Prompt,
       Ensure, CreatePip, CreateNatGateway, Attach, Commit, CommitFails, Recheck, Net
  <1>3. CASE Creating(p) \/ Kill(p)
    BY <1>3 DEF Creating, CreateDisk, CreateVm, CleanUp, Reach, Probe, Finish, Kill
  <1>. QED  BY <1>2, <1>3

LEMMA GateStep == GateInv /\ [Next]_vars => GateInv'
  <1>. SUFFICES ASSUME GateInv, [Next]_vars PROVE GateInv'
    OBVIOUS
  <1>1. TypeInv'
    BY TypeInvStep DEF GateInv
  <1>2. \A q \in Runs : Gated(q)
    BY DEF GateInv, GateHolds, IsWriting, LookedLast, Gated
  <1>3. SUFFICES ASSUME NEW q \in Runs PROVE Gated(q)'
    BY <1>1 DEF GateInv, GateHolds, IsWriting, LookedLast, Gated
  <1>a. /\ run \in [Runs -> Run] /\ run[q] \in Run /\ net \in Net
        /\ Nobody # q
    BY ConstantsAssumption DEF GateInv, TypeInv, TypeOK
  <1>4. CASE UNCHANGED <<net, run>>
    BY <1>2, <1>4 DEF Gated
  <1>5. ASSUME NEW p \in Runs, Opening(p) \/ Gating(p) \/ Creating(p) \/ Kill(p)
        PROVE  Gated(q)'
    <2>1. CASE p = q
      BY <1>5, <2>1, GateOfOne
    <2>2. CASE p # q
      <3>1. run'[q] = run[q]
        BY <1>5, <2>2, OthersStay DEF GateInv
      <3>. QED  BY <1>2, <1>5, <1>a, <2>2, <3>1, NetOfOne DEF Gated
    <2>. QED  BY <2>1, <2>2
  <1>6. CASE OwnerAttaches
    BY <1>2, <1>6, <1>a DEF OwnerAttaches, Gated, Net, Run
  <1>7. CASE OwnerDetaches
    BY <1>2, <1>7, <1>a DEF OwnerDetaches, Gated, Net, Run
  <1>. QED  BY <1>4, <1>5, <1>6, <1>7 DEF Next, Settle, vars

LEMMA GateInit == Init => GateInv
  <1>. SUFFICES ASSUME Init PROVE GateInv
    OBVIOUS
  <1>1. \A p \in Runs : run[p].at = "idle"
    BY DEF Init
  <1>2. net.writer = Nobody /\ net.gateway = "none"
    BY DEF Init, Bare
  <1>. QED
    BY <1>1, <1>2, InitIsTyped, ConstantsAssumption
    DEF GateInv, GateHolds, IsWriting, LookedLast, PastGate

LEMMA GateAlways == Spec => []GateInv
  BY GateInit, GateStep, PTL DEF Spec

(* Whoever else creates VMs in the region, and whatever the owner of the   *)
(* subnet does to it: no private VM gets past the gate without egress.     *)
THEOREM NoVmWithoutEgress == Spec => []GateHolds
  <1>1. GateInv => GateHolds
    BY DEF GateInv
  <1>. QED  BY <1>1, GateAlways, PTL

(* The step of NeverRepoints. *)
Repoints(p) == net.writer = p /\ net.gateway = "foreign" /\ net'.gateway = "own"

(* azlin's gateway takes the place of the owner's only if that one came    *)
(* after the writing run's last look.                                      *)
THEOREM OwnersGatewayStays == Spec => NeverRepoints
  <1>1. GateInv => \A p \in Runs : Repoints(p) => run[p].since
    BY DEF GateInv, LookedLast, Repoints
  <1>. QED  BY <1>1, GateAlways, PTL DEF NeverRepoints, Repoints

-----------------------------------------------------------------------------
(* What success says. *)

EarnInv == TypeInv /\ Owned /\ Complete

Having == {"reach", "probe", "finish", "ok"}

(* In a step of its own a run keeps to its member, goes on to the next     *)
(* when it has made this one, or makes it. *)
Stays(p) == run'[p].member = run[p].member /\ (run'[p].at \in Having => run[p].at \in Having)
GoesOn(p) ==
    run[p].at \in Having /\ run'[p].member = run[p].member + 1 /\ run'[p].at = "home"
Makes(p) ==
    /\ run'[p].member = run[p].member /\ vm[Member(p)].state = "none"
    /\ vm' = [vm EXCEPT ![Member(p)] = Made(p, "up")]

LEMMA LoopSteps ==
    ASSUME TypeInv, NEW p \in Runs, Opening(p) \/ Gating(p) \/ Creating(p) \/ Kill(p)
    PROVE  Stays(p) \/ GoesOn(p) \/ Makes(p)
  <1>1. run \in [Runs -> Run] /\ run[p] \in Run
    BY DEF TypeInv, TypeOK
  <1>2. CASE Opening(p)
    BY <1>1, <1>2 DEF Opening, Start, FindBastion, EnsureVnet, EnsureHost, Run, Stays, Having
  <1>3. CASE Gating(p)
    BY <1>1, <1>3 DEF Gating, Detect, Prompt, Ensure, CreatePip, CreateNatGateway, Attach, Commit,
       CommitFails, Recheck, Looks, Run, Stays, Having
  <1>4. CASE CreateDisk(p)
    BY <1>1, <1>4 DEF CreateDisk, NextDisk, Run, Stays, Having
  <1>5. CASE CreateVm(p)
    BY <1>1, <1>5 DEF CreateVm, CanCreate, Run, Stays, Having, Makes
  <1>6. CASE CleanUp(p)
    <2>1. CASE Fails(p)
      BY <1>1, <2>1 DEF Run, Stays, Having
    <2>2. ASSUME NEW d, run' = [run EXCEPT ![p].disks = @ \ {d}] PROVE Stays(p)
      BY <1>1, <2>2 DEF Run, Stays
    <2>3. ASSUME NEW d, run' = [run EXCEPT ![p].disks = @ \ {d}, ![p].stray = @ \cup {d}]
          PROVE  Stays(p)
      BY <1>1, <2>3 DEF Run, Stays
    <2>. QED  BY <1>6, <2>1, <2>2, <2>3 DEF CleanUp
  <1>7. CASE Finish(p) \/ Kill(p)
    BY <1>1, <1>7 DEF Finish, Kill, Run, Stays, Having
  <1>8. CASE Reach(p) \/ Probe(p)
    <2>1. run[p].at \in Having
      BY <1>8 DEF Reach, Probe, Having
    <2>2. (\E D : NextMember(p, D)) \/ \E l \in {"probe", "ok", "failed"} : Goto(p, l)
      BY <1>8 DEF Reach, Probe, AfterProbe
    <2>3. ASSUME NEW D, NextMember(p, D) PROVE Stays(p) \/ GoesOn(p)
      BY <1>1, <2>1, <2>3 DEF NextMember, Stays, GoesOn, Run
    <2>4. ASSUME NEW l, Goto(p, l) PROVE Stays(p)
      BY <1>1, <2>1, <2>4 DEF Stays, Run
    <2>. QED  BY <2>2, <2>3, <2>4
  <1>. QED  BY <1>2, <1>3, <1>4, <1>5, <1>6, <1>7, <1>8 DEF Creating

(* What a run has made it had made before, or has made just now. *)
LEMMA MadeOfOne ==
    ASSUME TypeInv, NEW p \in Runs, Opening(p) \/ Gating(p) \/ Creating(p) \/ Kill(p)
    PROVE  \A n \in MadeBy(p)' : n \in MadeBy(p) \/ (n = Member(p) /\ Makes(p))
  <1>1. SUFFICES ASSUME NEW n \in MadeBy(p)', n \notin MadeBy(p)
                 PROVE  n = Member(p) /\ Makes(p)
    OBVIOUS
  <1>2. run'[p].order = run[p].order /\ run[p].member \in 1..MaxPool
    BY OthersStay, RunIsTyped DEF Run
  <1>3. n \in Names \X (1..MaxPool) /\ n[1] \in Names /\ n[2] \in 1..MaxPool /\ n = <<n[1], n[2]>>
        /\ MaxPool \in Nat
    BY ConstantsAssumption DEF MadeBy, VmName
  <1>4. /\ n[1] = run[p].order.name
        /\ \/ n[2] < run'[p].member
           \/ n[2] = run'[p].member /\ run'[p].at \in Having
    BY <1>1, <1>2 DEF MadeBy, Having
  <1>5. ~ n[2] < run[p].member /\ (n[2] = run[p].member => run[p].at \notin Having)
    BY <1>1, <1>3, <1>4 DEF MadeBy, Having, VmName
  <1>6. ~ Stays(p)
    BY <1>2, <1>3, <1>4, <1>5 DEF Stays
  <1>7. ~ GoesOn(p)
    BY <1>2, <1>3, <1>4, <1>5 DEF GoesOn, Having
  <1>8. Makes(p)
    BY <1>6, <1>7, LoopSteps
  <1>9. n[2] = run[p].member
    BY <1>2, <1>3, <1>4, <1>5, <1>8 DEF Makes
  <1>. QED  BY <1>3, <1>4, <1>8, <1>9 DEF Member

(* A VM that is there is changed only by the probe of its run. *)
LEMMA VmsStay ==
    ASSUME TypeInv, NEW p \in Runs, Opening(p) \/ Gating(p) \/ Creating(p) \/ Kill(p)
    PROVE  \A n \in VmName :
             \/ vm'[n] = vm[n] \/ vm[n].state = "none"
             \/ n = Member(p) /\ Probe(p) /\ vm'[n].state = vm[n].state
  <1>1. vm \in [VmName -> Vm]
    BY DEF TypeInv, TypeOK
  <1>2. CASE Probe(p)
    <2>1. Member(p) \in VmName
      BY MemberIsTyped DEF TypeInv
    <2>2. vm' = [vm EXCEPT ![Member(p)].blind = TRUE] \/ vm' = vm
      BY <1>2 DEF Probe
    <2>. QED  BY <1>1, <1>2, <2>1, <2>2 DEF Vm
  <1>3. CASE CreateVm(p)
    BY <1>1, <1>3 DEF CreateVm, CanCreate
  <1>4. CASE vm' = vm
    BY <1>4
  <1>. QED
    BY <1>2, <1>3, <1>4 DEF Opening, Gating, Creating, Start, FindBastion, EnsureVnet, EnsureHost, Detect,
       Prompt, Ensure, CreatePip, CreateNatGateway, Attach, Commit, CommitFails, Recheck,
       CreateDisk, CleanUp, Reach, Finish, Kill

(* Nothing degraded is forgotten, and what a probe finds blind is added. *)
LEMMA DegradedStay ==
    ASSUME TypeInv, NEW p \in Runs, Opening(p) \/ Gating(p) \/ Creating(p) \/ Kill(p)
    PROVE  /\ run[p].degraded \subseteq run'[p].degraded
           /\ Probe(p) /\ ~ UNCHANGED vm =>
                 \/ Member(p) \in run'[p].degraded
                 \/ run[p].order.repo = "invalid" \/ run'[p].at = "failed"
  <1>1. run \in [Runs -> Run] /\ run[p] \in Run
    BY DEF TypeInv, TypeOK
  <1>2. CASE Opening(p)
    BY <1>1, <1>2 DEF Opening, Start, FindBastion, EnsureVnet, EnsureHost, Run
  <1>3. CASE Gating(p)
    BY <1>1, <1>3 DEF Gating, Detect, Prompt, Ensure, CreatePip, CreateNatGateway, Attach, Commit,
       CommitFails, Recheck, Looks, Run
  <1>4. CASE CreateDisk(p)
    BY <1>1, <1>4 DEF CreateDisk, Run, Probe
  <1>5. CASE CreateVm(p)
    BY <1>1, <1>5 DEF CreateVm, Run, Probe
  <1>6. CASE CleanUp(p)
    <2>1. CASE Fails(p)
      BY <1>1, <2>1 DEF Run
    <2>2. ASSUME NEW d, run' = [run EXCEPT ![p].disks = @ \ {d}]
          PROVE  run'[p].degraded = run[p].degraded
      BY <1>1, <2>2 DEF Run
    <2>3. ASSUME NEW d, run' = [run EXCEPT ![p].disks = @ \ {d}, ![p].stray = @ \cup {d}]
          PROVE  run'[p].degraded = run[p].degraded
      BY <1>1, <2>3 DEF Run
    <2>4. run[p].degraded \subseteq run'[p].degraded
      BY <1>1, <1>6, <2>1, <2>2, <2>3 DEF CleanUp, Run
    <2>. QED  BY <1>6, <2>4 DEF CleanUp, Probe
  <1>7. CASE Finish(p) \/ Kill(p)
    BY <1>1, <1>7 DEF Finish, Kill, Run, Probe
  <1>8. ASSUME NEW D, NextMember(p, D) PROVE run'[p].degraded = D
    BY <1>1, <1>8 DEF NextMember, Run
  <1>9. ASSUME NEW l, Goto(p, l) PROVE run'[p].degraded = run[p].degraded /\ run'[p].at = l
    BY <1>1, <1>9 DEF Run
  <1>10. CASE Reach(p)
    BY <1>8, <1>9, <1>10 DEF Reach, Probe
  <1>11. CASE Probe(p)
    <2>1. PICK D \in {run[p].degraded, run[p].degraded \cup {Member(p)}} :
             AfterProbe(p, D) /\ (Member(p) \in D \/ UNCHANGED vm)
      BY <1>11 DEF Probe
    <2>2. CASE NextMember(p, D)
      BY <1>8, <2>1, <2>2
    <2>3. CASE run[p].order.repo = "invalid" /\ Goto(p, "ok")
      BY <1>9, <2>3
    <2>4. CASE Fails(p)
      BY <1>9, <2>4
    <2>. QED  BY <2>1, <2>2, <2>3, <2>4 DEF AfterProbe
  <1>. QED
    BY <1>2, <1>3, <1>4, <1>5, <1>6, <1>7, <1>10, <1>11 DEF Creating

(* What success asks of one run, and of two. *)
Keeps(p) ==
    \A n \in MadeBy(p) :
        /\ vm[n].state = "up"
        /\ vm[n].blind => n \in run[p].degraded \/ run[p].order.repo = "invalid"

Completes(p) ==
    /\ At(p, "finish") => Last(p)
    /\ Succeeds(p) => Last(p) /\ run[p].degraded = {}

LEMMA EarnIsOfEach ==
    EarnInv <=> /\ TypeInv
                /\ \A p \in Runs : Keeps(p) /\ Completes(p)
                /\ \A p, q \in Runs : p # q => MadeBy(p) \cap MadeBy(q) = {}
  <1>1. Complete <=> \A p \in Runs : Completes(p)
    BY DEF Complete, Completes
  <1>2. Owned <=> /\ \A p \in Runs : Keeps(p)
                  /\ \A p, q \in Runs : p # q => MadeBy(p) \cap MadeBy(q) = {}
    BY DEF Owned, Keeps
  <1>. QED  BY <1>1, <1>2 DEF EarnInv

LEMMA KeptByOne ==
    ASSUME EarnInv, NEW p \in Runs, Opening(p) \/ Gating(p) \/ Creating(p) \/ Kill(p)
    PROVE  Keeps(p)'
  <1>1. TypeInv /\ Keeps(p)
    BY EarnIsOfEach
  <1>2. SUFFICES ASSUME NEW n \in MadeBy(p)'
                 PROVE  /\ vm'[n].state = "up"
                        /\ vm'[n].blind =>
                              n \in run'[p].degraded \/ run'[p].order.repo = "invalid"
    BY DEF Keeps
  <1>3. n \in VmName /\ run'[p].order = run[p].order /\ run[p].degraded \subseteq run'[p].degraded
    BY <1>1, OthersStay, DegradedStay DEF MadeBy
  <1>4. CASE n = Member(p) /\ Makes(p)
    BY <1>1, <1>3, <1>4 DEF Makes, Made, TypeInv, TypeOK
  <1>5. CASE n \in MadeBy(p) /\ vm'[n] = vm[n]
    BY <1>1, <1>3, <1>5 DEF Keeps
  <1>6. CASE n \in MadeBy(p) /\ vm'[n] # vm[n]
    <2>1. vm[n].state = "up"
      BY <1>1, <1>6 DEF Keeps
    <2>2. n = Member(p) /\ Probe(p) /\ vm'[n].state = vm[n].state
      BY <1>1, <1>3, <1>6, <2>1, VmsStay
    <2>3. Member(p) \in run'[p].degraded \/ run[p].order.repo = "invalid" \/ run'[p].at = "failed"
      BY <1>1, <1>6, <2>2, DegradedStay
    <2>4. run'[p].at # "failed"
      <3>1. CASE run'[p].at = "failed"
        <4>1. run \in [Runs -> Run] /\ run[p] \in Run
          BY <1>1 DEF TypeInv, TypeOK
        <4>2. Fails(p)
          BY <2>2, <3>1, <4>1 DEF Probe, AfterProbe, NextMember, Run
        <4>3. run'[p].member = run[p].member /\ run[p].member \in Nat
          BY <4>1, <4>2 DEF Run
        <4>4. n[2] = run'[p].member
          BY <2>2, <4>3 DEF Member
        <4>. QED  BY <1>2, <3>1, <4>3, <4>4 DEF MadeBy
      <3>. QED  BY <3>1
    <2>. QED  BY <1>3, <2>1, <2>2, <2>3, <2>4
  <1>. QED  BY <1>1, <1>4, <1>5, <1>6, MadeOfOne

LEMMA CompletedByOne ==
    ASSUME EarnInv, NEW p \in Runs, Opening(p) \/ Gating(p) \/ Creating(p) \/ Kill(p)
    PROVE  Completes(p)'
  <1>1. Completes(p) /\ run \in [Runs -> Run] /\ run[p] \in Run
    BY EarnIsOfEach DEF TypeInv, TypeOK
  <1>2. CASE run' = run
    BY <1>1, <1>2 DEF Completes, Succeeds, Last
  <1>3. ASSUME NEW D, NextMember(p, D) PROVE Completes(p)'
    BY <1>1, <1>3 DEF NextMember, Completes, Succeeds, Last, Run
  <1>4. ASSUME NEW l, Goto(p, l), l \notin {"finish", "ok"} PROVE Completes(p)'
    BY <1>1, <1>4 DEF Completes, Succeeds, Last, Run
  <1>5. CASE Finish(p)
    BY <1>1, <1>5 DEF Finish, Completes, Succeeds, Last, Run
  <1>6. CASE Probe(p)
    <2>1. PICK D : AfterProbe(p, D)
      BY <1>6 DEF Probe
    <2>2. CASE run[p].order.repo = "invalid" /\ Goto(p, "ok")
      BY <1>1, <2>2 DEF Completes, Succeeds, Run
    <2>. QED  BY <1>3, <1>4, <2>1, <2>2 DEF AfterProbe
  <1>7. CASE Reach(p)
    BY <1>3, <1>4, <1>7 DEF Reach
  <1>8. run'[p].at \notin {"finish", "ok"} => Completes(p)'
    BY DEF Completes, Succeeds
  <1>9. CASE Opening(p) \/ Kill(p)
    BY <1>1, <1>8, <1>9 DEF Opening, Start, FindBastion, EnsureVnet, EnsureHost, Kill, Run
  <1>10. CASE Gating(p)
    BY <1>1, <1>2, <1>8, <1>10 DEF Gating, Detect, Prompt, Ensure, CreatePip, CreateNatGateway, Attach,
       Commit, CommitFails, Recheck, Looks, Run
  <1>11. CASE CreateDisk(p)
    BY <1>1, <1>8, <1>11 DEF CreateDisk, NextDisk, Run
  <1>12. CASE CreateVm(p)
    BY <1>1, <1>4, <1>12 DEF CreateVm
  <1>13. CASE CleanUp(p)
    <2>1. CASE Fails(p)
      BY <1>1, <2>1 DEF Completes, Succeeds, Run
    <2>2. ASSUME NEW d, run' = [run EXCEPT ![p].disks = @ \ {d}] PROVE run'[p].at = run[p].at
      BY <1>1, <2>2 DEF Run
    <2>3. ASSUME NEW d, run' = [run EXCEPT ![p].disks = @ \ {d}, ![p].stray = @ \cup {d}]
          PROVE  run'[p].at = run[p].at
      BY <1>1, <2>3 DEF Run
    <2>4. Fails(p) \/ run'[p].at = "cleanup"
      BY <1>13, <2>2, <2>3 DEF CleanUp
    <2>. QED  BY <1>8, <2>1, <2>4
  <1>. QED
    BY <1>5, <1>6, <1>7, <1>9, <1>10, <1>11, <1>12, <1>13 DEF Creating

(* A run leaves alone what the others have made. *)
LEMMA KeptByOthers ==
    ASSUME EarnInv, NEW p \in Runs, Opening(p) \/ Gating(p) \/ Creating(p) \/ Kill(p),
           NEW q \in Runs \ {p}
    PROVE  Keeps(q)' /\ Completes(q)' /\ MadeBy(p)' \cap MadeBy(q)' = {}
  <1>1. /\ TypeInv /\ Keeps(q) /\ Completes(q) /\ run'[q] = run[q]
        /\ MadeBy(p) \cap MadeBy(q) = {}
    BY EarnIsOfEach, OthersStay
  <1>2. MadeBy(q)' = MadeBy(q)
    BY <1>1 DEF MadeBy
  <1>3. \A n \in MadeBy(q) : n \in VmName /\ vm[n].state = "up"
    BY <1>1 DEF Keeps, MadeBy
  <1>4. Probe(p) => Member(p) \in MadeBy(p)
    <2>1. Member(p) \in VmName /\ run[p].at = "probe" => Member(p) \in MadeBy(p)
      BY DEF MadeBy, Member
    <2>. QED  BY <1>1, <2>1, MemberIsTyped DEF Probe, TypeInv
  <1>5. \A n \in MadeBy(q) : vm'[n] = vm[n]
    BY <1>1, <1>3, <1>4, VmsStay
  <1>6. Keeps(q)'
    BY <1>1, <1>2, <1>5 DEF Keeps
  <1>7. Completes(q)'
    BY <1>1 DEF Completes, Succeeds, Last
  <1>8. MadeBy(p)' \cap MadeBy(q)' = {}
    BY <1>1, <1>2, <1>3, MadeOfOne DEF Makes
  <1>. QED  BY <1>6, <1>7, <1>8

LEMMA EarnStep == EarnInv /\ [Next]_vars => EarnInv'
  <1>. SUFFICES ASSUME EarnInv, [Next]_vars PROVE EarnInv'
    OBVIOUS
  <1>1. TypeInv /\ TypeInv' /\ run \in [Runs -> Run] /\ vm \in [VmName -> Vm]
    BY TypeInvStep DEF EarnInv, TypeInv, TypeOK
  <1>2. /\ \A p \in Runs : Keeps(p) /\ Completes(p)
        /\ \A p, q \in Runs : p # q => MadeBy(p) \cap MadeBy(q) = {}
    BY EarnIsOfEach
  <1>3. SUFFICES /\ \A p \in Runs : Keeps(p)' /\ Completes(p)'
                 /\ \A p, q \in Runs : p # q => MadeBy(p)' \cap MadeBy(q)' = {}
    BY <1>1, EarnIsOfEach DEF EarnInv, Owned, Complete, Keeps, Completes
  <1>4. ASSUME NEW p \in Runs, Opening(p) \/ Gating(p) \/ Creating(p) \/ Kill(p)
        PROVE  /\ \A q \in Runs : Keeps(q)' /\ Completes(q)'
               /\ \A q, r \in Runs : q # r => MadeBy(q)' \cap MadeBy(r)' = {}
    <2>1. Keeps(p)' /\ Completes(p)'
      BY <1>4, KeptByOne, CompletedByOne
    <2>2. \A q \in Runs \ {p} : Keeps(q)' /\ Completes(q)' /\ MadeBy(p)' \cap MadeBy(q)' = {}
      BY <1>4, KeptByOthers
    <2>3. \A q \in Runs \ {p} : MadeBy(q)' = MadeBy(q)
      BY <1>1, <1>4, OthersStay DEF MadeBy
    <2>4. ASSUME NEW q \in Runs, NEW r \in Runs, q # r PROVE MadeBy(q)' \cap MadeBy(r)' = {}
      BY <1>2, <2>2, <2>3, <2>4
    <2>. QED  BY <2>1, <2>2, <2>4
  <1>5. ASSUME \A q \in Runs : /\ run'[q].at = run[q].at /\ run'[q].order = run[q].order
                               /\ run'[q].member = run[q].member
                               /\ run'[q].degraded = run[q].degraded,
               \A n \in VmName : vm'[n] = vm[n] \/ vm[n].state = "pending"
        PROVE  /\ \A q \in Runs : Keeps(q)' /\ Completes(q)'
               /\ \A q, r \in Runs : q # r => MadeBy(q)' \cap MadeBy(r)' = {}
    <2>1. \A q \in Runs : MadeBy(q)' = MadeBy(q) /\ Completes(q)'
      BY <1>2, <1>5 DEF MadeBy, Completes, Succeeds, Last
    <2>2. \A q \in Runs : \A n \in MadeBy(q) : n \in VmName /\ vm[n].state = "up"
      BY <1>2 DEF Keeps, MadeBy
    <2>3. \A q \in Runs : Keeps(q)'
      BY <1>2, <1>5, <2>1, <2>2 DEF Keeps
    <2>. QED  BY <1>2, <2>1, <2>3
  <1>6. CASE UNCHANGED vars
    BY <1>5, <1>6 DEF vars
  <1>7. ASSUME NEW n \in VmName, Settle(n)
        PROVE  UNCHANGED run /\ \A m \in VmName : vm'[m] = vm[m] \/ vm[m].state = "pending"
    BY <1>1, <1>7 DEF Settle
  <1>8. CASE OwnerAttaches \/ OwnerDetaches
    BY <1>1, <1>5, <1>8 DEF OwnerAttaches, OwnerDetaches, Run
  <1>. QED  BY <1>4, <1>5, <1>6, <1>7, <1>8 DEF Next

LEMMA EarnInit == Init => EarnInv
  <1>. SUFFICES ASSUME Init PROVE EarnInv
    OBVIOUS
  <1>1. \A p \in Runs : run[p].at = "idle" /\ run[p].member = 1
    BY DEF Init
  <1>2. \A p \in Runs : MadeBy(p) = {}
    BY <1>1 DEF MadeBy, VmName
  <1>. QED  BY <1>1, <1>2, InitIsTyped DEF EarnInv, Owned, Complete, Succeeds

(* Exit code 0 is earned: of a pool of any size, whoever else creates VMs  *)
(* of the same names, every VM was made, and none is known to be blind.    *)
THEOREM SuccessIsTrue == Spec => []SuccessIsEarned
  <1>1. EarnInv => SuccessIsEarned
    <2>. SUFFICES ASSUME EarnInv, NEW p \in Runs, Succeeds(p), NEW i \in 1..run[p].order.count
                  PROVE  LET n == <<run[p].order.name, i>>
                         IN  vm[n].state = "up" /\ ~ vm[n].blind
      BY DEF SuccessIsEarned, SuccessMeansAll, SuccessMeansEgress
    <2>1. Keeps(p) /\ Completes(p) /\ TypeInv
      BY EarnIsOfEach
    <2>2. run[p].member = run[p].order.count /\ run[p].degraded = {} /\ run[p].order.repo # "invalid"
      BY <2>1 DEF Completes, Succeeds, Last
    <2>3. run[p].order.name \in Names /\ run[p].order.count \in 1..MaxPool /\ MaxPool \in Nat
      BY <2>1, RunIsTyped, OrderIsTyped, ConstantsAssumption DEF Run
    <2>4. i \in 1..MaxPool /\ (i < run[p].member \/ i = run[p].member)
      BY <2>2, <2>3
    <2>5. <<run[p].order.name, i>> \in MadeBy(p)
      BY <2>3, <2>4 DEF MadeBy, VmName, Succeeds
    <2>. QED  BY <2>1, <2>2, <2>5 DEF Keeps
  <1>. QED  BY <1>1, EarnInit, EarnStep, PTL DEF Spec

-----------------------------------------------------------------------------
(* What failure leaves behind. *)

KnownInv == TypeInv /\ Known

Holding == {"home", "tmp", "create", "cleanup"}

(* The disk d, free and of the i-th member, is one that run p knows of.    *)
KnowsOf(p, d, i) ==
    /\ i = run[p].member
    /\ d \in run[p].stray \/ (d \in run[p].disks /\ run[p].at \in Holding)

DiskOf(p, i, role) == <<<<run[p].order.name, i>>, role>>

KnownTo(p) ==
    Alone(p) /\ ~ At(p, "killed") =>
        \A i \in 1..MaxPool, role \in {"home", "tmp"} :
            disk[DiskOf(p, i, role)] = "free" /\ i >= run[p].member
                => KnowsOf(p, DiskOf(p, i, role), i)

LEMMA KnownIsOfEach == Known <=> \A p \in Runs : KnownTo(p)
  BY DEF Known, KnownTo, KnowsOf, DiskOf, Holding

LEMMA DisksAreTyped ==
    ASSUME TypeInv, NEW p \in Runs, NEW i \in 1..MaxPool, NEW role \in {"home", "tmp"}
    PROVE  DiskOf(p, i, role) \in Disk
  <1>1. run[p].order.name \in Names
    BY RunIsTyped, OrderIsTyped DEF Run
  <1>. QED  BY <1>1 DEF DiskOf, Disk, VmName

(* Only create_managed_disk makes a disk free, and only one of its member. *)
LEMMA FreedByOne ==
    ASSUME TypeInv, NEW p \in Runs, Opening(p) \/ Gating(p) \/ Creating(p) \/ Kill(p)
    PROVE  \A d \in Disk : disk'[d] = "free" =>
              disk[d] = "free" \/ (CreateDisk(p) /\ d[1] = Member(p))
  <1>1. disk \in Disks
    BY DEF TypeInv, TypeOK, Disks
  <1>2. CASE CreateDisk(p)
    BY <1>1, <1>2 DEF CreateDisk, Disks
  <1>3. CASE CreateVm(p)
    BY <1>1, <1>3 DEF CreateVm, Attached, Disks
  <1>4. CASE CleanUp(p)
    BY <1>1, <1>4 DEF CleanUp, Disks
  <1>5. CASE disk' = disk
    BY <1>5
  <1>. QED
    BY <1>2, <1>3, <1>4, <1>5 DEF Opening, Gating, Creating, Start, FindBastion, EnsureVnet, EnsureHost,
       Detect, Prompt, Ensure, CreatePip, CreateNatGateway, Attach, Commit, CommitFails, Recheck,
       Reach, Probe, Finish, Kill

LEMMA KnownByOne ==
    ASSUME KnownInv, NEW p \in Runs, Opening(p) \/ Gating(p) \/ Creating(p) \/ Kill(p)
    PROVE  KnownTo(p)'
  <1>1. /\ TypeInv /\ KnownTo(p) /\ run \in [Runs -> Run] /\ run[p] \in Run
        /\ run[p].member \in 1..MaxPool /\ run[p].member \in Nat /\ MaxPool \in Nat
        /\ disk \in Disks
    BY KnownIsOfEach, ConstantsAssumption DEF KnownInv, TypeInv, TypeOK, Run, Disks
  <1>2. run'[p].order = run[p].order /\ \A q \in Runs \ {p} : run'[q] = run[q]
    BY <1>1, OthersStay
  <1>3. Alone(p)' => Alone(p)
    BY <1>2 DEF Alone
  <1>4. run[p].at # "killed" \/ UNCHANGED <<run, disk>>
    BY DEF Opening, Gating, Creating, Kill, Start, FindBastion, EnsureVnet, EnsureHost,
       Detect, Prompt, Ensure, CreatePip, CreateNatGateway, Attach, Commit, CommitFails, Recheck,
       CreateDisk, CreateVm, CleanUp, Reach, Probe, Finish, Running, Network, Gate, PastGate
  <1>5. CASE UNCHANGED <<run, disk>>
    BY <1>1, <1>5 DEF KnownTo, KnowsOf, DiskOf, Alone
  <1>. SUFFICES ASSUME Alone(p), run[p].at # "killed", run'[p].at # "killed",
                       NEW i \in 1..MaxPool, NEW role \in {"home", "tmp"},
                       disk'[DiskOf(p, i, role)] = "free", i >= run'[p].member
                PROVE  KnowsOf(p, DiskOf(p, i, role), i)'
    BY <1>2, <1>3, <1>4, <1>5 DEF KnownTo, DiskOf
  <1>. DEFINE d == DiskOf(p, i, role)
  <1>6. d \in Disk /\ d[1] = <<run[p].order.name, i>> /\ d[2] = role /\ DiskOf(p, i, role)' = d
        /\ disk'[d] = "free"
    BY <1>1, <1>2, DisksAreTyped DEF DiskOf
  <1>7. disk[d] = "free" \/ (CreateDisk(p) /\ d[1] = Member(p))
    BY <1>1, <1>6, FreedByOne
  <1>8. i = run[p].member \/ ~ (disk[d] = "free" /\ i >= run[p].member)
    BY <1>1 DEF KnownTo, KnowsOf
  <1>9. disk[d] = "free" /\ i >= run[p].member => KnowsOf(p, d, i)
    BY <1>1 DEF KnownTo
  <1>. HIDE DEF d
  <1>10. SUFFICES /\ i = run'[p].member
                  /\ d \in run'[p].stray \/ (d \in run'[p].disks /\ run'[p].at \in Holding)
    BY <1>6 DEF KnowsOf
  (* Where the run does not touch its disks, what it knew it knows.        *)
  <1>11. ASSUME run[p].at \notin Holding, run'[p].member = run[p].member,
                run'[p].stray = run[p].stray, ~ CreateDisk(p)
         PROVE  d \in run'[p].stray /\ i = run'[p].member
    BY <1>7, <1>9, <1>11 DEF KnowsOf
  <1>12. CASE Opening(p)
    BY <1>1, <1>11, <1>12 DEF Opening, Start, FindBastion, EnsureVnet, EnsureHost, Holding, CreateDisk, Run
  <1>13. CASE Commit(p) \/ CommitFails(p)
    <2>1. UNCHANGED disk /\ (UNCHANGED run \/ run[p].at = "attaching")
      BY <1>13 DEF Commit, CommitFails
    <2>2. CASE run[p].at = "attaching"
      BY <1>1, <1>11, <1>13, <2>2 DEF Commit, CommitFails, Holding, CreateDisk, Run
    <2>3. CASE UNCHANGED <<run, disk>>
      BY <1>6, <1>9, <2>3 DEF KnowsOf
    <2>. QED  BY <2>1, <2>2, <2>3
  <1>14. CASE Gating(p) /\ ~ Commit(p) /\ ~ CommitFails(p)
    BY <1>1, <1>11, <1>14 DEF Gating, Detect, Prompt, Ensure, CreatePip, CreateNatGateway, Attach,
       Recheck, Looks, Holding, CreateDisk, Run
  <1>15. CASE Finish(p)
    BY <1>1, <1>11, <1>15 DEF Finish, Holding, CreateDisk, Run
  <1>16. ASSUME NEW D, NextMember(p, D), run[p].at \notin Holding, ~ CreateDisk(p)
         PROVE  d \in run'[p].stray /\ i = run'[p].member
    <2>1. /\ run'[p].stray = run[p].stray
          /\ run'[p].member \in {run[p].member, run[p].member + 1}
      BY <1>1, <1>16 DEF NextMember, Run
    <2>2. i >= run[p].member
      BY <1>1, <2>1
    <2>3. i = run[p].member /\ d \in run[p].stray
      BY <1>7, <1>9, <1>16, <2>2 DEF KnowsOf
    <2>. QED  BY <1>1, <2>1, <2>3
  <1>17. CASE Reach(p) \/ Probe(p)
    <2>1. run[p].at \notin Holding /\ ~ CreateDisk(p)
      BY <1>17 DEF Reach, Probe, Holding, CreateDisk
    <2>2. (\E D : NextMember(p, D)) \/ \E l : Goto(p, l)
      BY <1>17 DEF Reach, Probe, AfterProbe
    <2>3. ASSUME NEW l, Goto(p, l) PROVE d \in run'[p].stray /\ i = run'[p].member
      BY <1>1, <1>11, <2>1, <2>3 DEF Run
    <2>. QED  BY <1>16, <2>1, <2>2, <2>3
  <1>18. CASE CreateVm(p)
    <2>1. run'[p].member = run[p].member /\ run'[p].disks = run[p].disks
          /\ run'[p].stray = run[p].stray
      BY <1>1, <1>18 DEF CreateVm, Run
    <2>2. ~ CreateDisk(p)
      BY <1>18 DEF CreateVm, CreateDisk
    <2>3. KnowsOf(p, d, i)
      BY <1>7, <1>9, <2>1, <2>2
    <2>4. run'[p].at = "cleanup" \/ d \notin run[p].disks
      BY <1>1, <1>6, <1>18 DEF CreateVm, Attached, Run
    <2>. QED  BY <2>1, <2>3, <2>4 DEF KnowsOf, Holding
  <1>19. CASE CleanUp(p)
    <2>1. run[p].at = "cleanup" /\ ~ CreateDisk(p)
      BY <1>19 DEF CleanUp, CreateDisk
    <2>2. CASE run[p].disks = {} /\ Fails(p)
      <3>1. run'[p].member = run[p].member /\ run'[p].stray = run[p].stray
        BY <1>1, <2>2 DEF Run
      <3>. QED  BY <1>7, <1>9, <2>1, <2>2, <3>1 DEF KnowsOf
    <2>3. ASSUME NEW e \in run[p].disks, disk' = [disk EXCEPT ![e] = "none"],
                 run' = [run EXCEPT ![p].disks = @ \ {e}]
          PROVE  i = run'[p].member /\ (d \in run'[p].stray \/ (d \in run'[p].disks /\ run'[p].at \in Holding))
      <3>1. /\ run'[p].member = run[p].member /\ run'[p].stray = run[p].stray
            /\ run'[p].at = run[p].at /\ run'[p].disks = run[p].disks \ {e}
        BY <1>1, <2>3 DEF Run
      <3>2. d # e
        BY <1>1, <1>6, <2>3 DEF Disks
      <3>. QED  BY <1>7, <1>9, <2>1, <3>1, <3>2 DEF KnowsOf
    <2>4. ASSUME NEW e \in run[p].disks,
                 run' = [run EXCEPT ![p].disks = @ \ {e}, ![p].stray = @ \cup {e}]
          PROVE  i = run'[p].member /\ (d \in run'[p].stray \/ (d \in run'[p].disks /\ run'[p].at \in Holding))
      <3>1. /\ run'[p].member = run[p].member /\ run'[p].stray = run[p].stray \cup {e}
            /\ run'[p].at = run[p].at /\ run'[p].disks = run[p].disks \ {e}
        BY <1>1, <2>4 DEF Run
      <3>. QED  BY <1>7, <1>9, <2>1, <3>1 DEF KnowsOf
    <2>. QED  BY <1>19, <2>2, <2>3, <2>4 DEF CleanUp
  <1>20. CASE CreateDisk(p)
    <2>1. run'[p].member = run[p].member
      BY <1>1, <1>20 DEF CreateDisk, Run
    <2>2. CASE disk[d] = "free"
      <3>1. KnowsOf(p, d, i) /\ run[p].at \in Holding
        BY <1>9, <1>20, <2>1, <2>2 DEF CreateDisk, Holding
      <3>2. /\ run[p].stray \subseteq run'[p].stray /\ run[p].disks \subseteq run'[p].disks
            /\ run'[p].at \in Holding
        BY <1>1, <1>20 DEF CreateDisk, NextDisk, Holding, Run
      <3>. QED  BY <2>1, <3>1, <3>2 DEF KnowsOf
    <2>3. CASE disk[d] # "free"
      <3>1. PICK kind \in {"home", "tmp"} :
               LET e == <<Member(p), kind>>
                   remade == IF disk[e] = "none" THEN [disk EXCEPT ![e] = "free"] ELSE disk
               IN  \/ disk' = remade /\ run' = [run EXCEPT ![p].at = NextDisk(p), ![p].disks = @ \cup {e}]
                   \/ disk' = disk
                   \/ disk' = remade /\ run' = [run EXCEPT ![p].at = "cleanup", ![p].stray = @ \cup {e}]
        BY <1>20 DEF CreateDisk
      <3>. DEFINE e == <<Member(p), kind>>
      <3>2. d = e
        BY <1>1, <1>6, <2>3, <3>1 DEF Disks
      <3>3. disk' # disk
        BY <1>6, <2>3
      <3>4. d \in run'[p].stray \/ (d \in run'[p].disks /\ run'[p].at \in Holding)
        BY <1>1, <3>1, <3>2, <3>3 DEF NextDisk, Holding, Run
      <3>5. i = run[p].member
        BY <1>6, <1>7, <2>3 DEF Member
      <3>. QED  BY <2>1, <3>4, <3>5
    <2>. QED  BY <2>2, <2>3
  <1>21. ~ Kill(p)
    BY <1>1 DEF Kill, Run
  <1>. QED
    BY <1>12, <1>13, <1>14, <1>15, <1>17, <1>18, <1>19, <1>20, <1>21 DEF Creating

LEMMA KnownStep == KnownInv /\ [Next]_vars => KnownInv'
  <1>. SUFFICES ASSUME KnownInv, [Next]_vars PROVE KnownInv'
    OBVIOUS
  <1>1. /\ TypeInv /\ TypeInv' /\ run \in [Runs -> Run] /\ disk \in Disks
        /\ \A p \in Runs : KnownTo(p)
    BY TypeInvStep, KnownIsOfEach DEF KnownInv, TypeInv, TypeOK, Disks
  <1>2. SUFFICES ASSUME NEW q \in Runs PROVE KnownTo(q)'
    BY <1>1, KnownIsOfEach DEF KnownInv, Known, KnownTo, KnowsOf, DiskOf, Holding
  <1>3. ASSUME run'[q].at = run[q].at, run'[q].disks = run[q].disks, run'[q].stray = run[q].stray,
               run'[q].member = run[q].member,
               \A r \in Runs : run'[r].order = run[r].order,
               \A i \in 1..MaxPool, role \in {"home", "tmp"} : Alone(q) =>
                  (disk'[DiskOf(q, i, role)] = "free" => disk[DiskOf(q, i, role)] = "free")
        PROVE  KnownTo(q)'
    <2>1. Alone(q)' <=> Alone(q)
      BY <1>3 DEF Alone
    <2>2. \A i, role : DiskOf(q, i, role)' = DiskOf(q, i, role)
      BY <1>3 DEF DiskOf
    <2>. QED  BY <1>1, <1>3, <2>1, <2>2 DEF KnownTo, KnowsOf
  <1>4. ASSUME NEW p \in Runs, Opening(p) \/ Gating(p) \/ Creating(p) \/ Kill(p)
        PROVE  KnownTo(q)'
    <2>1. CASE p = q
      BY <1>4, <2>1, KnownByOne
    <2>2. CASE p # q
      <3>1. run'[q] = run[q] /\ \A r \in Runs : run'[r].order = run[r].order
        BY <1>1, <1>4, <2>2, OthersStay
      <3>2. ASSUME NEW i \in 1..MaxPool, NEW role \in {"home", "tmp"}, Alone(q),
                   disk'[DiskOf(q, i, role)] = "free"
            PROVE  disk[DiskOf(q, i, role)] = "free"
        <4>1. DiskOf(q, i, role) \in Disk /\ DiskOf(q, i, role)[1] # Member(p)
          BY <1>1, <2>2, <3>2, DisksAreTyped DEF DiskOf, Member, Alone
        <4>. QED  BY <1>1, <1>4, <3>2, <4>1, FreedByOne
      <3>. QED  BY <1>3, <3>1, <3>2
    <2>. QED  BY <2>1, <2>2
  <1>5. CASE UNCHANGED vars
    BY <1>3, <1>5 DEF vars
  <1>6. ASSUME NEW n \in VmName, Settle(n) PROVE KnownTo(q)'
    <2>1. UNCHANGED run
      BY <1>6 DEF Settle
    <2>2. \A e \in Disk : disk'[e] = "free" => disk[e] = "free"
      BY <1>1, <1>6 DEF Settle, Attached, Disks
    <2>. QED  BY <1>1, <1>3, <2>1, <2>2, DisksAreTyped
  <1>7. CASE OwnerAttaches \/ OwnerDetaches
    BY <1>1, <1>3, <1>7 DEF OwnerAttaches, OwnerDetaches, Run
  <1>. QED  BY <1>4, <1>5, <1>6, <1>7 DEF Next

LEMMA KnownInit == Init => KnownInv
  <1>. SUFFICES ASSUME Init PROVE KnownInv
    OBVIOUS
  <1>1. TypeInv
    BY InitIsTyped
  <1>2. \A d \in Disk : disk[d] # "free"
    BY DEF Init
  <1>. QED  BY <1>1, <1>2, KnownIsOfEach, DisksAreTyped DEF KnownInv, KnownTo

(* A failed run leaves no free disk of its last member behind but those it *)
(* never heard of or could not delete.                                     *)
THEOREM FailureIsTidy == Spec => []FailureLeavesNoDisk
  <1>1. KnownInv => FailureLeavesNoDisk
    <2>. SUFFICES ASSUME KnownInv, NEW p \in Runs, At(p, "failed"), Alone(p),
                         NEW role \in {"home", "tmp"}, disk[<<Member(p), role>>] = "free"
                  PROVE  <<Member(p), role>> \in run[p].stray
      BY DEF FailureLeavesNoDisk, Alone
    <2>1. KnownTo(p) /\ run[p].member \in 1..MaxPool /\ run[p].member >= run[p].member
      BY KnownIsOfEach, RunIsTyped DEF KnownInv, Run
    <2>2. <<Member(p), role>> = DiskOf(p, run[p].member, role)
      BY DEF DiskOf, Member
    <2>3. KnowsOf(p, DiskOf(p, run[p].member, role), run[p].member)
      BY <2>1, <2>2 DEF KnownTo
    <2>. QED  BY <2>2, <2>3 DEF KnowsOf, Holding
  <1>. QED  BY <1>1, KnownInit, KnownStep, PTL DEF Spec

-----------------------------------------------------------------------------
(***************************************************************************)
(* The commands (Commands), of which `azlin new` is one: a VM that VmNew   *)
(* makes is one step of its script.  Of the scripts these proofs use       *)
(* nothing but that each keeps the rules of ScriptRules, which is one      *)
(* evaluation (MCVmNew).  What a step may do is read off the place where   *)
(* it stands: who comes to a place has come through all that guards it.    *)
(***************************************************************************)
C == INSTANCE Commands

(* What a command need not tell of, and what is owed all the same and was  *)
(* not told by this run.                                                   *)
Silent == C!Untold(cmd, flags)
Hidden == {c \in owed \ failed : c[1] \notin Silent}

(* What was typed, and the values of what counts.                          *)
CmdTypeOK ==
    /\ cmd \in DOMAIN C!G!Flags /\ flags \in SUBSET C!G!Flags[cmd]
    /\ at \in Nat /\ at > 0
    /\ again \in BOOLEAN
    /\ end \in {"runs", "ok", "error", "declined", "killed"}

(* A command that is past a prompt has a yes, and one inside a part that   *)
(* was offered has a yes to it; it is never behind a step that ends it.    *)
PlaceInv ==
    end = "runs" =>
        /\ ~ C!Dead(C!Todo, at)
        /\ \A p \in DOMAIN C!Todo : C!Guards(C!Todo, p, at) =>
              /\ C!Todo[p].do = "ask" => "all" \in agreed
              /\ C!Todo[p].do = "offer" /\ at \in C!Block(C!Todo, p) => C!Todo[p].what \in agreed

(* NothingUnasked, thing by thing.                                         *)
AskInv ==
    \A x \in changed :
          /\ C!Concerns(cmd, x) =>
               flags \cap {"yes", "force"} # {} \/ "all" \in agreed \/ x \in agreed
          /\ "dry_run" \in flags => x \in C!Prepared

(* What a test found is there until a step takes it away, what it missed   *)
(* is not until a step makes it, and what was surely made is there.        *)
ThereInv ==
    end = "runs" => \A x :
        /\ C!Found(C!Todo, x, at) => x \in made
        /\ C!Missed(C!Todo, x, at) => x \notin made
        /\ C!Secured(C!Todo, x, at) => x \in made /\ x \notin gone

-----------------------------------------------------------------------------
(* A script is a sequence of steps, each with the number it may pass over. *)
LEMMA ScriptTyped ==
    ASSUME NEW s, C!IsScript(s)
    PROVE  /\ Len(s) \in Nat /\ DOMAIN s = 1..Len(s)
           /\ \A i \in DOMAIN s : s[i].leap \in Nat
  <1> DEFINE R == [do : STRING, what : STRING, nth : Nat, into : STRING, miss : SUBSET STRING,
                   leap : Nat]
  <1>1. s \in Seq(R)
    BY DEF C!IsScript
  <1>2. \A r \in R : r.leap \in Nat
    OBVIOUS
  <1> HIDE DEF R
  <1>3. Len(s) \in Nat /\ DOMAIN s = 1..Len(s) /\ \A i \in DOMAIN s : s[i] \in R
    BY <1>1
  <1>4. QED
    BY <1>2, <1>3

(* Who comes to b from a has come through all that guards b, of which each *)
(* is a, or guards a.                                                      *)
LEMMA Through ==
    ASSUME NEW s, C!IsScript(s), NEW a \in DOMAIN s, NEW b \in {a + 1, a + s[a].leap + 1},
           NEW p \in DOMAIN s, C!Guards(s, p, b)
    PROVE  /\ b \in Nat /\ a < b /\ p < b
           /\ p = a \/ (p < a /\ C!Guards(s, p, a))
  <1>1. Len(s) \in Nat /\ DOMAIN s = 1..Len(s) /\ \A i \in DOMAIN s : s[i].leap \in Nat
    BY ScriptTyped
  <1>0. a \in Nat /\ a > 0 /\ p \in Nat /\ p > 0 /\ s[a].leap \in Nat
    BY <1>1
  <1>6. p < b
    BY DEF C!Guards
  <1>2. b \in Nat /\ a < b /\ p < b /\ (b - 1 = a \/ b - 1 = a + s[a].leap)
    BY <1>0, <1>6
  <1>3. CASE p < a
    <2>1. p..(a - 1) \subseteq p..(b - 1)
      BY <1>1, <1>2
    <2>2. QED
      BY <1>1, <1>2, <1>3, <2>1 DEF C!Guards
  <1>4. CASE a < p
    <2>1. a \in 1..(p - 1) /\ a + s[a].leap \notin p..(b - 1)
      BY <1>1, <1>4 DEF C!Guards
    <2>2. QED
      BY <1>1, <1>2, <1>4, <2>1 DEF C!Guards
  <1>5. QED
    BY <1>1, <1>2, <1>3, <1>4 DEF C!Guards

(* Behind a step that ends the command there is no way on.                 *)
LEMMA DeadBefore ==
    ASSUME NEW s, C!IsScript(s), NEW a \in DOMAIN s, NEW b \in {a + 1, a + s[a].leap + 1},
           C!Dead(s, b)
    PROVE  C!Ends(s, a) \/ C!Dead(s, a)
  BY Through DEF C!Dead

(* What was found on the way to b was found on the way to a, or by a.      *)
LEMMA FoundBefore ==
    ASSUME NEW s, C!IsScript(s), NEW a \in DOMAIN s, NEW b \in {a + 1, a + s[a].leap + 1},
           NEW x, C!Found(s, x, b)
    PROVE  \/ C!Found(s, x, a) /\ a \notin C!Loses(s, x)
           \/ s[a].do = "there" /\ s[a].what = x /\ b \in C!Block(s, a)
  <1>1. PICK p \in DOMAIN s : /\ s[p].do = "there" /\ C!Tested(s, p, x, b) /\ b \in C!Block(s, p)
                              /\ C!Loses(s, x) \cap (p + 1)..(b - 1) = {}
    BY DEF C!Found
  <1>2. Len(s) \in Nat /\ DOMAIN s = 1..Len(s) /\ \A i \in DOMAIN s : s[i].leap \in Nat
    BY ScriptTyped
  <1>7. C!Guards(s, p, b)
    BY <1>1 DEF C!Tested
  <1>3. /\ b \in Nat /\ a < b /\ p < b
        /\ p = a \/ (p < a /\ C!Guards(s, p, a))
    BY <1>7, Through
  <1>4. CASE p < a /\ C!Guards(s, p, a)
    <2>1. a \in (p + 1)..(b - 1) /\ (p + 1)..(a - 1) \subseteq (p + 1)..(b - 1) /\ a \in C!Block(s, p)
      BY <1>1, <1>2, <1>3, <1>4 DEF C!Block
    <2>2. QED
      BY <1>1, <1>4, <2>1 DEF C!Found, C!Tested
  <1>5. QED
    BY <1>1, <1>3, <1>4 DEF C!Tested

(* What was missed on the way to b was missed on the way to a, or by a.    *)
LEMMA MissedBefore ==
    ASSUME NEW s, C!IsScript(s), NEW a \in DOMAIN s, NEW b \in {a + 1, a + s[a].leap + 1},
           NEW x, C!Missed(s, x, b), ~ C!Ends(s, a)
    PROVE  \/ C!Missed(s, x, a) /\ a \notin C!Brings(s, x)
           \/ s[a].do = "lacks" /\ s[a].what = x /\ b \in C!Block(s, a)
           \/ s[a].do = "there" /\ s[a].what = x /\ b # a + 1
  <1>1. PICK p \in DOMAIN s :
            /\ C!Tested(s, p, x, b)
            /\ C!Brings(s, x) \cap (p + 1)..(b - 1) = {}
            /\ \/ s[p].do = "lacks" /\ b \in C!Block(s, p)
               \/ LET q == p + s[p].leap IN
                  /\ s[p].do = "there" /\ q \in (p + 1)..(b - 1) /\ C!Ends(s, q)
                  /\ \A j \in (p + 1)..(q - 1) : j + s[j].leap < q
    BY DEF C!Missed
  <1>2. Len(s) \in Nat /\ DOMAIN s = 1..Len(s) /\ \A i \in DOMAIN s : s[i].leap \in Nat
    BY ScriptTyped
  <1>7. C!Guards(s, p, b)
    BY <1>1 DEF C!Tested
  <1>3. /\ b \in Nat /\ a < b /\ p < b
        /\ p = a \/ (p < a /\ C!Guards(s, p, a))
    BY <1>7, Through
  <1>4. CASE p < a /\ C!Guards(s, p, a)
    <2>1. a \in (p + 1)..(b - 1) /\ (p + 1)..(a - 1) \subseteq (p + 1)..(b - 1)
      BY <1>1, <1>2, <1>3, <1>4
    <2>2. a \notin C!Brings(s, x) /\ C!Tested(s, p, x, a) /\ C!Brings(s, x) \cap (p + 1)..(a - 1) = {}
      BY <1>1, <1>4, <2>1 DEF C!Tested
    <2>3. CASE s[p].do = "lacks" /\ b \in C!Block(s, p)
      <3>1. a \in C!Block(s, p)
        BY <1>2, <1>3, <2>1, <2>3 DEF C!Block
      <3>2. QED
        BY <2>2, <2>3, <3>1 DEF C!Missed
    <2>4. CASE LET q == p + s[p].leap IN
                  /\ s[p].do = "there" /\ q \in (p + 1)..(b - 1) /\ C!Ends(s, q)
                  /\ \A j \in (p + 1)..(q - 1) : j + s[j].leap < q
      <3> DEFINE q == p + s[p].leap
      <3>1. s[p].do = "there" /\ q \in (p + 1)..(b - 1) /\ C!Ends(s, q)
              /\ \A j \in (p + 1)..(q - 1) : j + s[j].leap < q
        BY <2>4
      <3> HIDE DEF q
      <3>2. q \in Int
        BY <1>2, <3>1
      <3>3. a # q
        BY <3>1
      <3>4. ~ (a < q)
        <4>1. SUFFICES ASSUME a < q PROVE FALSE
          OBVIOUS
        <4>2. a + s[a].leap < q
          BY <1>2, <2>1, <3>1, <3>2, <4>1
        <4>3. QED
          BY <1>2, <3>1, <3>2, <4>1, <4>2
      <3>5. q \in (p + 1)..(a - 1)
        BY <1>2, <1>3, <3>1, <3>2, <3>3, <3>4
      <3>6. QED
        BY <2>2, <3>1, <3>5 DEF C!Missed, q
    <2>5. QED
      BY <1>1, <2>3, <2>4
  <1>5. CASE p = a
    <2>1. s[p].do = "there" /\ p + s[p].leap \in (p + 1)..(b - 1) => b # a + 1
      BY <1>2, <1>5
    <2>2. QED
      BY <1>1, <1>5, <2>1 DEF C!Tested
  <1>6. QED
    BY <1>3, <1>4, <1>5

(* What was made for sure on the way to b was on the way to a, or by a.    *)
LEMMA SecuredBefore ==
    ASSUME NEW s, C!IsScript(s), NEW a \in DOMAIN s, NEW b \in {a + 1, a + s[a].leap + 1},
           NEW x, C!Secured(s, x, b)
    PROVE  \/ C!Secured(s, x, a) /\ a \notin C!Loses(s, x)
           \/ s[a].do = "make" /\ s[a].what = x /\ s[a].miss \subseteq {"stop"}
  <1>1. PICK p \in C!Brings(s, x) :
            /\ s[p].do = "make" /\ s[p].miss \subseteq {"stop"}
            /\ C!Guards(s, p, b)
            /\ C!Loses(s, x) \cap (p + 1)..(b - 1) = {}
    BY DEF C!Secured
  <1>2. Len(s) \in Nat /\ DOMAIN s = 1..Len(s) /\ \A i \in DOMAIN s : s[i].leap \in Nat
    BY ScriptTyped
  <1>3. /\ b \in Nat /\ a < b /\ p < b /\ p \in DOMAIN s
        /\ p = a \/ (p < a /\ C!Guards(s, p, a))
    BY <1>1, Through DEF C!Brings
  <1>4. CASE p < a /\ C!Guards(s, p, a)
    <2>1. a \in (p + 1)..(b - 1) /\ (p + 1)..(a - 1) \subseteq (p + 1)..(b - 1)
      BY <1>1, <1>2, <1>3, <1>4
    <2>2. QED
      BY <1>1, <1>4, <2>1 DEF C!Secured
  <1>5. CASE p = a
    BY <1>1, <1>5 DEF C!Brings
  <1>6. QED
    BY <1>3, <1>4, <1>5

(* Nothing has been done on the way to the first step.                     *)
LEMMA NothingBeforeOne ==
    ASSUME NEW s, C!IsScript(s)
    PROVE  /\ \A p \in DOMAIN s : ~ C!Guards(s, p, 1)
           /\ ~ C!Dead(s, 1)
           /\ \A x : ~ C!Found(s, x, 1) /\ ~ C!Missed(s, x, 1) /\ ~ C!Secured(s, x, 1)
  <1>1. \A p \in DOMAIN s : ~ C!Guards(s, p, 1)
    BY ScriptTyped DEF C!Guards
  <1>2. QED
    BY <1>1 DEF C!Dead, C!Found, C!Missed, C!Secured, C!Tested, C!Brings

-----------------------------------------------------------------------------
(* The script of a command that runs keeps the rules.                      *)
LEMMA TodoRules ==
    ASSUME C!ScriptsKeepRules, CmdTypeOK
    PROVE  C!Rules(C!Todo, cmd, flags) /\ C!IsScript(C!Todo)
  BY DEF C!ScriptsKeepRules, CmdTypeOK, C!Rules, C!Todo

(* A command keeps its script, and its run as long as it runs.             *)
LEMMA SameTodo ==
    ASSUME [C!Next]_(C!vars)
    PROVE  /\ cmd' = cmd /\ flags' = flags /\ C!Todo' = C!Todo /\ Silent' = Silent
           /\ end = "runs" => again' = again
  BY DEF C!Next, C!vars, C!Read, C!Search, C!Change, C!Prompt, C!Offer, C!Branch,
     C!Finish, C!Kill, C!Again, C!Same, C!Todo, Silent

(* A command that does a step is at it.                                    *)
LEMMA DoingStep ==
    ASSUME C!ScriptsKeepRules, CmdTypeOK, NEW d, C!Doing(d)
    PROVE  /\ end = "runs" /\ at \in DOMAIN C!Todo /\ C!Now = C!Todo[at]
           /\ C!Now.do = d /\ C!Now.leap \in Nat
  <1>1. end = "runs" /\ C!Now.do = d /\ C!Now = C!Todo[at]
    BY DEF C!Doing, C!Now
  <1>6. at <= Len(C!Todo)
    BY DEF C!Doing
  <1>2. Len(C!Todo) \in Nat /\ DOMAIN C!Todo = 1..Len(C!Todo)
    BY TodoRules, ScriptTyped
  <1>3. at \in Nat /\ at > 0
    BY DEF CmdTypeOK
  <1>4. at \in DOMAIN C!Todo
    BY <1>6, <1>2, <1>3
  <1>5. QED
    BY <1>1, <1>4, TodoRules, ScriptTyped

(* A command that goes on is at the next step, or past what this one passes. *)
LEMMA Ahead ==
    ASSUME C!ScriptsKeepRules, CmdTypeOK, C!Next, end = "runs", end' = "runs"
    PROVE  /\ at \in DOMAIN C!Todo
           /\ at' \in {at + 1, at + C!Now.leap + 1}
           /\ C!Now = C!Todo[at] /\ C!Now.leap \in Nat
           /\ ~ C!Ends(C!Todo, at)
           /\ C!Read \/ C!Search \/ C!Change \/ C!Prompt \/ C!Offer \/ C!Branch
  <1>1. C!Read \/ C!Search \/ C!Change \/ C!Prompt \/ C!Offer \/ C!Branch
    BY DEF C!Next, C!Finish, C!Kill, C!Again
  <1> DEFINE Kind(S) == \E d \in S : C!Doing(d)
             Onward == C!Go(0) \/ C!Go(C!Now.leap)
  <1>2. C!Fail => Onward
    BY DEF C!Fail
  <1>3. C!Read => Kind({"need"}) /\ Onward
    BY <1>2 DEF C!Read
  <1>4. C!Search => Kind({"find"}) /\ Onward
    BY DEF C!Search
  <1>5. C!Change => Kind({"make", "drop", "move"}) /\ Onward
    BY <1>2 DEF C!Change
  <1>6. C!Prompt => Kind({"ask"}) /\ Onward
    BY DEF C!Prompt
  <1>7. C!Offer => Kind({"offer"}) /\ Onward
    BY DEF C!Offer
  <1>8. C!Branch => Kind({"when", "jump", "there", "lacks", "tally"}) /\ Onward
    BY DEF C!Branch
  <1>9. PICK d : C!Doing(d) /\ d \notin {"quit", "bail"} /\ Onward
    BY <1>1, <1>3, <1>4, <1>5, <1>6, <1>7, <1>8
  <1>10. at \in DOMAIN C!Todo /\ C!Now = C!Todo[at] /\ C!Now.do = d /\ C!Now.leap \in Nat
    BY <1>9, DoingStep
  <1>11. ~ C!Ends(C!Todo, at)
    BY <1>9, <1>10 DEF C!Ends
  <1>12. at \in Nat
    BY DEF CmdTypeOK
  <1>15. Onward /\ C!Now.leap \in Nat
    BY <1>9, <1>10
  <1> HIDE DEF Kind
  <1>13. at' \in {at + 1, at + C!Now.leap + 1}
    <2>1. CASE C!Go(0)
      <3>1. at' = at + 1
        BY <1>12, <2>1 DEF C!Go
      <3>2. QED
        BY <3>1
    <2>2. CASE C!Go(C!Now.leap)
      BY <1>12, <1>15, <2>2 DEF C!Go
    <2>3. QED
      BY <1>15, <2>1, <2>2
  <1>14. QED
    BY <1>1, <1>10, <1>11, <1>13

-----------------------------------------------------------------------------
(* How a step changes whether there is an x.                               *)
Touched(x) ==
    /\ end = "runs" /\ at \in DOMAIN C!Todo
    /\ x \in made /\ x \notin made' => at \in C!Loses(C!Todo, x)
    /\ x \notin made /\ x \in made' => at \in C!Brings(C!Todo, x)
    /\ x \notin gone /\ x \in gone' =>
         at \in C!Loses(C!Todo, x) /\ (C!Todo[at].do = "move" => C!Todo[at].into \in made')

(* A change that is made touches its own thing only.                       *)
LEMMA DoneTouches ==
    ASSUME end = "runs", at \in DOMAIN C!Todo, C!Now = C!Todo[at], C!Done,
           C!Now.do \in {"make", "drop", "move"}, NEW x
    PROVE  Touched(x)
  <1>1. CASE C!Now.do = "make"
    <2>1. made' = made \cup {C!Now.what} /\ gone' = gone \ {C!Now.what}
      BY <1>1 DEF C!Done
    <2>2. QED
      BY <1>1, <2>1 DEF Touched, C!Loses, C!Brings
  <1>2. CASE C!Now.do = "drop"
    <2>1. made' = made \ {C!Now.what} /\ gone' = gone \cup {C!Now.what}
      BY <1>2 DEF C!Done
    <2>2. QED
      BY <1>2, <2>1 DEF Touched, C!Loses, C!Brings
  <1>3. CASE C!Now.do = "move"
    <2>1. /\ made' = (made \ {C!Now.what}) \cup {C!Now.into}
          /\ gone' = (gone \ {C!Now.into}) \cup {C!Now.what}
      BY <1>3 DEF C!Done
    <2>2. QED
      BY <1>3, <2>1 DEF Touched, C!Loses, C!Brings
  <1>4. QED
    BY <1>1, <1>2, <1>3

(* A change is made by a step of the script that says so,                  *)
LEMMA ChangeDoes ==
    ASSUME C!ScriptsKeepRules, CmdTypeOK, C!Change
    PROVE  /\ end = "runs" /\ at \in DOMAIN C!Todo /\ C!Now = C!Todo[at]
           /\ C!Now.do \in {"make", "drop", "move"} /\ at \in C!Changing(C!Todo)
  BY DoingStep DEF C!Change, C!Changing

(* and so is one that Ctrl-C interrupts.                                   *)
LEMMA KillDoes ==
    ASSUME C!ScriptsKeepRules, CmdTypeOK, C!Kill, C!Now.do \in {"make", "drop", "move"}
    PROVE  /\ end = "runs" /\ at \in DOMAIN C!Todo /\ C!Now = C!Todo[at]
           /\ at \in C!Changing(C!Todo)
           /\ C!Made \/ C!Unmade
  <1>1. C!Doing(C!Now.do) /\ (C!Made \/ C!Unmade)
    BY DEF C!Kill, C!Doing
  <1>2. QED
    BY <1>1, DoingStep DEF C!Changing

(* Things come and go by the steps that bring or take them, only.          *)
LEMMA NextTouches ==
    ASSUME C!ScriptsKeepRules, CmdTypeOK, [C!Next]_(C!vars), NEW x
    PROVE  Touched(x) \/ UNCHANGED <<made, gone>>
  <1>1. CASE C!Change
    <2>1. C!Done \/ UNCHANGED <<made, gone>>
      BY <1>1 DEF C!Change, C!Made, C!Unmade
    <2>2. QED
      BY <1>1, <2>1, ChangeDoes, DoneTouches
  <1>2. CASE C!Kill
    <2>1. CASE C!Now.do \in {"make", "drop", "move"}
      BY <1>2, <2>1, KillDoes, DoneTouches DEF C!Made, C!Unmade
    <2>2. CASE C!Now.do \notin {"make", "drop", "move"}
      BY <1>2, <2>2 DEF C!Kill
    <2>3. QED
      BY <2>1, <2>2
  <1>3. ~ C!Change /\ ~ C!Kill => UNCHANGED <<made, gone>>
    BY DEF C!Next, C!vars, C!Read, C!Search, C!Prompt, C!Offer, C!Branch, C!Finish,
       C!Again, C!World
  <1>4. QED
    BY <1>1, <1>2, <1>3

(* what is made, and has no other outcome than an end, is there.           *)
LEMMA SureMake ==
    ASSUME C!ScriptsKeepRules, CmdTypeOK, C!Next, end = "runs", end' = "runs",
           C!Todo[at].do = "make", C!Todo[at].miss \subseteq {"stop"}
    PROVE  C!Todo[at].what \in made' /\ C!Todo[at].what \notin gone'
  <1>1. C!Now = C!Todo[at] /\ (C!Read \/ C!Search \/ C!Change \/ C!Prompt \/ C!Offer \/ C!Branch)
    BY Ahead
  <1>2. C!Change
    BY <1>1 DEF C!Read, C!Search, C!Prompt, C!Offer, C!Branch, C!Doing
  <1>3. ~ C!Fail
    BY <1>1 DEF C!Fail
  <1>4. C!Done
    BY <1>2, <1>3 DEF C!Change, C!Made
  <1>5. made' = made \cup {C!Now.what} /\ gone' = gone \ {C!Now.what}
    BY <1>1, <1>4 DEF C!Done
  <1>6. QED
    BY <1>1, <1>5

-----------------------------------------------------------------------------
(* A command starts with the types it keeps.                               *)
LEMMA TypeInit ==
    ASSUME C!Init PROVE CmdTypeOK
  <1>1. cmd \in DOMAIN C!G!Flags /\ flags \in SUBSET C!G!Flags[cmd]
    BY DEF C!Init
  <1>2. end \in {"runs", "ok", "error", "declined", "killed"}
    BY DEF C!Init
  <1>3. at = 1
    BY DEF C!Init
  <1>4. at \in Nat /\ at > 0
    BY <1>3
  <1>5. again \in BOOLEAN
    BY DEF C!Init
  <1>6. QED
    BY <1>1, <1>2, <1>4, <1>5 DEF CmdTypeOK

(* Every step keeps the types.                                             *)
LEMMA TypeStep ==
    ASSUME C!ScriptsKeepRules, CmdTypeOK, [C!Next]_(C!vars) PROVE CmdTypeOK'
  <1>1. cmd' \in DOMAIN C!G!Flags /\ flags' \in SUBSET C!G!Flags[cmd']
    BY SameTodo DEF CmdTypeOK
  <1>2. again' \in BOOLEAN
    BY DEF CmdTypeOK, C!Next, C!vars, C!Read, C!Search, C!Change, C!Prompt,
       C!Offer, C!Branch, C!Finish, C!Kill, C!Again, C!Same
  <1>3. end' \in {"runs", "ok", "error", "declined", "killed"}
    BY DEF CmdTypeOK, C!Next, C!vars, C!Read, C!Search, C!Change, C!Prompt,
       C!Offer, C!Branch, C!Finish, C!Kill, C!Again, C!Same, C!Fail
  <1>4. at' \in Nat /\ at' > 0
    <2>1. at \in Nat /\ at > 0
      BY DEF CmdTypeOK
    <2>2. CASE C!Next /\ end = "runs" /\ end' = "runs"
      <3>1. at' \in {at + 1, at + C!Now.leap + 1} /\ C!Now.leap \in Nat
        BY <2>2, Ahead
      <3>2. QED
        BY <2>1, <3>1
    <2>3. CASE C!Again
      <3>1. at' = 1
        BY <2>3 DEF C!Again
      <3>2. QED
        BY <3>1
    <2>4. CASE UNCHANGED C!vars
      BY <2>1, <2>4 DEF C!vars
    <2>5. ~ C!Again /\ C!Next /\ ~ (end = "runs" /\ end' = "runs") => at' = at
      BY DEF C!Next, C!Read, C!Search, C!Change, C!Prompt, C!Offer, C!Branch,
         C!Finish, C!Kill, C!Same, C!Fail, C!Doing
    <2>6. QED
      BY <2>1, <2>2, <2>3, <2>4, <2>5
  <1>5. QED
    BY <1>1, <1>2, <1>3, <1>4 DEF CmdTypeOK

(* A step of a command that runs is one onward, its first, or none.        *)
LEMMA ThreeSteps ==
    ASSUME [C!Next]_(C!vars), end' = "runs"
    PROVE  \/ C!Next /\ end = "runs"
           \/ /\ at' = 1 /\ agreed' = {} /\ changed' = {} /\ failed' = {} /\ again'
              /\ UNCHANGED <<made, gone, owed>> /\ "binary" \notin gone
           \/ UNCHANGED C!vars
  BY DEF C!Next, C!vars, C!Read, C!Search, C!Change, C!Prompt, C!Offer, C!Branch,
     C!Finish, C!Kill, C!Again, C!Doing

(* Every step keeps what a place says of the answers.                      *)
LEMMA PlaceStep ==
    ASSUME C!ScriptsKeepRules, CmdTypeOK, PlaceInv, [C!Next]_(C!vars) PROVE PlaceInv'
  <1> SUFFICES ASSUME end' = "runs"
               PROVE  /\ ~ C!Dead(C!Todo, at')
                      /\ \A p \in DOMAIN C!Todo : C!Guards(C!Todo, p, at') =>
                            /\ C!Todo[p].do = "ask" => "all" \in agreed'
                            /\ C!Todo[p].do = "offer" /\ at' \in C!Block(C!Todo, p) => C!Todo[p].what \in agreed'
    BY SameTodo DEF PlaceInv
  <1>0. C!IsScript(C!Todo)
    BY TodoRules
  <1>1. CASE C!Next /\ end = "runs"
    <2>1. /\ at \in DOMAIN C!Todo
          /\ at' \in {at + 1, at + C!Todo[at].leap + 1}
          /\ C!Now = C!Todo[at] /\ C!Now.leap \in Nat
          /\ ~ C!Ends(C!Todo, at)
          /\ C!Read \/ C!Search \/ C!Change \/ C!Prompt \/ C!Offer \/ C!Branch
      BY <1>1, Ahead
    <2>2. ~ C!Dead(C!Todo, at')
      BY <1>0, <1>1, <2>1, DeadBefore DEF PlaceInv
    <2>3. agreed \subseteq agreed'
      BY <2>1 DEF C!Read, C!Search, C!Change, C!Prompt, C!Offer, C!Branch
    <2>4. ASSUME NEW p \in DOMAIN C!Todo, C!Guards(C!Todo, p, at')
          PROVE  /\ C!Todo[p].do = "ask" => "all" \in agreed'
                 /\ C!Todo[p].do = "offer" /\ at' \in C!Block(C!Todo, p) => C!Todo[p].what \in agreed'
      <3>1. at' \in Nat /\ at < at' /\ (p = at \/ (p < at /\ C!Guards(C!Todo, p, at)))
        BY <1>0, <2>1, <2>4, Through
      <3>2. CASE p < at /\ C!Guards(C!Todo, p, at)
        <4>1. at' \in C!Block(C!Todo, p) => at \in C!Block(C!Todo, p)
          <5>1. DOMAIN C!Todo = 1..Len(C!Todo) /\ Len(C!Todo) \in Nat /\ C!Todo[p].leap \in Nat
            BY <1>0, ScriptTyped
          <5>2. QED
            BY <2>1, <3>1, <3>2, <5>1 DEF C!Block
        <4>2. QED
          BY <1>1, <2>3, <3>2, <4>1 DEF PlaceInv
      <3>3. CASE p = at
        <4>1. C!Todo[at].do = "ask" => "all" \in agreed'
          BY <2>1 DEF C!Read, C!Search, C!Change, C!Prompt, C!Offer, C!Branch, C!Doing
        <4>2. ASSUME C!Todo[at].do = "offer", at' \in C!Block(C!Todo, at)
              PROVE  C!Todo[at].what \in agreed'
          <5>1. C!Offer
            BY <2>1, <4>2 DEF C!Read, C!Search, C!Change, C!Prompt, C!Branch, C!Doing
          <5>2. ~ C!Go(C!Now.leap)
            <6>1. at \in Nat
              BY DEF CmdTypeOK
            <6>2. SUFFICES ASSUME at' = at + C!Now.leap + 1 PROVE FALSE
              BY DEF C!Go
            <6>3. at' \in (at + 1)..(at + C!Now.leap)
              BY <2>1, <4>2 DEF C!Block
            <6>4. QED
              BY <2>1, <6>1, <6>2, <6>3
          <5>3. QED
            BY <2>1, <5>1, <5>2 DEF C!Offer
        <4>3. QED
          BY <3>3, <4>1, <4>2
      <3>4. QED
        BY <3>1, <3>2, <3>3
    <2>5. QED
      BY <2>2, <2>4
  <1>2. CASE at' = 1
    BY <1>0, <1>2, NothingBeforeOne
  <1>3. CASE UNCHANGED C!vars
    BY <1>3 DEF C!vars, PlaceInv
  <1>4. QED
    BY <1>1, <1>2, <1>3, ThreeSteps

(* Every step keeps what a place says of the things.                       *)
LEMMA ThereStep ==
    ASSUME C!ScriptsKeepRules, CmdTypeOK, ThereInv, [C!Next]_(C!vars) PROVE ThereInv'
  <1> SUFFICES ASSUME end' = "runs", NEW x
               PROVE  /\ C!Found(C!Todo, x, at') => x \in made'
                      /\ C!Missed(C!Todo, x, at') => x \notin made'
                      /\ C!Secured(C!Todo, x, at') => x \in made' /\ x \notin gone'
    BY SameTodo DEF ThereInv
  <1>0. C!IsScript(C!Todo)
    BY TodoRules
  <1>1. CASE C!Next /\ end = "runs"
    <2>1. /\ at \in DOMAIN C!Todo
          /\ at' \in {at + 1, at + C!Todo[at].leap + 1}
          /\ C!Now = C!Todo[at] /\ C!Now.leap \in Nat
          /\ ~ C!Ends(C!Todo, at)
          /\ C!Read \/ C!Search \/ C!Change \/ C!Prompt \/ C!Offer \/ C!Branch
      BY <1>1, Ahead
    <2>2. Touched(x) \/ UNCHANGED <<made, gone>>
      BY <1>1, NextTouches
    <2>3. /\ C!Found(C!Todo, x, at) => x \in made
          /\ C!Missed(C!Todo, x, at) => x \notin made
          /\ C!Secured(C!Todo, x, at) => x \in made /\ x \notin gone
      BY <1>1 DEF ThereInv
    <2>4. C!Todo[at].do \in {"there", "lacks"} => C!Branch /\ UNCHANGED <<made, gone>>
      BY <2>1 DEF C!Read, C!Search, C!Change, C!Prompt, C!Offer, C!Branch, C!Doing,
         C!World
    <2>5. at \in Nat
      BY DEF CmdTypeOK
    <2>6. at' \in C!Block(C!Todo, at) => at' = at + 1
      BY <2>1, <2>5 DEF C!Block
    <2>7. at' \in C!Block(C!Todo, at) => C!Now.leap # 0
      BY <2>1, <2>5 DEF C!Block
    <2>8. ASSUME C!Found(C!Todo, x, at') PROVE x \in made'
      <3>1. CASE C!Found(C!Todo, x, at) /\ at \notin C!Loses(C!Todo, x)
        BY <2>2, <2>3, <3>1 DEF Touched
      <3>2. CASE C!Todo[at].do = "there" /\ C!Todo[at].what = x /\ at' \in C!Block(C!Todo, at)
        <4>1. C!Go(IF C!Now.what \in made THEN 0 ELSE C!Now.leap)
          BY <2>1, <2>4, <3>2 DEF C!Branch, C!Doing
        <4>2. C!Now.what \in made
          <5>1. SUFFICES ASSUME C!Now.what \notin made PROVE FALSE
            OBVIOUS
          <5>2. at' = at + C!Now.leap + 1
            BY <4>1, <5>1 DEF C!Go
          <5>3. QED
            BY <2>1, <2>5, <2>6, <2>7, <3>2, <5>2
        <4>3. QED
          BY <2>1, <2>4, <3>2, <4>2
      <3>3. QED
        BY <1>0, <2>1, <2>8, <3>1, <3>2, FoundBefore
    <2>9. ASSUME C!Missed(C!Todo, x, at') PROVE x \notin made'
      <3>1. CASE C!Missed(C!Todo, x, at) /\ at \notin C!Brings(C!Todo, x)
        BY <2>2, <2>3, <3>1 DEF Touched
      <3>2. CASE C!Todo[at].do = "lacks" /\ C!Todo[at].what = x /\ at' \in C!Block(C!Todo, at)
        <4>1. C!Go(IF C!Now.what \in made THEN C!Now.leap ELSE 0)
          BY <2>1, <2>4, <3>2 DEF C!Branch, C!Doing
        <4>2. C!Now.what \notin made
          <5>1. SUFFICES ASSUME C!Now.what \in made PROVE FALSE
            OBVIOUS
          <5>2. at' = at + C!Now.leap + 1
            BY <4>1, <5>1 DEF C!Go
          <5>3. QED
            BY <2>1, <2>5, <2>6, <2>7, <3>2, <5>2
        <4>3. QED
          BY <2>1, <2>4, <3>2, <4>2
      <3>3. CASE C!Todo[at].do = "there" /\ C!Todo[at].what = x /\ at' # at + 1
        <4>1. C!Go(IF C!Now.what \in made THEN 0 ELSE C!Now.leap)
          BY <2>1, <2>4, <3>3 DEF C!Branch, C!Doing
        <4>2. C!Now.what \notin made
          <5>1. SUFFICES ASSUME C!Now.what \in made PROVE FALSE
            OBVIOUS
          <5>2. at' = at + 0 + 1
            BY <4>1, <5>1 DEF C!Go
          <5>3. QED
            BY <2>5, <3>3, <5>2
        <4>3. QED
          BY <2>1, <2>4, <3>3, <4>2
      <3>4. QED
        BY <1>0, <2>1, <2>9, <3>1, <3>2, <3>3, MissedBefore
    <2>10. ASSUME C!Secured(C!Todo, x, at') PROVE x \in made' /\ x \notin gone'
      <3>1. CASE C!Secured(C!Todo, x, at) /\ at \notin C!Loses(C!Todo, x)
        BY <2>2, <2>3, <3>1 DEF Touched
      <3>2. CASE C!Todo[at].do = "make" /\ C!Todo[at].what = x /\ C!Todo[at].miss \subseteq {"stop"}
        BY <1>1, <3>2, SureMake
      <3>3. QED
        BY <1>0, <2>1, <2>10, <3>1, <3>2, SecuredBefore
    <2>11. QED
      BY <2>8, <2>9, <2>10
  <1>2. CASE at' = 1
    BY <1>0, <1>2, NothingBeforeOne
  <1>3. CASE UNCHANGED C!vars
    BY <1>3 DEF C!vars, ThereInv
  <1>4. QED
    BY <1>1, <1>2, <1>3, ThreeSteps

-----------------------------------------------------------------------------
(* Every step keeps to the answers.                                        *)
LEMMA AskStep ==
    ASSUME C!ScriptsKeepRules, CmdTypeOK, PlaceInv, AskInv, [C!Next]_(C!vars) PROVE AskInv'
  <1> SUFFICES ASSUME NEW x \in changed'
               PROVE  /\ C!Concerns(cmd, x) =>
                           flags \cap {"yes", "force"} # {} \/ "all" \in agreed' \/ x \in agreed'
                      /\ "dry_run" \in flags => x \in C!Prepared
    BY SameTodo DEF AskInv
  <1>1. CASE x \in changed /\ agreed \subseteq agreed'
    BY <1>1 DEF AskInv
  <1>2. C!Again \/ agreed \subseteq agreed'
    BY DEF C!Next, C!vars, C!Read, C!Search, C!Change, C!Prompt, C!Offer, C!Branch,
       C!Finish, C!Kill
  <1>3. ~ C!Again
    BY DEF C!Again
  <1>4. CASE x \notin changed
    <2>1. C!Change
      BY <1>3, <1>4 DEF C!Next, C!vars, C!Read, C!Search, C!Prompt, C!Offer,
         C!Branch, C!Finish, C!Kill, C!World
    <2>2. end = "runs" /\ at \in C!Changing(C!Todo) /\ at \in DOMAIN C!Todo /\ C!Now = C!Todo[at]
      BY <2>1, ChangeDoes
    <2>3. x = C!Todo[at].what /\ agreed' = agreed
      BY <1>4, <2>1, <2>2 DEF C!Change
    <2>4. ~ C!Dead(C!Todo, at)
      BY <2>2 DEF PlaceInv
    <2>5. /\ "dry_run" \in flags => x \in C!Prepared
          /\ \/ ~ C!Concerns(cmd, x) \/ flags \cap {"yes", "force"} # {}
             \/ \E p \in DOMAIN C!Todo :
                    /\ C!Guards(C!Todo, p, at)
                    /\ \/ C!Todo[p].do = "ask"
                       \/ C!Todo[p].do = "offer" /\ C!Todo[p].what = x /\ at \in C!Block(C!Todo, p)
      BY <2>2, <2>3, <2>4, TodoRules DEF C!Rules, C!Asks
    <2>6. QED
      BY <2>2, <2>3, <2>5 DEF PlaceInv
  <1>5. QED
    BY <1>1, <1>2, <1>3, <1>4

-----------------------------------------------------------------------------
(* What is owed is owed for a change of the script; and what is made once, *)
(* where there is none, is not there as long as it is owed.                *)
OnceInv ==
    /\ \A c \in owed : \E m \in C!Changing(C!Todo) : c = C!Debt(C!Todo, m)
    /\ \A c \in owed : c[1] \notin Silent /\ C!MadeOnce(C!Todo, c[1]) => c[1] \notin made

(* A first run hides nothing.  A second one may start with what the first  *)
(* was cut short of; but whatever it must make it has made, or told of,    *)
(* once it is past it.  No debt is behind a step that ends the command.    *)
ToldInv ==
    /\ end = "runs" /\ ~ again => Hidden = {}
    /\ end = "runs" =>
         \A m \in C!Changing(C!Todo) :
             m < at /\ ~ C!Skippable(C!Todo, m) => C!Debt(C!Todo, m) \notin Hidden
    /\ \A c \in owed : \/ c[1] \in Silent
                       \/ \E m \in C!Changing(C!Todo) : ~ C!Dead(C!Todo, m) /\ c = C!Debt(C!Todo, m)
    /\ end = "ok" => Hidden = {}

(* What n steps pass over are the debts of the changes among them,         *)
LEMMA PassedIs ==
    ASSUME C!ScriptsKeepRules, CmdTypeOK, at \in DOMAIN C!Todo,
           NEW n \in Nat, at + n <= Len(C!Todo)
    PROVE  C!Passed(n) = {C!Debt(C!Todo, m) : m \in C!Changing(C!Todo) \cap (at + 1)..(at + n)}
  <1>1. DOMAIN C!Todo = 1..Len(C!Todo) /\ Len(C!Todo) \in Nat
    BY TodoRules, ScriptTyped
  <1>2. at \in Nat /\ at > 0
    BY DEF CmdTypeOK
  <1>3. (at + 1)..(at + n) \subseteq DOMAIN C!Todo
    BY <1>1, <1>2
  <1>4. {j \in (at + 1)..(at + n) : C!Todo[j].do \in {"make", "drop", "move"}}
          = C!Changing(C!Todo) \cap (at + 1)..(at + n)
    BY <1>3 DEF C!Changing
  <1>5. QED
    BY <1>4 DEF C!Passed, C!Debt

(* which are those of its block, if a step passes that;                    *)
LEMMA LeapPasses ==
    ASSUME C!ScriptsKeepRules, CmdTypeOK, at \in DOMAIN C!Todo, C!Now = C!Todo[at]
    PROVE  C!Passed(C!Now.leap) =
             {C!Debt(C!Todo, m) : m \in C!Changing(C!Todo) \cap C!Block(C!Todo, at)}
  <1>1. C!Now.leap \in Nat /\ at + C!Now.leap <= Len(C!Todo)
    BY TodoRules, ScriptTyped DEF C!IsScript
  <1>2. QED
    BY <1>1, PassedIs DEF C!Block

(* none of them needs to be told if it passes without a word.              *)
LEMMA PassIsSilent ==
    ASSUME C!ScriptsKeepRules, CmdTypeOK, at \in DOMAIN C!Todo, C!Now = C!Todo[at],
           "pass" \in C!Now.miss, NEW c \in C!Passed(C!Now.leap)
    PROVE  c[1] \in Silent /\ \E m \in C!Changing(C!Todo) : c = C!Debt(C!Todo, m)
  <1>1. PICK m \in C!Changing(C!Todo) \cap C!Block(C!Todo, at) : c = C!Debt(C!Todo, m)
    BY LeapPasses
  <1>2. C!Todo[m].what \in Silent
    BY <1>1, TodoRules DEF C!Rules, C!Tells, Silent
  <1>3. QED
    BY <1>1, <1>2 DEF C!Debt

(* What a step adds to the debts.                                          *)
LEMMA OwedGrows ==
    ASSUME C!ScriptsKeepRules, CmdTypeOK, [C!Next]_(C!vars), NEW c \in owed', c \notin owed
    PROVE  /\ end = "runs" /\ at \in DOMAIN C!Todo
           /\ \E m \in C!Changing(C!Todo) : c = C!Debt(C!Todo, m)
           /\ \/ c[1] \in Silent
              \/ at \in C!Changing(C!Todo) /\ c = C!Debt(C!Todo, at) /\ UNCHANGED <<made, gone>>
  <1>1. C!Read \/ C!Change \/ C!Kill
    BY DEF C!Next, C!vars, C!Search, C!Prompt, C!Offer, C!Branch, C!Finish,
       C!Again, C!World
  <1>2. CASE C!Read
    <2>1. end = "runs" /\ at \in DOMAIN C!Todo /\ C!Now = C!Todo[at]
      BY <1>2, DoingStep DEF C!Read
    <2>2. "pass" \in C!Now.miss /\ c \in C!Passed(C!Now.leap)
      BY <1>2 DEF C!Read
    <2>3. QED
      BY <2>1, <2>2, PassIsSilent
  <1>3. ASSUME end = "runs", at \in DOMAIN C!Todo, at \in C!Changing(C!Todo), C!Now = C!Todo[at],
               C!Made \/ C!Unmade
        PROVE  c = C!Debt(C!Todo, at) /\ UNCHANGED <<made, gone>>
    BY <1>3 DEF C!Made, C!Unmade, C!It, C!Debt
  <1>4. CASE C!Change
    <2>1. C!Made \/ C!Unmade
      BY <1>4 DEF C!Change
    <2>2. QED
      BY <1>3, <1>4, <2>1, ChangeDoes
  <1>5. CASE C!Kill
    <2>1. C!Now.do \in {"make", "drop", "move"}
      BY <1>5 DEF C!Kill
    <2>2. QED
      BY <1>3, <1>5, <2>1, KillDoes
  <1>6. QED
    BY <1>1, <1>2, <1>4, <1>5

(* Every step keeps it: what was missed before its only maker is made by   *)
(* it, or owed and not there.                                              *)
LEMMA OnceStep ==
    ASSUME C!ScriptsKeepRules, CmdTypeOK, ThereInv, OnceInv, [C!Next]_(C!vars) PROVE OnceInv'
  <1>1. ASSUME NEW c \in owed' PROVE \E m \in C!Changing(C!Todo) : c = C!Debt(C!Todo, m)
    BY OwedGrows DEF OnceInv
  <1>2. ASSUME NEW c \in owed', c[1] \notin Silent, C!MadeOnce(C!Todo, c[1]) PROVE c[1] \notin made'
    <2> DEFINE x == c[1]
    <2>1. PICK m \in C!Changing(C!Todo) : c = C!Debt(C!Todo, m)
      BY <1>1
    <2>2. m \in DOMAIN C!Todo /\ x = C!Todo[m].what
      BY <2>1 DEF C!Changing, C!Debt
    <2>3. m \in C!Brings(C!Todo, x)
      BY <1>2, <2>1, <2>2 DEF C!MadeOnce, C!Changing, C!Loses, C!Brings
    <2>4. c = <<x, 1>>
      BY <1>2, <2>1, <2>2, <2>3 DEF C!MadeOnce, C!Debt
    <2>5. CASE c \in owed
      <3>1. SUFFICES ASSUME x \in made' PROVE FALSE
        OBVIOUS
      <3>2. x \notin made
        BY <1>2, <2>5 DEF OnceInv
      <3>3. end = "runs" /\ at \in C!Brings(C!Todo, x) /\ at \in DOMAIN C!Todo
        BY <3>1, <3>2, NextTouches DEF Touched
      <3>4. C!Todo[at].do = "make" /\ C!Todo[at].what = x /\ C!Todo[at].nth = 1
        BY <1>2, <3>3 DEF C!MadeOnce, C!Brings
      <3>5. C!Change \/ C!Kill
        BY <3>1, <3>2 DEF C!Next, C!vars, C!Read, C!Search, C!Prompt, C!Offer,
           C!Branch, C!Finish, C!Again, C!World
      <3>6. C!Now = C!Todo[at]
        BY DEF C!Now
      <3>7. C!Made \/ C!Unmade
        BY <3>4, <3>5, <3>6 DEF C!Change, C!Kill
      <3>8. owed' = owed \ {C!It}
        BY <3>1, <3>2, <3>7 DEF C!Made, C!Unmade
      <3>9. C!It = c
        BY <2>4, <3>4, <3>6 DEF C!It
      <3>10. QED
        BY <1>2, <3>8, <3>9
    <2>6. CASE c \notin owed
      <3>1. /\ end = "runs" /\ at \in C!Changing(C!Todo) /\ c = C!Debt(C!Todo, at) /\ made' = made
            /\ at \in DOMAIN C!Todo
        BY <1>2, <2>6, OwedGrows
      <3>2. C!Todo[at].what = x
        BY <3>1 DEF C!Debt
      <3>3. at \in C!Brings(C!Todo, x)
        BY <1>2, <3>1, <3>2 DEF C!MadeOnce, C!Changing, C!Loses, C!Brings
      <3>4. C!Missed(C!Todo, x, at)
        BY <1>2, <3>3 DEF C!MadeOnce
      <3>5. QED
        BY <2>2, <3>1, <3>4 DEF ThereInv
    <2>7. QED
      BY <2>5, <2>6
  <1>3. QED
    BY <1>1, <1>2, SameTodo DEF OnceInv

-----------------------------------------------------------------------------
(* A failure that does not end the command is told, or is one of the quiet *)
(* ones,                                                                   *)
LEMMA FailTells ==
    ASSUME C!Fail
    PROVE  /\ failed \subseteq failed'
           /\ end' = "runs" /\ end = "runs" /\ C!Now.do # "need" =>
                C!It \in failed' \/ C!Now.miss \cap {"quiet", "pass"} # {}
  BY DEF C!Fail, C!Heard

(* and so is what it passes over.                                          *)
LEMMA FailPasses ==
    ASSUME C!Fail, end' = "runs", end = "runs", ~ C!Go(0)
    PROVE  C!Passed(C!Now.leap) \subseteq failed' \/ "pass" \in C!Now.miss
  BY DEF C!Fail

(* What is owed and not told does not grow as long as a command runs.      *)
LEMMA HiddenShrinks ==
    ASSUME C!ScriptsKeepRules, CmdTypeOK, C!Next, end = "runs", end' = "runs"
    PROVE  Hidden' \subseteq Hidden
  <1>1. SUFFICES ASSUME NEW c \in owed', c \notin failed', c[1] \notin Silent
                 PROVE  c \in owed /\ c \notin failed
    BY SameTodo DEF Hidden
  <1>2. C!Read \/ C!Search \/ C!Change \/ C!Prompt \/ C!Offer \/ C!Branch
    BY Ahead
  <1>3. c \notin failed
    BY <1>1, <1>2, FailTells DEF C!Read, C!Search, C!Change, C!Prompt, C!Offer, C!Branch
  <1>4. ASSUME c \notin owed PROVE FALSE
    <2>1. at \in C!Changing(C!Todo) /\ c = C!Debt(C!Todo, at) /\ at \in DOMAIN C!Todo
      BY <1>1, <1>4, OwedGrows
    <2>2. C!Now = C!Todo[at]
      BY DEF C!Now
    <2>3. C!Change
      BY <1>2, <2>1, <2>2 DEF C!Read, C!Search, C!Prompt, C!Offer, C!Branch,
         C!Doing, C!Changing
    <2>4. C!It = c /\ C!Now.do # "need"
      BY <2>1, <2>2 DEF C!It, C!Debt, C!Changing
    <2>5. ~ (C!Made /\ C!Go(0) /\ UNCHANGED <<failed, end>>)
      BY <1>1, <2>4 DEF C!Made
    <2>6. C!Fail
      BY <2>3, <2>5 DEF C!Change
    <2>7. C!Now.miss \cap {"quiet", "pass"} # {}
      BY <1>1, <2>4, <2>6, FailTells
    <2>8. C!Todo[at].what \notin Silent
      BY <1>1, <2>1 DEF C!Debt
    <2>9. C!Tells(C!Todo, Silent)
      BY TodoRules DEF C!Rules, Silent
    <2>10. QED
      BY <2>1, <2>2, <2>7, <2>8, <2>9 DEF C!Tells
  <1>5. QED
    BY <1>3, <1>4

(* What must be made is told of, or made, once it is passed.               *)
LEMMA PassedTold ==
    ASSUME C!ScriptsKeepRules, CmdTypeOK, OnceInv, ToldInv, C!Next, end = "runs", end' = "runs",
           NEW m \in C!Changing(C!Todo), m < at', ~ C!Skippable(C!Todo, m)
    PROVE  C!Debt(C!Todo, m) \notin Hidden'
  <1> DEFINE c == C!Debt(C!Todo, m)
  <1>1. /\ at \in DOMAIN C!Todo
        /\ at' \in {at + 1, at + C!Now.leap + 1}
        /\ C!Now = C!Todo[at] /\ C!Now.leap \in Nat
        /\ C!Read \/ C!Search \/ C!Change \/ C!Prompt \/ C!Offer \/ C!Branch
    BY Ahead
  <1>2. Hidden' \subseteq Hidden
    BY HiddenShrinks
  <1>3. SUFFICES ASSUME c \in Hidden' PROVE FALSE
    OBVIOUS
  <1>4. c \in Hidden /\ again
    BY <1>2, <1>3 DEF ToldInv
  <1>5. c \in owed' /\ c \notin failed' /\ c \in owed /\ c[1] \notin Silent
    BY <1>3, <1>4 DEF Hidden
  <1>6. ~ (m < at)
    BY <1>4 DEF ToldInv
  <1>7. m \in Nat /\ at \in Nat
    <2>1. DOMAIN C!Todo = 1..Len(C!Todo) /\ Len(C!Todo) \in Nat
      BY TodoRules, ScriptTyped
    <2>2. m \in DOMAIN C!Todo
      BY DEF C!Changing
    <2>3. QED
      BY <1>1, <2>1, <2>2
  <1>8. CASE m = at
    <2>1. C!Change
      BY <1>1, <1>8 DEF C!Read, C!Search, C!Prompt, C!Offer, C!Branch, C!Doing,
         C!Changing
    <2>2. C!It = c
      BY <1>1, <1>8 DEF C!It, C!Debt
    <2>3. ~ C!Made
      BY <1>5, <2>2 DEF C!Made
    <2>4. C!Fail
      BY <2>1, <2>3 DEF C!Change
    <2>5. C!Now.do # "need"
      BY <1>1, <1>8 DEF C!Changing
    <2>6. C!Now.miss \cap {"quiet", "pass"} # {}
      BY <1>5, <2>2, <2>4, <2>5, FailTells
    <2>7. C!Todo[m].what \notin Silent
      BY <1>5 DEF C!Debt
    <2>8. C!Tells(C!Todo, Silent)
      BY TodoRules DEF C!Rules, Silent
    <2>9. QED
      BY <1>1, <1>8, <2>6, <2>7, <2>8 DEF C!Tells
  <1>9. CASE at < m
    <2>1. at' = at + C!Now.leap + 1 /\ at' # at + 1
      BY <1>1, <1>7, <1>9
    <2>2. m \in C!Block(C!Todo, at)
      BY <1>1, <1>7, <1>9, <2>1 DEF C!Block
    <2>3. c \in C!Passed(C!Now.leap)
      BY <1>1, <2>2, LeapPasses
    <2>4. ~ C!Go(0)
      <3>1. at + 0 + 1 = at + 1
        BY <1>7
      <3>2. QED
        BY <2>1, <3>1 DEF C!Go
    <2>5. "pass" \notin C!Now.miss
      BY <1>1, <1>5, <2>3, PassIsSilent
    <2>6. ~ C!Fail
      <3>1. SUFFICES ASSUME C!Fail PROVE FALSE
        OBVIOUS
      <3>2. C!Passed(C!Now.leap) \subseteq failed'
        BY <2>4, <2>5, <3>1, FailPasses
      <3>3. QED
        BY <1>5, <2>3, <3>2
    <2>7. C!Offer \/ C!Branch
      BY <1>1, <2>4, <2>6 DEF C!Read, C!Search, C!Change, C!Prompt
    <2>8. ~ C!Offer
      BY <1>5, <2>3, <2>4 DEF C!Offer
    <2>9. ~ C!Free(C!Now.leap)
      BY <1>4, <1>5, <2>3 DEF C!Free
    <2>10. \/ C!Todo[at].do = "there"
           \/ C!Todo[at].do = "lacks" /\ C!Todo[at].what \in made
      BY <1>1, <2>4, <2>7, <2>8, <2>9 DEF C!Branch, C!Doing
    <2>11. C!Todo[at].do = "lacks" /\ C!Todo[at].what = C!Todo[m].what /\ C!MadeOnce(C!Todo, C!Todo[m].what)
      BY <1>1, <2>2, <2>10 DEF C!Skippable
    <2>12. c[1] = C!Todo[m].what
      BY DEF C!Debt
    <2>13. QED
      BY <1>5, <2>10, <2>11, <2>12 DEF OnceInv
  <1>10. QED
    BY <1>6, <1>7, <1>8, <1>9

(* A command that ends well has passed all that it must make, or ends      *)
(* where nothing of it is owed.                                            *)
LEMMA EndsTold ==
    ASSUME C!ScriptsKeepRules, CmdTypeOK, ThereInv, OnceInv, ToldInv,
           C!Next, end = "runs", end' = "ok"
    PROVE  Hidden' = {}
  <1>1. SUFFICES ASSUME NEW c \in Hidden PROVE FALSE
    <2>1. C!Search \/ C!Finish
      BY DEF C!Next, C!Read, C!Change, C!Prompt, C!Offer, C!Branch, C!Kill,
         C!Again, C!Fail
    <2>2. UNCHANGED <<owed, failed>>
      BY <2>1 DEF C!Search, C!Finish, C!World
    <2>3. QED
      BY <2>2, SameTodo DEF Hidden
  <1>2. c \in owed /\ c[1] \notin Silent
    BY DEF Hidden
  <1>3. PICK m \in C!Changing(C!Todo) : ~ C!Dead(C!Todo, m) /\ c = C!Debt(C!Todo, m)
    BY <1>2 DEF ToldInv
  <1>4. c[1] = C!Todo[m].what /\ m \in DOMAIN C!Todo
    BY <1>3 DEF C!Debt, C!Changing
  <1>5. C!Tells(C!Todo, Silent)
    BY TodoRules DEF C!Rules, Silent
  <1>6. /\ C!Insists(C!Todo, m, Len(C!Todo) + 1)
        /\ \A q \in DOMAIN C!Todo : C!Todo[q].do = "quit" =>
               \/ C!Insists(C!Todo, m, q)
               \/ C!MadeOnce(C!Todo, C!Todo[m].what) /\ C!Found(C!Todo, C!Todo[m].what, q)
    BY <1>2, <1>3, <1>4, <1>5 DEF C!Tells
  <1>7. \A k \in C!Changing(C!Todo) : k < at /\ C!Debt(C!Todo, k) = c => C!Skippable(C!Todo, k)
    BY DEF ToldInv
  <1>8. PICK k \in C!Changing(C!Todo) :
            k < Len(C!Todo) + 1 /\ C!Debt(C!Todo, k) = c /\ ~ C!Skippable(C!Todo, k)
    BY <1>3, <1>6 DEF C!Insists
  <1>9. k \in Nat /\ at \in Nat /\ Len(C!Todo) \in Nat /\ ~ (k < at)
    <2>1. DOMAIN C!Todo = 1..Len(C!Todo) /\ Len(C!Todo) \in Nat
      BY TodoRules, ScriptTyped
    <2>2. k \in DOMAIN C!Todo
      BY DEF C!Changing
    <2>3. at \in Nat
      BY DEF CmdTypeOK
    <2>4. QED
      BY <1>7, <1>8, <2>1, <2>2, <2>3
  <1>10. CASE C!Search
    <2>1. at \in DOMAIN C!Todo /\ C!Now = C!Todo[at] /\ C!Now.do = "find"
      BY <1>10, DoingStep DEF C!Search
    <2>2. C!Free(Len(C!Todo) - at)
      BY <1>10 DEF C!Search
    <2>3. k # at
      BY <2>1 DEF C!Changing
    <2>4. Len(C!Todo) - at \in Nat /\ at + (Len(C!Todo) - at) <= Len(C!Todo)
          /\ k \in (at + 1)..(at + (Len(C!Todo) - at))
      <3>1. at <= Len(C!Todo)
        BY <1>10 DEF C!Search, C!Doing
      <3>2. QED
        BY <1>8, <1>9, <2>3, <3>1
    <2>5. c \in C!Passed(Len(C!Todo) - at)
      BY <1>8, <2>1, <2>4, PassedIs
    <2>6. again
      BY DEF ToldInv
    <2>7. QED
      BY <1>2, <2>2, <2>5, <2>6 DEF C!Free
  <1>11. CASE end = "runs" /\ at > Len(C!Todo)
    BY <1>8, <1>9, <1>11
  <1>12. CASE C!Doing("quit")
    <2>1. at \in DOMAIN C!Todo /\ C!Todo[at].do = "quit"
      BY <1>12, DoingStep
    <2>2. CASE C!Insists(C!Todo, m, at)
      BY <1>3, <1>7, <2>2 DEF C!Insists
    <2>3. CASE C!MadeOnce(C!Todo, C!Todo[m].what) /\ C!Found(C!Todo, C!Todo[m].what, at)
      <3>1. C!Todo[m].what \in made
        BY <2>3 DEF ThereInv
      <3>2. QED
        BY <1>2, <1>4, <2>3, <3>1 DEF OnceInv
    <2>4. QED
      BY <1>6, <2>1, <2>2, <2>3
  <1>13. C!Search \/ C!Doing("quit") \/ (end = "runs" /\ at > Len(C!Todo))
    BY DEF C!Next, C!Read, C!Change, C!Prompt, C!Offer, C!Branch, C!Finish, C!Kill,
       C!Again, C!Fail
  <1>14. QED
    BY <1>10, <1>11, <1>12, <1>13

(* Every step keeps it.                                                    *)
LEMMA ToldStep ==
    ASSUME C!ScriptsKeepRules, CmdTypeOK, PlaceInv, ThereInv, OnceInv, ToldInv, [C!Next]_(C!vars)
    PROVE  ToldInv'
  <1>0. C!Todo' = C!Todo /\ Silent' = Silent
    BY SameTodo
  <1>1. ASSUME end' = "runs", ~ again' PROVE Hidden' = {}
    <2>1. CASE C!Next /\ end = "runs"
      <3>1. ~ again
        BY <1>1, <2>1, SameTodo
      <3>2. QED
        BY <1>1, <2>1, <3>1, HiddenShrinks DEF ToldInv
    <2>2. CASE UNCHANGED C!vars
      BY <1>1, <2>2 DEF C!vars, Hidden, ToldInv, Silent
    <2>3. QED
      BY <1>1, <2>1, <2>2, ThreeSteps
  <1>2. ASSUME end' = "runs", NEW m \in C!Changing(C!Todo), m < at', ~ C!Skippable(C!Todo, m)
        PROVE  C!Debt(C!Todo, m) \notin Hidden'
    <2>1. CASE C!Next /\ end = "runs"
      BY <1>2, <2>1, PassedTold
    <2>2. CASE at' = 1
      <3>1. m \in DOMAIN C!Todo
        BY DEF C!Changing
      <3>2. DOMAIN C!Todo = 1..Len(C!Todo) /\ Len(C!Todo) \in Nat
        BY TodoRules, ScriptTyped
      <3>3. QED
        BY <1>2, <2>2, <3>1, <3>2
    <2>3. CASE UNCHANGED C!vars
      <3>1. Hidden' = Hidden /\ at' = at /\ end = "runs"
        BY <1>0, <1>2, <2>3 DEF C!vars, Hidden
      <3>2. QED
        BY <1>2, <3>1 DEF ToldInv
    <2>4. QED
      BY <1>2, <2>1, <2>2, <2>3, ThreeSteps
  <1>3. ASSUME NEW c \in owed', c[1] \notin Silent
        PROVE  \E m \in C!Changing(C!Todo) : ~ C!Dead(C!Todo, m) /\ c = C!Debt(C!Todo, m)
    <2>1. CASE c \in owed
      BY <1>3, <2>1 DEF ToldInv
    <2>2. CASE c \notin owed
      <3>1. end = "runs" /\ at \in C!Changing(C!Todo) /\ c = C!Debt(C!Todo, at)
        BY <1>3, <2>2, OwedGrows
      <3>2. ~ C!Dead(C!Todo, at)
        BY <3>1 DEF PlaceInv
      <3>3. QED
        BY <3>1, <3>2
    <2>3. QED
      BY <2>1, <2>2
  <1>4. ASSUME end' = "ok" PROVE Hidden' = {}
    <2>1. CASE C!Next /\ end = "runs"
      BY <1>4, <2>1, EndsTold
    <2>2. CASE UNCHANGED C!vars
      <3>1. Hidden' = Hidden /\ end = "ok"
        BY <1>0, <1>4, <2>2 DEF C!vars, Hidden
      <3>2. QED
        BY <3>1 DEF ToldInv
    <2>3. C!Next => end = "runs"
      BY <1>4 DEF C!Next, C!Read, C!Search, C!Change, C!Prompt, C!Offer, C!Branch,
         C!Finish, C!Kill, C!Again, C!Doing
    <2>4. QED
      BY <2>1, <2>2, <2>3
  <1>5. QED
    BY <1>0, <1>1, <1>2, <1>3, <1>4 DEF ToldInv
-----------------------------------------------------------------------------
(* What is gone has a copy; and the binary is there until a step of this   *)
(* run takes it away.                                                      *)
CopyInv ==
    "no_backup" \notin flags =>
        /\ \A x \in C!Precious \cap gone : C!Loses(C!Todo, x) # {} /\ "backup" \in made
        /\ end = "runs" /\ C!Loses(C!Todo, "binary") \cap 1..(at - 1) = {} => "binary" \notin gone

(* Every step keeps it: what goes last is not the copy.                    *)
LEMMA CopyStep ==
    ASSUME C!ScriptsKeepRules, CmdTypeOK, ThereInv, CopyInv, [C!Next]_(C!vars)
    PROVE  CopyInv'
  <1>0. C!Todo' = C!Todo /\ flags' = flags
    BY SameTodo
  <1> SUFFICES ASSUME "no_backup" \notin flags
               PROVE  /\ \A x \in C!Precious \cap gone' : C!Loses(C!Todo, x) # {} /\ "backup" \in made'
                      /\ end' = "runs" /\ C!Loses(C!Todo, "binary") \cap 1..(at' - 1) = {}
                           => "binary" \notin gone'
    BY <1>0 DEF CopyInv
  <1>1. C!KeepsCopy(C!Todo)
    BY TodoRules DEF C!Rules
  <1>2. ASSUME end = "runs", at \in DOMAIN C!Todo
        PROVE  \A y : C!Secured(C!Todo, y, at) => y \in made /\ y \notin gone
    BY <1>2 DEF ThereInv
  <1>3. ASSUME NEW x \in C!Precious, x \in gone'
        PROVE  C!Loses(C!Todo, x) # {} /\ "backup" \in made'
    <2>1. x # "backup"
      BY DEF C!Precious
    <2>2. CASE x \in gone
      <3>1. C!Loses(C!Todo, x) # {} /\ "backup" \in made
        BY <2>2 DEF CopyInv
      <3>2. ASSUME "backup" \notin made' PROVE FALSE
        <4>1. end = "runs" /\ at \in DOMAIN C!Todo /\ at \in C!Loses(C!Todo, "backup")
          BY <3>1, <3>2, NextTouches DEF Touched
        <4>2. C!Secured(C!Todo, x, at) \/ (x = "binary" /\ C!Loses(C!Todo, x) \cap 1..(at - 1) = {})
          BY <1>1, <3>1, <4>1 DEF C!KeepsCopy
        <4>3. QED
          BY <1>2, <2>2, <4>1, <4>2 DEF CopyInv
      <3>3. QED
        BY <3>1, <3>2
    <2>3. CASE x \notin gone
      <3>1. /\ end = "runs" /\ at \in DOMAIN C!Todo /\ at \in C!Loses(C!Todo, x)
            /\ C!Todo[at].do = "move" => C!Todo[at].into \in made'
        BY <1>3, <2>3, NextTouches DEF Touched
      <3>2. \/ C!Todo[at].do = "move" /\ C!Todo[at].into = "backup"
            \/ C!Secured(C!Todo, "backup", at)
        BY <1>1, <3>1 DEF C!KeepsCopy
      <3>3. CASE C!Secured(C!Todo, "backup", at)
        <4>1. "backup" \in made
          BY <1>2, <3>1, <3>3
        <4>2. at \notin C!Loses(C!Todo, "backup")
          BY <2>1, <3>1 DEF C!Loses
        <4>3. "backup" \in made'
          BY <4>1, <4>2, NextTouches DEF Touched
        <4>4. QED
          BY <3>1, <4>3
      <3>4. QED
        BY <3>1, <3>2, <3>3
    <2>4. QED
      BY <2>2, <2>3
  <1>4. ASSUME end' = "runs", C!Loses(C!Todo, "binary") \cap 1..(at' - 1) = {}
        PROVE  "binary" \notin gone'
    <2>1. CASE C!Next /\ end = "runs"
      <3>1. at \in DOMAIN C!Todo /\ at' \in {at + 1, at + C!Now.leap + 1} /\ C!Now.leap \in Nat
        BY <1>4, <2>1, Ahead
      <3>2. at \in Nat /\ at > 0
        BY DEF CmdTypeOK
      <3>3. at \in 1..(at' - 1) /\ 1..(at - 1) \subseteq 1..(at' - 1)
        BY <3>1, <3>2
      <3>4. at \notin C!Loses(C!Todo, "binary") /\ C!Loses(C!Todo, "binary") \cap 1..(at - 1) = {}
        BY <1>4, <3>3
      <3>5. "binary" \notin gone
        BY <2>1, <3>4 DEF CopyInv
      <3>6. QED
        BY <3>4, <3>5, NextTouches DEF Touched
    <2>2. CASE UNCHANGED gone /\ "binary" \notin gone
      BY <2>2
    <2>3. CASE UNCHANGED C!vars
      <3>1. UNCHANGED <<gone, at, end>>
        BY <2>3 DEF C!vars
      <3>2. QED
        BY <1>4, <3>1 DEF CopyInv
    <2>4. QED
      BY <1>4, <2>1, <2>2, <2>3, ThreeSteps
  <1>5. QED
    BY <1>3, <1>4

-----------------------------------------------------------------------------
(* The inductive invariant of a command, or of two.                        *)
Kept ==
    /\ CmdTypeOK /\ PlaceInv /\ ThereInv /\ AskInv
    /\ OnceInv /\ ToldInv /\ CopyInv

(* A command starts with all of this,                                      *)
LEMMA KeptInit ==
    ASSUME C!ScriptsKeepRules, C!Init PROVE Kept
  <1>1. CmdTypeOK
    BY TypeInit
  <1>2. at = 1
    BY DEF C!Init
  <1>3. owed = {}
    BY DEF C!Init
  <1>4. gone = {}
    BY DEF C!Init
  <1>5. changed = {}
    BY DEF C!Init
  <1>6. end = "runs"
    BY DEF C!Init
  <1>7. C!IsScript(C!Todo)
    BY <1>1, TodoRules
  <1>8. PlaceInv
    BY <1>2, <1>7, NothingBeforeOne DEF PlaceInv
  <1>9. ThereInv
    BY <1>2, <1>7, NothingBeforeOne DEF ThereInv
  <1>10. AskInv
    BY <1>5 DEF AskInv
  <1>11. OnceInv
    BY <1>3 DEF OnceInv
  <1>12. Hidden = {}
    BY <1>3 DEF Hidden
  <1>13. ToldInv
    BY <1>3, <1>12 DEF ToldInv
  <1>14. CopyInv
    BY <1>4 DEF CopyInv
  <1>15. QED
    BY <1>1, <1>8, <1>9, <1>10, <1>11, <1>13, <1>14 DEF Kept

(* and keeps it,                                                           *)
LEMMA KeptStep ==
    ASSUME C!ScriptsKeepRules, Kept, [C!Next]_(C!vars) PROVE Kept'
  <1>1. CmdTypeOK /\ PlaceInv /\ ThereInv /\ AskInv /\ OnceInv /\ ToldInv /\ CopyInv
    BY DEF Kept
  <1>2. CmdTypeOK' /\ PlaceInv' /\ ThereInv' /\ AskInv'
    BY <1>1, TypeStep, PlaceStep, ThereStep, AskStep
  <1>3. OnceInv' /\ ToldInv' /\ CopyInv'
    BY <1>1, OnceStep, ToldStep, CopyStep
  <1>4. QED
    BY <1>2, <1>3 DEF Kept

(* CommandState and Commands speak of the same grammar and promises,       *)
LEMMA SameFlags == C!G!Flags = G!Flags
  BY DEF C!G!Language, G!Language, C!G!New, G!New, C!G!Lifecycle, G!Lifecycle,
     C!G!Access, G!Access, C!G!Monitoring, G!Monitoring, C!G!Files, G!Files,
     C!G!Editor, G!Editor, C!G!Own, G!Own, C!G!GuiAction, G!GuiAction,
     C!G!VmAction, G!VmAction, C!G!BastionAction, G!BastionAction,
     C!G!ConfigAction, G!ConfigAction, C!G!HistoryAction, G!HistoryAction,
     C!G!EnvAction, G!EnvAction, C!G!SnapshotAction, G!SnapshotAction,
     C!G!StorageAction, G!StorageAction, C!G!KeysAction, G!KeysAction,
     C!G!AuthAction, G!AuthAction, C!G!TagAction, G!TagAction, C!G!ComposeAction,
     G!ComposeAction, C!G!GithubRunnerAction, G!GithubRunnerAction,
     C!G!TemplateAction, G!TemplateAction, C!G!AutopilotAction, G!AutopilotAction,
     C!G!DiskAction, G!DiskAction, C!G!IpAction, G!IpAction, C!G!WebAction,
     G!WebAction, C!G!CostsAction, G!CostsAction, C!G!DoitAction, G!DoitAction,
     C!G!SessionsAction, G!SessionsAction, C!G!AzdoitCli, G!AzdoitCli, C!G!Flags,
     G!Flags

LEMMA SamePromises ==
    /\ C!Prepared = Prepared
    /\ \A c, x : C!Concerns(c, x) = Concerns(c, x)
    /\ \A c, f : C!Untold(c, f) = Untold(c, f)
  <1>1. C!Prepared = Prepared
    BY DEF C!Prepared, Prepared
  <1>2. ASSUME NEW c, NEW x PROVE C!Concerns(c, x) = Concerns(c, x)
    BY SameFlags, Zenon DEF C!Concerns, Concerns, C!Credentials, Credentials,
       C!Prepared, Prepared
  <1>3. ASSUME NEW c, NEW f PROVE C!Untold(c, f) = Untold(c, f)
    BY Zenon DEF C!Untold, Untold
  <1>4. QED
    BY <1>1, <1>2, <1>3

(* which the invariant implies.                                            *)
LEMMA KeptSays ==
    ASSUME Kept
    PROVE  NothingUnasked /\ SuccessIsTold /\ KeptUntilReplaced
  <1>1. NothingUnasked
    <2>1. AskInv
      BY DEF Kept
    <2>2. ASSUME NEW x \in changed
          PROVE  /\ Concerns(cmd, x) =>
                      flags \cap {"yes", "force"} # {} \/ "all" \in agreed \/ x \in agreed
                 /\ "dry_run" \in flags => x \in Prepared
      BY <2>1, SamePromises DEF AskInv
    <2>3. QED
      BY <2>2 DEF NothingUnasked, Asked
  <1>2. SuccessIsTold
    BY SamePromises DEF Kept, ToldInv, SuccessIsTold, Hidden, Silent
  <1>3. KeptUntilReplaced
    BY DEF Kept, CopyInv, KeptUntilReplaced, C!Precious
  <1>4. QED
    BY <1>1, <1>2, <1>3

(* A command whose script keeps the rules keeps all of this, in its first  *)
(* run and in its second.                                                  *)
THEOREM KeptAlways == ASSUME C!ScriptsKeepRules PROVE C!Spec => []Kept
  <1>1. C!Init => Kept
    BY KeptInit
  <1>2. Kept /\ [C!Next]_(C!vars) => Kept'
    BY KeptStep
  <1>3. QED
    BY <1>1, <1>2, PTL DEF C!Spec

(* A command whose script has its prompt before each change it is about    *)
(* (Asks) changes nothing that its user was asked about without a yes, and *)
(* nothing in a dry run, whatever fails and however often it runs.         *)
THEOREM NothingIsUnasked == ASSUME C!ScriptsKeepRules PROVE C!Spec => []NothingUnasked
  <1>1. Kept => NothingUnasked
    BY KeptSays
  <1>2. QED
    BY <1>1, KeptAlways, PTL

(* A command whose script passes over no failure in silence, and over no   *)
(* change that is not made elsewhere (Tells), ends well only when all that *)
(* it and its first run set out to do is made, or told of.                 *)
THEOREM SuccessIsAlwaysTold == ASSUME C!ScriptsKeepRules PROVE C!Spec => []SuccessIsTold
  <1>1. Kept => SuccessIsTold
    BY KeptSays
  <1>2. QED
    BY <1>1, KeptAlways, PTL

(* A command whose script makes a copy before it takes the key or the      *)
(* binary away, and clears the copy away last (KeepsCopy), has one of the  *)
(* two at any time, wherever it or its second run is cut short.            *)
THEOREM CopyIsKept == ASSUME C!ScriptsKeepRules PROVE C!Spec => []KeptUntilReplaced
  <1>1. Kept => KeptUntilReplaced
    BY KeptSays
  <1>2. QED
    BY <1>1, KeptAlways, PTL

=============================================================================
