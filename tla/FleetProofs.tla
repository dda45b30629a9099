----------------------------- MODULE FleetProofs -----------------------------
(***************************************************************************)
(* Proofs about Fleet, for any group of VMs, any command and any number of *)
(* workers.                                                                *)
(***************************************************************************)
EXTENDS Fleet, FiniteSetTheorems, SequenceTheorems, TLAPS

-----------------------------------------------------------------------------
(* Sequences of the elements of a set. *)

LEMMA SeqsOfSet ==
    ASSUME NEW S, IsFiniteSet(S), NEW s \in SetToSeqs(S)
    PROVE  /\ s \in Seq(S) /\ DOMAIN s = 1..Len(s) /\ Range(s) = S
           /\ \A j, k \in DOMAIN s : s[j] = s[k] => j = k
           /\ Len(s) = Cardinality(S)
  <1>. DEFINE n == Cardinality(S)
  <1>1. n \in Nat
    BY FS_CardinalityType
  <1>2. s \in [1..n -> S] /\ \A j, k \in 1..n : j # k => s[j] # s[k]
    BY DEF SetToSeqs
  <1>3. s \in Injection(1..n, S)
    BY <1>2 DEF Injection, IsInjective
  <1>4. IsFiniteSet(1..n) /\ Cardinality(1..n) = n
    BY <1>1, FS_Interval
  <1>5. s \in Surjection(1..n, S)
    BY <1>3, <1>4, FS_Injection
  <1>6. \A x \in S : \E j \in 1..n : s[j] = x
    BY <1>5 DEF Surjection
  <1>7. Range(s) = S
    BY <1>2, <1>6 DEF Range
  <1>8. s \in Seq(S) /\ Len(s) = n
    BY <1>1, <1>2
  <1>. QED  BY <1>2, <1>7, <1>8

LEMMA VmsAreFinite == \A S \in SUBSET Vms : IsFiniteSet(S)
  <1>1. IsFiniteSet(Vms)
    BY FleetAssumption, FS_Interval DEF Vms
  <1>. QED  BY <1>1, FS_Subset

LEMMA JobIsTyped ==
    ASSUME NEW j \in Jobs
    PROVE  /\ j.kind \in Arm \cup Exec \cup {"sync"} /\ j.width \in Vms
           /\ j.gate \in BOOLEAN /\ j.smart \in BOOLEAN /\ j.retry \in BOOLEAN
           /\ j.count \in 0..Size /\ j.steps \in Seq(BOOLEAN)
           /\ j.kind = "workflow" => j.steps # <<>>
  BY FleetAssumption DEF Job

(* What First leaves of a sequence without repetitions. *)
LEMMA FirstOfSeq ==
    ASSUME job \in Jobs, NEW S, NEW s \in Seq(S), \A j, k \in DOMAIN s : s[j] = s[k] => j = k
    PROVE  /\ First(s) \in Seq(S) /\ Len(First(s)) <= Len(s) /\ Range(First(s)) \subseteq Range(s)
           /\ \A j \in DOMAIN First(s) : j \in DOMAIN s /\ First(s)[j] = s[j]
           /\ \A j, k \in DOMAIN First(s) : First(s)[j] = First(s)[k] => j = k
           /\ \A j \in DOMAIN First(s), k \in DOMAIN s : s[k] \notin Range(First(s)) => j < k
  <1>. DEFINE m == IF Len(s) < job.count THEN Len(s) ELSE job.count
  <1>1. m \in Nat /\ m <= Len(s) /\ Len(s) \in Nat /\ DOMAIN s = 1..Len(s)
    BY JobIsTyped, FleetAssumption
  <1>2. First(s) = SubSeq(s, 1, m)
    BY DEF First
  <1>3. \A j \in 1..m : s[j] \in S /\ j \in DOMAIN s
    BY <1>1
  <1>. HIDE DEF m
  <1>4. First(s) \in Seq(S) /\ Len(First(s)) = m /\ \A j \in 1..m : First(s)[j] = s[j]
    BY <1>1, <1>2, <1>3, SubSeqProperties
  <1>5. DOMAIN First(s) = 1..m
    BY <1>4
  <1>6. \A k \in DOMAIN s : s[k] \notin Range(First(s)) => k \notin 1..m
    BY <1>4, <1>5 DEF Range
  <1>7. Range(First(s)) \subseteq Range(s)
    BY <1>3, <1>4, <1>5 DEF Range
  <1>. QED  BY <1>1, <1>3, <1>4, <1>5, <1>6, <1>7

-----------------------------------------------------------------------------
(* The inductive invariant. *)

Stages == InHand \cup {"waiting", "answered"}
Selecting == {"start", "list", "probe"}
AtWork == {"launch", "pool", "joined"}

(* The items from next on have not been drawn.                             *)
Undrawn == \A k \in Items : k >= pool.next => pool.stage[k] = "waiting"

(* The pool is a record over its index, in which no target occurs twice.   *)
PoolInv ==
    /\ pool = [index |-> pool.index, next |-> pool.next, stage |-> pool.stage, slot |-> pool.slot]
    /\ pool.index \in Seq(Nat) /\ \A k \in Items : pool.index[k] \in DOMAIN targets
    /\ \A j, k \in Items : pool.index[j] = pool.index[k] => j = k
    /\ pool.next \in 1..(Len(pool.index) + 1)
    /\ pool.stage \in [Items -> Stages] /\ pool.slot \in [Items -> Answer \cup {"none"}]
    /\ Undrawn

TypeInv ==
    /\ host \in [Vms -> [chosen : BOOLEAN, bastion : BOOLEAN]]
    /\ job \in Jobs /\ at \in Ended \cup Selecting \cup AtWork
    /\ targets \in Seq(Vms) /\ Len(targets) <= Size
    /\ \A j, k \in DOMAIN targets : targets[j] = targets[k] => j = k
    /\ load \in [Vms -> 0..(Top + 1)]
    /\ PoolInv
    /\ ran \in [Vms -> [last : Answer \cup {"none"}, step : Nat]]
    /\ step \in {1} \cup DOMAIN job.steps

PhaseInv ==
    /\ at \in {"start", "list"} => targets = <<>>
    /\ at = "probe" => job.kind = "run" /\ Range(targets) = Chosen
    /\ at \in Selecting =>
         Items = {} /\ step = 1 /\ report = <<>> /\ \A v \in Vms : ran[v].step = 0
    /\ at \in AtWork => targets # <<>>
    /\ at = "launch" => report = <<>>
    /\ job.kind # "workflow" => step = 1

PaceInv ==
    /\ bucket = [tokens |-> bucket.tokens, issued |-> bucket.issued, ticks |-> bucket.ticks]
    /\ bucket.tokens \in 0..Burst /\ bucket.issued \in Nat /\ bucket.ticks \in Nat
    /\ bucket.issued + bucket.tokens = Burst + bucket.ticks

(* Each target, once the selection is done, belongs to it.                 *)
Belongs(v) ==
    /\ host[v].chosen
    /\ job.kind = "run" /\ job.gate => load[v] < Limit
    /\ job.kind = "run" /\ job.smart =>
         \A w \in Chosen \ Range(targets) :
             Before(w, v, load) => job.gate /\ load[w] >= Limit

ChoiceInv == at \notin Selecting => \A i \in DOMAIN targets : Belongs(targets[i])

Shown(i) == report[i] = ran[targets[i]].last /\ report[i] \in Answer
InPool(i) == \E k \in Items : pool.index[k] = i

(* While the pool works, the slot of an item that has answered holds its   *)
(* VM's last answer, and so does the report of a target that is not in the *)
(* pool.                                                                   *)
ReportInv ==
    /\ at = "pool" =>
         /\ \A k \in Items : Stage(k) = "answered" =>
              pool.slot[k] = ran[Vm(k)].last /\ pool.slot[k] \in Answer
         /\ \A i \in DOMAIN targets : InPool(i) \/ Shown(i)
         /\ report = <<>> => pool.index = All
         /\ report # <<>> => job.kind = "run"
    /\ at \in {"joined", "ok", "failed"} /\ report # <<>> => \A i \in DOMAIN targets : Shown(i)

(* No VM is ahead of the step, and none of the targets is behind it.       *)
TurnInv ==
    /\ \A v \in Vms : ran[v].step <= step
    /\ at = "launch" => \A v \in Vms : ran[v].step < step
    /\ at = "pool" => \A k \in Items :
         IF Stage(k) = "answered" THEN ran[Vm(k)].step = step
         ELSE ran[Vm(k)] # [last |-> "ok", step |-> step]
    /\ at \in AtWork => \A w \in Range(targets), k \in 1..(step - 1) :
         job.steps[k] => ran[w].step >= k
    /\ at = "joined" /\ job.kind = "workflow" /\ job.steps[step] =>
         \A w \in Range(targets) : ran[w].step >= step

IInv == TypeInv /\ PhaseInv /\ PaceInv /\ ChoiceInv /\ ReportInv /\ TurnInv

-----------------------------------------------------------------------------
(* The steps of the pool.  Only two things happen to an item in hand: it   *)
(* goes on, or its thread answers.                                         *)

Rest == UNCHANGED <<host, job, at, targets, load, report, step>>

Moved ==
    /\ Rest /\ UNCHANGED ran
    /\ pool' = [index |-> pool.index, next |-> pool'.next, stage |-> pool'.stage, slot |-> pool.slot]
    /\ pool'.next \in 1..(Len(pool.index) + 1) /\ pool'.stage \in [Items -> Stages]
    /\ \A k \in Items : pool'.stage[k] = "answered" <=> pool.stage[k] = "answered"
    /\ \A k \in Items : k >= pool'.next => pool'.stage[k] = "waiting"

Answered(i, a) ==
    /\ Rest /\ at = "pool" /\ i \in Items /\ a \in Answer /\ Stage(i) \in InHand
    /\ pool' = [index |-> pool.index, next |-> pool.next,
                stage |-> [pool.stage EXCEPT ![i] = "answered"],
                slot |-> [pool.slot EXCEPT ![i] = a]]
    /\ ran' = [ran EXCEPT ![Vm(i)] = [last |-> a, step |-> step]]

LEMMA EnterMoves ==
    ASSUME TypeInv, NEW i \in Items, NEW s \in InHand, Enter(i, s), Stage(i) \in InHand,
           Rest, UNCHANGED ran
    PROVE  Moved
  <1>1. pool' = [index |-> pool.index, next |-> pool.next,
                 stage |-> [pool.stage EXCEPT ![i] = s], slot |-> pool.slot]
    BY DEF Enter, TypeInv, PoolInv
  <1>2. pool'.next = pool.next /\ pool'.stage = [pool.stage EXCEPT ![i] = s]
    BY <1>1
  <1>3. pool.stage \in [Items -> Stages] /\ s \in Stages /\ s # "answered" /\ Stage(i) # "answered"
    BY DEF TypeInv, PoolInv, Stages, InHand
  <1>4. /\ [pool.stage EXCEPT ![i] = s] \in [Items -> Stages]
        /\ \A k \in Items : [pool.stage EXCEPT ![i] = s][k] = "answered" <=> pool.stage[k] = "answered"
    BY <1>3 DEF Stage
  <1>5. pool.next \in 1..(Len(pool.index) + 1)
    BY DEF TypeInv, PoolInv
  <1>6. \A k \in Items : k >= pool.next => [pool.stage EXCEPT ![i] = s][k] = "waiting"
    BY <1>3 DEF TypeInv, PoolInv, Undrawn, Stage, InHand
  <1>. QED  BY <1>1, <1>2, <1>4, <1>5, <1>6 DEF Moved

LEMMA AnswersAre ==
    ASSUME TypeInv, NEW i \in Items, NEW a \in Answer, Answers(i, a), Rest, at = "pool",
           Stage(i) \in InHand
    PROVE  Answered(i, a)
  <1>1. pool' = [index |-> pool.index, next |-> pool.next,
                 stage |-> [pool.stage EXCEPT ![i] = "answered"],
                 slot |-> [pool.slot EXCEPT ![i] = a]]
    BY DEF Answers, TypeInv, PoolInv
  <1>. QED  BY <1>1 DEF Answers, Answered

LEMMA ItemStep ==
    ASSUME TypeInv, at = "pool", NEW i \in Items, Item(i)
    PROVE  Moved \/ \E a \in Answer : Answered(i, a)
  <1>1. CASE Acquire(i)
    <2>1. Stage(i) \in InHand /\ {"link", "asleep"} \subseteq InHand
      BY <1>1 DEF Acquire, InHand
    <2>. QED  BY <1>1, <2>1, EnterMoves DEF Acquire, Rest
  <1>2. CASE Replies(i)
    BY <1>2, AnswersAre DEF Replies, Rest, InHand
  <1>3. CASE Begin(i)
    <2>1. Stage(i) \in InHand /\ {"running", "rerun"} \subseteq InHand
      BY <1>3 DEF Begin, InHand
    <2>. QED  BY <1>3, <2>1, EnterMoves DEF Begin, Rest
  <1>4. CASE Exit(i)
    BY <1>4, AnswersAre DEF Exit, Rest, InHand
  <1>5. CASE Lose(i)
    <2>1. Stage(i) \in InHand /\ "bad" \in Answer
      BY <1>5 DEF Lose, InHand, Answer
    <2>. QED  BY <1>5, <2>1, AnswersAre DEF Lose, Rest
  <1>6. CASE Deny(i)
    <2>1. Stage(i) \in InHand /\ "key" \in InHand /\ "bad" \in Answer
      BY <1>6 DEF Deny, InHand, Answer
    <2>. QED  BY <1>6, <2>1, EnterMoves, AnswersAre DEF Deny, Rest
  <1>7. CASE PushKey(i)
    <2>1. Stage(i) \in InHand /\ "relink" \in InHand /\ "bad" \in Answer
      BY <1>7 DEF PushKey, InHand, Answer
    <2>. QED  BY <1>7, <2>1, EnterMoves, AnswersAre DEF PushKey, Rest
  <1>. QED  BY <1>1, <1>2, <1>3, <1>4, <1>5, <1>6, <1>7 DEF Item

LEMMA StutterMoves ==
    ASSUME TypeInv, UNCHANGED vars
    PROVE  Moved
  BY DEF TypeInv, PoolInv, Undrawn, vars, Moved, Rest, Items

LEMMA TickMoves ==
    ASSUME TypeInv, Tick
    PROVE  Moved
  <1>. DEFINE f == [i \in Items |-> IF pool.stage[i] = "asleep" THEN "pace" ELSE pool.stage[i]]
  <1>1. pool' = [index |-> pool.index, next |-> pool.next, stage |-> f, slot |-> pool.slot]
    BY DEF Tick, TypeInv, PoolInv
  <1>2. f \in [Items -> Stages]
    BY DEF TypeInv, PoolInv, Stages, InHand
  <1>3. \A k \in Items : f[k] = "answered" <=> pool.stage[k] = "answered"
    OBVIOUS
  <1>4. pool.next \in 1..(Len(pool.index) + 1)
    BY DEF TypeInv, PoolInv
  <1>7. \A k \in Items : k >= pool.next => f[k] = "waiting"
    BY DEF TypeInv, PoolInv, Undrawn
  <1>. HIDE DEF f
  <1>5. pool'.next = pool.next /\ pool'.stage = f
    BY <1>1
  <1>6. Rest /\ UNCHANGED ran
    BY DEF Tick, Rest
  <1>. QED  BY <1>1, <1>2, <1>3, <1>4, <1>5, <1>6, <1>7 DEF Moved

LEMMA TakeMoves ==
    ASSUME TypeInv, Take
    PROVE  Moved
  <1>. DEFINE n == pool.next
              s == IF job.kind \in Arm THEN "pace" ELSE "link"
  <1>1. pool' = [index |-> pool.index, next |-> n + 1,
                 stage |-> [pool.stage EXCEPT ![n] = s], slot |-> pool.slot]
    BY DEF Take, TypeInv, PoolInv
  <1>2. pool'.next = n + 1 /\ pool'.stage = [pool.stage EXCEPT ![n] = s]
    BY <1>1
  <1>3. n \in Items /\ Items = 1..Len(pool.index) /\ Len(pool.index) \in Nat
    BY DEF Take, TypeInv, PoolInv, Items
  <1>4. n + 1 \in 1..(Len(pool.index) + 1)
    BY <1>3
  <1>10. Undrawn
    BY DEF TypeInv, PoolInv
  <1>5. s \in Stages /\ s # "answered" /\ pool.stage[n] # "answered"
    <2>1. pool.stage[n] = "waiting"
      BY <1>3, <1>10 DEF Undrawn
    <2>. QED  BY <2>1 DEF Stages, InHand
  <1>6. pool.stage \in [Items -> Stages]
    BY DEF TypeInv, PoolInv
  <1>. HIDE DEF s
  <1>7. /\ [pool.stage EXCEPT ![n] = s] \in [Items -> Stages]
        /\ \A k \in Items : [pool.stage EXCEPT ![n] = s][k] = "answered" <=> pool.stage[k] = "answered"
    BY <1>3, <1>5, <1>6
  <1>8. Rest /\ UNCHANGED ran
    BY DEF Take, Rest
  <1>9. \A k \in Items : k >= n + 1 => [pool.stage EXCEPT ![n] = s][k] = "waiting"
    BY <1>3, <1>6, <1>10 DEF Undrawn
  <1>. QED  BY <1>1, <1>2, <1>4, <1>7, <1>8, <1>9 DEF Moved

(* Every step: of the pool, or between pools. *)
LEMMA Steps ==
    ASSUME TypeInv, [Next]_vars
    PROVE  \/ Start \/ ListIds \/ ListTargets \/ Probe \/ Launch \/ Join \/ Conclude
           \/ Moved \/ \E i \in Items, a \in Answer : Answered(i, a)
  BY ItemStep, StutterMoves, TickMoves, TakeMoves DEF Next

(* A pool over an index without repetitions. *)
LEMMA PoolIsNew ==
    ASSUME NEW index \in Seq(Nat), pool' = Pool(index),
           \A k \in DOMAIN index : index[k] \in DOMAIN targets',
           \A j, k \in DOMAIN index : index[j] = index[k] => j = k
    PROVE  PoolInv'
  <1>. DEFINE stage == [k \in DOMAIN index |-> "waiting"]
              slot == [k \in DOMAIN index |-> "none"]
  <1>1. pool' = [index |-> index, next |-> 1, stage |-> stage, slot |-> slot]
    BY DEF Pool
  <1>2. pool'.index = index /\ pool'.next = 1 /\ pool'.stage = stage /\ pool'.slot = slot
    BY <1>1
  <1>3. stage \in [DOMAIN index -> Stages] /\ slot \in [DOMAIN index -> Answer \cup {"none"}]
    BY DEF Stages
  <1>4. 1 \in 1..(Len(index) + 1)
    OBVIOUS
  <1>5. \A k \in DOMAIN index : stage[k] = "waiting"
    OBVIOUS
  <1>. HIDE DEF stage, slot
  <1>. QED  BY <1>1, <1>2, <1>3, <1>4, <1>5 DEF PoolInv, Undrawn, Items

(* What a selection yields. *)
LEMMA SeqsOfVms ==
    ASSUME NEW S \in SUBSET Vms, NEW s \in SetToSeqs(S)
    PROVE  /\ s \in Seq(Vms) /\ Len(s) <= Size /\ Range(s) = S
           /\ \A j, k \in DOMAIN s : s[j] = s[k] => j = k
  <1>1. IsFiniteSet(S) /\ IsFiniteSet(Vms)
    BY VmsAreFinite
  <1>2. Cardinality(Vms) = Size
    BY FleetAssumption, FS_Interval DEF Vms
  <1>3. Cardinality(S) <= Size
    BY <1>1, <1>2, FS_Subset
  <1>4. s \in Seq(S)
    BY <1>1, SeqsOfSet
  <1>5. s \in Seq(Vms)
    BY <1>4
  <1>. QED  BY <1>1, <1>3, <1>5, SeqsOfSet

-----------------------------------------------------------------------------
(* Each part of the invariant holds at first and is kept by every step. *)

LEMMA InitInv == Init => IInv
  <1>. SUFFICES ASSUME Init PROVE IInv
    OBVIOUS
  <1>1. /\ pool = [index |-> <<>>, next |-> 1, stage |-> [i \in DOMAIN <<>> |-> "waiting"],
                   slot |-> [i \in DOMAIN <<>> |-> "none"]]
        /\ Items = {} /\ targets = <<>> /\ DOMAIN targets = {}
    BY DEF Init, Pool, Items
  <1>2. PoolInv
    BY <1>1 DEF PoolInv, Undrawn, Items
  <1>3. TypeInv
    BY <1>1, <1>2, FleetAssumption DEF Init, TypeInv, Selecting, Untouched
  <1>4. PhaseInv
    BY <1>1 DEF Init, PhaseInv, Selecting, AtWork, Untouched
  <1>5. PaceInv
    BY FleetAssumption DEF Init, PaceInv
  <1>6. ChoiceInv /\ ReportInv
    BY DEF Init, ChoiceInv, ReportInv, Selecting
  <1>7. TurnInv
    BY DEF Init, TurnInv, AtWork, Untouched
  <1>. QED  BY <1>3, <1>4, <1>5, <1>6, <1>7 DEF IInv

LEMMA MovedKeepsPool ==
    ASSUME PoolInv, Moved
    PROVE  PoolInv' /\ Items' = Items /\ pool'.index = pool.index /\ pool'.slot = pool.slot
  <1>. DEFINE n == pool'.next
              f == pool'.stage
  <1>1. pool' = [index |-> pool.index, next |-> n, stage |-> f, slot |-> pool.slot]
    BY DEF Moved
  <1>2. n \in 1..(Len(pool.index) + 1) /\ f \in [Items -> Stages] /\ targets' = targets
    BY DEF Moved, Rest
  <1>3. \A k \in Items : k >= n => f[k] = "waiting"
    BY DEF Moved
  <1>. HIDE DEF n, f
  <1>4. pool'.index = pool.index /\ pool'.slot = pool.slot /\ pool'.next = n /\ pool'.stage = f
    BY <1>1
  <1>5. Items' = Items
    BY <1>4 DEF Items
  <1>. QED  BY <1>1, <1>2, <1>3, <1>4, <1>5 DEF PoolInv, Undrawn, Items

LEMMA AnsweredKeepsPool ==
    ASSUME PoolInv, NEW i \in Items, NEW a \in Answer, Answered(i, a)
    PROVE  /\ PoolInv' /\ Items' = Items /\ pool'.index = pool.index
           /\ pool'.slot = [pool.slot EXCEPT ![i] = a]
           /\ pool'.stage = [pool.stage EXCEPT ![i] = "answered"]
  <1>. DEFINE f == [pool.stage EXCEPT ![i] = "answered"]
              g == [pool.slot EXCEPT ![i] = a]
  <1>1. pool' = [index |-> pool.index, next |-> pool.next, stage |-> f, slot |-> g]
    BY DEF Answered
  <1>2. f \in [Items -> Stages] /\ g \in [Items -> Answer \cup {"none"}] /\ targets' = targets
    BY DEF Answered, Rest, PoolInv, Stages
  <1>3. \A k \in Items : k >= pool.next => f[k] = "waiting"
    BY DEF Answered, PoolInv, Undrawn, Stage, InHand
  <1>. HIDE DEF f, g
  <1>4. pool'.index = pool.index /\ pool'.slot = g /\ pool'.next = pool.next /\ pool'.stage = f
    BY <1>1
  <1>5. Items' = Items
    BY <1>4 DEF Items
  <1>6. PoolInv'
    BY <1>1, <1>2, <1>3, <1>4, <1>5 DEF PoolInv, Undrawn, Items
  <1>. QED  BY <1>4, <1>5, <1>6 DEF f, g

(* The same pool over other targets, if it is empty. *)
LEMMA EmptyPool ==
    ASSUME PoolInv, Items = {}, UNCHANGED pool
    PROVE  PoolInv' /\ Items' = {}
  BY DEF PoolInv, Undrawn, Items

LEMMA SamePool ==
    ASSUME PoolInv, UNCHANGED <<pool, targets>>
    PROVE  PoolInv' /\ Items' = Items
  BY DEF PoolInv, Undrawn, Items

LEMMA ChosenAreVms == Chosen \in SUBSET Vms
  BY DEF Chosen

(* First of a sequence of VMs. *)
LEMMA FirstOfVms ==
    ASSUME job \in Jobs, NEW S \in SUBSET Vms, NEW s \in SetToSeqs(S)
    PROVE  /\ First(s) \in Seq(Vms) /\ Len(First(s)) <= Size /\ Range(First(s)) \subseteq S
           /\ \A j, k \in DOMAIN First(s) : First(s)[j] = First(s)[k] => j = k
  <1>1. /\ s \in Seq(Vms) /\ Len(s) <= Size /\ Range(s) = S
        /\ \A j, k \in DOMAIN s : s[j] = s[k] => j = k
    BY SeqsOfVms
  <1>2. /\ First(s) \in Seq(Vms) /\ Len(First(s)) <= Len(s) /\ Range(First(s)) \subseteq Range(s)
        /\ \A j, k \in DOMAIN First(s) : First(s)[j] = First(s)[k] => j = k
    BY <1>1, FirstOfSeq
  <1>. HIDE DEF First
  <1>3. Len(First(s)) \in Nat /\ Len(s) \in Nat /\ Size \in Nat
    BY <1>1, <1>2, FleetAssumption
  <1>. QED  BY <1>1, <1>2, <1>3

(* The items that did not succeed, as an index of the next pool. *)
LEMMA AgainIsIndex ==
    ASSUME PoolInv, NEW again \in InOrder(Failed)
    PROVE  /\ again \in Seq(Nat) /\ Range(again) = Failed /\ Failed \subseteq Items
           /\ \A j, k \in DOMAIN again : again[j] = again[k] => j = k
  <1>1. Items = 1..Len(pool.index) /\ Len(pool.index) \in Nat
    BY DEF PoolInv, Items
  <1>2. IsFiniteSet(Items)
    BY <1>1, FS_Interval
  <1>3. Failed \subseteq Items
    BY DEF Failed
  <1>4. IsFiniteSet(Failed)
    BY <1>2, <1>3, FS_Subset
  <1>5. again \in SetToSeqs(Failed)
    BY DEF InOrder
  <1>6. again \in Seq(Failed)
    BY <1>4, <1>5, SeqsOfSet
  <1>7. \A x \in Failed : x \in Nat
    BY <1>1, <1>3
  <1>8. again \in Seq(Nat)
    BY <1>6, <1>7
  <1>. QED  BY <1>3, <1>4, <1>5, <1>8, SeqsOfSet

LEMMA TypeStep ==
    ASSUME TypeInv, PhaseInv, ReportInv, [Next]_vars
    PROVE  TypeInv'
  <1>1. CASE Start
    <2>1. PoolInv'
      BY <1>1, SamePool DEF Start, TypeInv
    <2>. QED  BY <1>1, <2>1 DEF Start, TypeInv, Ended, Selecting
  <1>2. CASE ListIds
    <2>1. Items = {}
      BY <1>2 DEF ListIds, PhaseInv, Selecting
    <2>2. PoolInv'
      BY <1>2, <2>1, EmptyPool DEF ListIds, TypeInv
    <2>3. /\ targets' \in Seq(Vms) /\ Len(targets') <= Size
          /\ \A j, k \in DOMAIN targets' : targets'[j] = targets'[k] => j = k
      BY <1>2, SeqsOfVms, ChosenAreVms DEF ListIds, TypeInv
    <2>. QED  BY <1>2, <2>2, <2>3 DEF ListIds, TypeInv, Ended, AtWork
  <1>3. CASE ListTargets
    <2>1. Items = {}
      BY <1>3 DEF ListTargets, PhaseInv, Selecting
    <2>2. PoolInv'
      BY <1>3, <2>1, EmptyPool DEF ListTargets, TypeInv
    <2>3. job \in Jobs
      BY DEF TypeInv
    <2>4. /\ targets' \in Seq(Vms) /\ Len(targets') <= Size
          /\ \A j, k \in DOMAIN targets' : targets'[j] = targets'[k] => j = k
      <3>1. CASE UNCHANGED targets
        BY <3>1 DEF TypeInv
      <3>2. CASE \E all \in InOrder(Chosen) : targets' = IF Probes THEN all ELSE First(all)
        BY <2>3, <3>2, SeqsOfVms, FirstOfVms, ChosenAreVms DEF InOrder
      <3>. QED  BY <1>3, <3>1, <3>2 DEF ListTargets
    <2>5. at' \in Ended \cup Selecting \cup AtWork
      BY <1>3 DEF ListTargets, Ended, Selecting, AtWork
    <2>. QED  BY <1>3, <2>2, <2>4, <2>5 DEF ListTargets, TypeInv
  <1>4. CASE Probe
    <2>1. Items = {}
      BY <1>4 DEF Probe, PhaseInv, Selecting
    <2>2. PoolInv'
      BY <1>4, <2>1, EmptyPool DEF Probe, TypeInv
    <2>3. job \in Jobs /\ Range(targets) \in SUBSET Vms
      BY DEF TypeInv, Range
    <2>4. PICK l \in [Range(targets) -> 0..(Top + 1)] :
            LET kept == {v \in Range(targets) : Passes(v, l)} IN
            /\ \E s \in IF job.smart THEN LeastFirst(kept, l) ELSE InOrder(kept) :
                 /\ targets' = First(s)
                 /\ at' = IF First(s) = <<>> THEN "none" ELSE "launch"
            /\ load' = [v \in Vms |-> IF v \in Range(targets) THEN l[v] ELSE 0]
      BY <1>4 DEF Probe
    <2>5. load' \in [Vms -> 0..(Top + 1)]
      BY <2>4, FleetAssumption
    <2>6. /\ targets' \in Seq(Vms) /\ Len(targets') <= Size
          /\ \A j, k \in DOMAIN targets' : targets'[j] = targets'[k] => j = k
      BY <2>3, <2>4, FirstOfVms DEF InOrder, LeastFirst
    <2>7. at' \in Ended \cup Selecting \cup AtWork
      BY <2>4 DEF Ended, AtWork
    <2>. QED  BY <1>4, <2>2, <2>5, <2>6, <2>7 DEF Probe, TypeInv
  <1>5. CASE Launch
    <2>1. PoolInv'
      <3>1. CASE UNCHANGED pool
        BY <1>5, <3>1, SamePool DEF Launch, TypeInv
      <3>2. CASE pool' = Pool(All)
        <4>1. DOMAIN targets \subseteq Nat /\ DOMAIN targets = 1..Len(targets) /\ targets' = targets
          BY <1>5 DEF TypeInv, Launch
        <4>2. All \in Seq(Nat) /\ DOMAIN All = DOMAIN targets /\ \A k \in DOMAIN All : All[k] = k
          BY <4>1 DEF All
        <4>. QED  BY <3>2, <4>1, <4>2, PoolIsNew
      <3>. QED  BY <1>5, <3>1, <3>2 DEF Launch
    <2>. QED  BY <1>5, <2>1 DEF Launch, TypeInv, AtWork
  <1>6. CASE Join
    <2>1. PoolInv'
      <3>1. CASE UNCHANGED pool
        BY <1>6, <3>1, SamePool DEF Join, TypeInv
      <3>2. CASE FirstRound /\ \E again \in InOrder(Failed) : pool' = Pool(again)
        <4>1. pool.index = All
          BY <1>6, <3>2 DEF Join, FirstRound, ReportInv
        <4>2. Items = DOMAIN targets /\ targets' = targets
          BY <1>6, <4>1 DEF Items, All, Join
        <4>3. PICK again \in InOrder(Failed) : pool' = Pool(again)
          BY <3>2
        <4>4. /\ again \in Seq(Nat) /\ \A j, k \in DOMAIN again : again[j] = again[k] => j = k
              /\ \A k \in DOMAIN again : again[k] \in DOMAIN targets'
          BY <4>2, AgainIsIndex DEF TypeInv, Range
        <4>. QED  BY <4>3, <4>4, PoolIsNew
      <3>. QED  BY <1>6, <3>1, <3>2 DEF Join
    <2>. QED  BY <1>6, <2>1 DEF Join, TypeInv, AtWork
  <1>7. CASE Conclude
    <2>1. PoolInv'
      BY <1>7, SamePool DEF Conclude, TypeInv
    <2>2. step' \in {1} \cup DOMAIN job.steps
      BY <1>7, JobIsTyped DEF Conclude, TypeInv
    <2>. QED  BY <1>7, <2>1, <2>2 DEF Conclude, TypeInv, AtWork, Ended
  <1>8. CASE Moved
    BY <1>8, MovedKeepsPool DEF TypeInv, Moved, Rest
  <1>9. ASSUME NEW i \in Items, NEW a \in Answer, Answered(i, a)
        PROVE  TypeInv'
    <2>1. PoolInv'
      BY <1>9, AnsweredKeepsPool DEF TypeInv
    <2>2. step \in Nat
      BY JobIsTyped DEF TypeInv
    <2>3. ran' = [ran EXCEPT ![Vm(i)] = [last |-> a, step |-> step]]
      BY <1>9 DEF Answered
    <2>4. ran' \in [Vms -> [last : Answer \cup {"none"}, step : Nat]]
      BY <2>2, <2>3 DEF TypeInv
    <2>. QED  BY <1>9, <2>1, <2>4 DEF TypeInv, Answered, Rest
  <1>. QED  BY <1>1, <1>2, <1>3, <1>4, <1>5, <1>6, <1>7, <1>8, <1>9, Steps

LEMMA PhaseStep ==
    ASSUME TypeInv, PhaseInv, ReportInv, [Next]_vars
    PROVE  PhaseInv'
  <1>. USE DEF PhaseInv, Selecting, AtWork
  <1>1. CASE Start
    BY <1>1 DEF Start, Items
  <1>2. CASE ListIds
    BY <1>2 DEF ListIds, Items
  <1>3. CASE ListTargets
    <2>1. CASE at' = "failed" /\ UNCHANGED targets
      BY <1>3, <2>1 DEF ListTargets, Items
    <2>2. ASSUME NEW all \in InOrder(Chosen), targets' = IF Probes THEN all ELSE First(all),
                 at' = IF Probes THEN "probe" ELSE IF targets' = <<>> THEN "none" ELSE "launch"
          PROVE  PhaseInv'
      <3>1. Range(all) = Chosen
        BY SeqsOfVms, ChosenAreVms DEF InOrder
      <3>2. Chosen' = Chosen
        BY <1>3 DEF ListTargets, Chosen
      <3>3. Probes => at' = "probe" /\ targets' = all /\ job.kind = "run"
        BY <2>2 DEF Probes
      <3>4. ~ Probes => at' \in {"none", "launch"} /\ (at' = "launch" => targets' # <<>>)
        BY <2>2
      <3>. QED  BY <1>3, <3>1, <3>2, <3>3, <3>4 DEF ListTargets, Items
    <2>. QED  BY <1>3, <2>1, <2>2 DEF ListTargets
  <1>4. CASE Probe
    BY <1>4 DEF Probe, Items
  <1>5. CASE Launch
    BY <1>5 DEF Launch, Items
  <1>6. CASE Join
    BY <1>6 DEF Join, Items
  <1>7. CASE Conclude
    BY <1>7 DEF Conclude, Items
  <1>8. CASE Moved
    <2>1. Items' = Items
      BY <1>8, MovedKeepsPool DEF TypeInv
    <2>. QED  BY <1>8, <2>1 DEF Moved, Rest, Chosen
  <1>9. CASE \E i \in Items, a \in Answer : Answered(i, a)
    BY <1>9 DEF Answered, Rest
  <1>. QED  BY <1>1, <1>2, <1>3, <1>4, <1>5, <1>6, <1>7, <1>8, <1>9, Steps

LEMMA PaceStep ==
    ASSUME PaceInv, [Next]_vars
    PROVE  PaceInv'
  <1>. DEFINE t == bucket.tokens
              n == bucket.issued
              c == bucket.ticks
  <1>1. /\ bucket = [tokens |-> t, issued |-> n, ticks |-> c]
        /\ t \in 0..Burst /\ n \in Nat /\ c \in Nat /\ n + t = Burst + c /\ Burst \in Nat
    BY FleetAssumption DEF PaceInv
  <1>2. CASE UNCHANGED bucket
    BY <1>2 DEF PaceInv
  <1>3. CASE t > 0 /\ bucket' = [bucket EXCEPT !.tokens = @ - 1, !.issued = @ + 1]
    <2>1. bucket' = [tokens |-> t - 1, issued |-> n + 1, ticks |-> c]
      BY <1>1, <1>3
    <2>2. bucket'.tokens = t - 1 /\ bucket'.issued = n + 1 /\ bucket'.ticks = c
      BY <2>1
    <2>3. t - 1 \in 0..Burst /\ n + 1 \in Nat /\ n + 1 + (t - 1) = Burst + c
      BY <1>1, <1>3
    <2>. QED  BY <1>1, <2>1, <2>2, <2>3 DEF PaceInv
  <1>4. CASE t < Burst /\ bucket' = [bucket EXCEPT !.tokens = @ + 1, !.ticks = @ + 1]
    <2>1. bucket' = [tokens |-> t + 1, issued |-> n, ticks |-> c + 1]
      BY <1>1, <1>4
    <2>2. bucket'.tokens = t + 1 /\ bucket'.issued = n /\ bucket'.ticks = c + 1
      BY <2>1
    <2>3. t + 1 \in 0..Burst /\ c + 1 \in Nat /\ n + (t + 1) = Burst + (c + 1)
      BY <1>1, <1>4
    <2>. QED  BY <1>1, <2>1, <2>2, <2>3 DEF PaceInv
  <1>5. ASSUME NEW i, Item(i) PROVE PaceInv'
    BY <1>2, <1>3, <1>5 DEF Item, Acquire, Replies, Begin, Exit, Lose, Deny, PushKey
  <1>. QED  BY <1>2, <1>4, <1>5 DEF Next, Start, ListIds, ListTargets, Probe, Launch, Take, Tick,
                                    Join, Conclude, vars

(* The order of --smart-route is asymmetric. *)
LEMMA BeforeIsAsymmetric ==
    ASSUME NEW S \in SUBSET Vms, NEW l \in [S -> 0..(Top + 1)], NEW v \in S, NEW w \in S,
           Before(v, w, l)
    PROVE  ~ Before(w, v, l)
  <1>1. l[v] \in Nat /\ l[w] \in Nat /\ v \in Nat /\ w \in Nat
    BY FleetAssumption DEF Vms
  <1>. QED  BY <1>1 DEF Before

LEMMA ChoiceStep ==
    ASSUME TypeInv, PhaseInv, ChoiceInv, [Next]_vars
    PROVE  ChoiceInv'
  <1>. USE DEF ChoiceInv, Selecting
  <1>1. ASSUME UNCHANGED <<host, job, load, targets>>, at \notin Selecting PROVE ChoiceInv'
    BY <1>1 DEF Belongs, Before, Chosen
  <1>2. CASE Start
    BY <1>2 DEF Start, PhaseInv
  <1>3. CASE ListIds
    <2>1. CASE UNCHANGED targets
      BY <1>3, <2>1 DEF ListIds, PhaseInv
    <2>2. ASSUME NEW s \in SetToSeqs(Chosen), targets' = s PROVE ChoiceInv'
      <3>1. Range(targets') = Chosen /\ job.kind # "run" /\ UNCHANGED <<host, job>>
        BY <1>3, <2>2, SeqsOfVms, ChosenAreVms DEF ListIds, Arm
      <3>. QED  BY <3>1 DEF Belongs, Chosen, Range
    <2>. QED  BY <1>3, <2>1, <2>2 DEF ListIds
  <1>4. CASE ListTargets
    <2>1. CASE UNCHANGED targets
      BY <1>4, <2>1 DEF ListTargets, PhaseInv
    <2>2. ASSUME NEW all \in InOrder(Chosen), targets' = IF Probes THEN all ELSE First(all),
                 at' = IF Probes THEN "probe" ELSE IF targets' = <<>> THEN "none" ELSE "launch"
          PROVE  ChoiceInv'
      <3>1. CASE Probes
        BY <2>2, <3>1
      <3>2. CASE ~ Probes
        <4>1. Range(targets') \subseteq Chosen /\ UNCHANGED <<host, job>>
          BY <1>4, <2>2, <3>2, FirstOfVms, ChosenAreVms DEF ListTargets, InOrder, TypeInv
        <4>. QED  BY <3>2, <4>1 DEF Belongs, Chosen, Range, Probes
      <3>. QED  BY <3>1, <3>2
    <2>. QED  BY <1>4, <2>1, <2>2 DEF ListTargets
  <1>5. CASE Probe
    <2>1. Range(targets) = Chosen /\ UNCHANGED <<host, job>> /\ job \in Jobs /\ Chosen' = Chosen
      BY <1>5 DEF Probe, PhaseInv, TypeInv, Chosen
    <2>9. PICK l \in [Chosen -> 0..(Top + 1)] :
            LET kept == {v \in Chosen : Passes(v, l)} IN
            /\ \E s \in IF job.smart THEN LeastFirst(kept, l) ELSE InOrder(kept) :
                 targets' = First(s)
            /\ load' = [v \in Vms |-> IF v \in Chosen THEN l[v] ELSE 0]
      BY <1>5, <2>1 DEF Probe
    <2>. DEFINE kept == {v \in Chosen : Passes(v, l)}
    <2>2. PICK s \in IF job.smart THEN LeastFirst(kept, l) ELSE InOrder(kept) :
            /\ targets' = First(s)
            /\ load' = [v \in Vms |-> IF v \in Chosen THEN l[v] ELSE 0]
      BY <2>9
    <2>3. s \in SetToSeqs(kept) /\ kept \in SUBSET Vms /\ kept \subseteq Chosen
      BY <2>2, ChosenAreVms DEF LeastFirst, InOrder
    <2>4. job.smart => \A j, k \in DOMAIN s : j < k => Before(s[j], s[k], l)
      BY <2>2 DEF LeastFirst
    <2>5. Range(targets') \subseteq kept
      BY <2>1, <2>2, <2>3, FirstOfVms
    <2>6. \A v \in Chosen : load'[v] = l[v]
      BY <2>2, ChosenAreVms
    <2>7. ASSUME NEW v \in Range(targets'), NEW w \in Chosen \ Range(targets'),
                 job.smart, Before(w, v, load')
          PROVE  job.gate /\ load'[w] >= Limit
      <3>1. v \in kept /\ v \in Chosen /\ w \in Chosen
        BY <2>3, <2>5
      <3>2. Before(w, v, l)
        BY <2>6, <2>7, <3>1 DEF Before
      <3>3. w \notin kept
        <4>1. SUFFICES ASSUME w \in kept PROVE FALSE
          OBVIOUS
        <4>2. /\ s \in Seq(Vms) /\ Range(s) = kept
              /\ \A j, k \in DOMAIN s : s[j] = s[k] => j = k
          BY <2>3, SeqsOfVms
        <4>3. PICK k \in DOMAIN s : s[k] = w
          BY <4>1, <4>2 DEF Range
        <4>4. PICK j \in DOMAIN First(s) : First(s)[j] = v
          BY <2>2 DEF Range
        <4>5. /\ j \in DOMAIN s /\ s[j] = v
              /\ s[k] \notin Range(First(s)) => j < k
          BY <2>1, <4>2, <4>3, <4>4, FirstOfSeq
        <4>6. Before(v, w, l)
          BY <2>2, <2>4, <2>7, <4>3, <4>5
        <4>. QED  BY <3>1, <3>2, <4>6, BeforeIsAsymmetric, ChosenAreVms
      <3>4. job.gate /\ ~ (l[w] < Limit)
        BY <3>1, <3>3 DEF Passes
      <3>5. l[w] \in Nat /\ Limit \in Nat
        BY <2>2, <3>1, FleetAssumption
      <3>. QED  BY <2>6, <3>1, <3>4, <3>5
    <2>8. ASSUME NEW v \in Range(targets') PROVE Belongs(v)'
      <3>1. v \in Chosen /\ Passes(v, l) /\ host[v].chosen
        BY <2>5 DEF Chosen
      <3>2. job.gate => load'[v] < Limit
        BY <2>6, <3>1 DEF Passes
      <3>3. host' = host /\ job' = job /\ Chosen' = Chosen
        BY <2>1
      <3>4. job'.smart => \A w \in Chosen' \ Range(targets') :
                Before(w, v, load') => job'.gate /\ load'[w] >= Limit
        BY <2>7, <3>3
      <3>. QED  BY <3>1, <3>2, <3>3, <3>4 DEF Belongs, Before
    <2>. QED  BY <2>8 DEF Range
  <1>6. CASE Launch
    BY <1>1, <1>6 DEF Launch
  <1>7. CASE Join
    BY <1>1, <1>7 DEF Join
  <1>8. CASE Conclude
    BY <1>1, <1>8 DEF Conclude
  <1>9. CASE Moved
    BY <1>1, <1>9 DEF Moved, Rest
  <1>10. CASE \E i \in Items, a \in Answer : Answered(i, a)
    BY <1>1, <1>10 DEF Answered, Rest
  <1>. QED  BY <1>2, <1>3, <1>4, <1>5, <1>6, <1>7, <1>8, <1>9, <1>10, Steps

(* Two items, or two targets, are two VMs. *)
LEMMA VmsAreDistinct ==
    ASSUME TypeInv
    PROVE  /\ \A i \in DOMAIN targets : targets[i] \in Vms
           /\ \A k \in Items : Vm(k) \in Vms /\ Vm(k) = targets[pool.index[k]]
                               /\ pool.index[k] \in DOMAIN targets
           /\ \A j, k \in Items : Vm(j) = Vm(k) => j = k
           /\ \A i \in DOMAIN targets, k \in Items : targets[i] = Vm(k) => pool.index[k] = i
  <1>1. targets \in Seq(Vms) /\ \A j, k \in DOMAIN targets : targets[j] = targets[k] => j = k
    BY DEF TypeInv
  <1>2. /\ \A k \in Items : pool.index[k] \in DOMAIN targets
        /\ \A j, k \in Items : pool.index[j] = pool.index[k] => j = k
    BY DEF TypeInv, PoolInv
  <1>. QED  BY <1>1, <1>2 DEF Vm

(* When every item has answered, the slots are each target's last answer.  *)
LEMMA SlotsAreLast ==
    ASSUME TypeInv, ReportInv, at = "pool", \A k \in Items : Stage(k) = "answered",
           NEW i \in DOMAIN targets
    PROVE  Slots[i] = ran[targets[i]].last /\ Slots[i] \in Answer
  <1>1. CASE InPool(i)
    <2>. DEFINE k == CHOOSE j \in Items : pool.index[j] = i
    <2>1. k \in Items /\ pool.index[k] = i
      BY <1>1 DEF InPool
    <2>2. Slots[i] = pool.slot[k]
      BY <1>1 DEF Slots, InPool
    <2>. HIDE DEF k
    <2>. QED  BY <2>1, <2>2 DEF ReportInv, Vm
  <1>2. CASE ~ InPool(i)
    <2>1. Slots[i] = report[i]
      BY <1>2 DEF Slots, InPool
    <2>. QED  BY <1>2, <2>1 DEF ReportInv, Shown
  <1>. QED  BY <1>1, <1>2

LEMMA ReportStep ==
    ASSUME TypeInv, PhaseInv, ReportInv, [Next]_vars
    PROVE  ReportInv'
  <1>1. CASE Start
    BY <1>1 DEF Start, ReportInv
  <1>2. CASE ListIds
    BY <1>2 DEF ListIds, PhaseInv, Selecting, ReportInv
  <1>3. CASE ListTargets
    BY <1>3 DEF ListTargets, PhaseInv, Selecting, ReportInv
  <1>4. CASE Probe
    BY <1>4 DEF Probe, PhaseInv, Selecting, ReportInv
  <1>5. CASE Launch
    <2>1. report' = <<>> /\ targets' = targets
      BY <1>5 DEF Launch, PhaseInv
    <2>2. CASE at' = "joined"
      BY <2>1, <2>2 DEF ReportInv
    <2>3. CASE at' = "pool" /\ pool' = Pool(All)
      <3>1. pool'.index = All /\ pool'.stage = [k \in DOMAIN All |-> "waiting"]
        BY <2>3 DEF Pool
      <3>2. DOMAIN All = DOMAIN targets /\ \A k \in DOMAIN All : All[k] = k
        BY DEF All
      <3>3. All' = All
        BY <2>1 DEF All
      <3>. QED  BY <2>1, <2>3, <3>1, <3>2, <3>3 DEF ReportInv, Stage, Items, InPool
    <2>. QED  BY <1>5, <2>2, <2>3 DEF Launch
  <1>6. CASE Join
    <2>1. /\ at = "pool" /\ \A k \in Items : Stage(k) = "answered"
          /\ report' = Slots /\ targets' = targets /\ ran' = ran /\ job' = job
      BY <1>6 DEF Join
    <2>2. \A i \in DOMAIN targets : Shown(i)'
      BY <2>1, SlotsAreLast DEF Shown
    <2>3. CASE at' = "joined"
      BY <2>1, <2>2, <2>3 DEF ReportInv
    <2>4. CASE job.kind = "run" /\ at' = at /\ \E again \in InOrder(Failed) : pool' = Pool(again)
      <3>1. PICK again \in InOrder(Failed) : pool' = Pool(again)
        BY <2>4
      <3>2. pool'.index = again /\ pool'.stage = [k \in DOMAIN again |-> "waiting"]
        BY <3>1 DEF Pool
      <3>3. report' # <<>>
        <4>1. targets # <<>> /\ targets \in Seq(Vms)
          BY <2>1 DEF PhaseInv, AtWork, TypeInv
        <4>2. 1 \in DOMAIN report'
          BY <2>1, <4>1 DEF Slots
        <4>. QED  BY <4>2
      <3>. QED  BY <2>1, <2>2, <2>4, <3>2, <3>3 DEF ReportInv, Stage, Items
    <2>. QED  BY <1>6, <2>3, <2>4 DEF Join
  <1>7. CASE Conclude
    BY <1>7 DEF Conclude, ReportInv, Shown
  <1>8. CASE Moved
    <2>1. Items' = Items /\ pool'.index = pool.index /\ pool'.slot = pool.slot
      BY <1>8, MovedKeepsPool DEF TypeInv
    <2>2. UNCHANGED <<job, at, targets, report, ran>>
      BY <1>8 DEF Moved, Rest
    <2>3. \A k \in Items : Stage(k)' = "answered" => Stage(k) = "answered"
      BY <1>8 DEF Moved, Stage
    <2>. QED  BY <2>1, <2>2, <2>3 DEF ReportInv, Shown, InPool, Vm, All
  <1>9. ASSUME NEW i \in Items, NEW a \in Answer, Answered(i, a)
        PROVE  ReportInv'
    <2>1. /\ Items' = Items /\ pool'.index = pool.index
          /\ pool'.slot = [pool.slot EXCEPT ![i] = a]
          /\ pool'.stage = [pool.stage EXCEPT ![i] = "answered"]
      BY <1>9, AnsweredKeepsPool DEF TypeInv
    <2>2. UNCHANGED <<job, at, targets, report>> /\ at = "pool"
      BY <1>9 DEF Answered, Rest
    <2>3. ran' = [ran EXCEPT ![Vm(i)] = [last |-> a, step |-> step]]
      BY <1>9 DEF Answered
    <2>4. /\ ran'[Vm(i)].last = a /\ pool'.slot[i] = a
          /\ \A v \in Vms \ {Vm(i)} : ran'[v] = ran[v]
          /\ \A k \in Items \ {i} : pool'.slot[k] = pool.slot[k] /\ pool'.stage[k] = pool.stage[k]
      BY <2>1, <2>3, VmsAreDistinct DEF TypeInv, PoolInv
    <2>5. ASSUME NEW k \in Items, Stage(k)' = "answered"
          PROVE  pool'.slot[k] = ran'[Vm(k)].last /\ pool'.slot[k] \in Answer
      <3>1. CASE k = i
        BY <2>4, <3>1
      <3>2. CASE k # i
        <4>1. Vm(k) \in Vms \ {Vm(i)}
          BY <3>2, VmsAreDistinct
        <4>2. Stage(k) = "answered"
          BY <2>4, <2>5, <3>2 DEF Stage
        <4>. QED  BY <2>2, <2>4, <3>2, <4>1, <4>2 DEF ReportInv
      <3>. QED  BY <3>1, <3>2
    <2>6. ASSUME NEW j \in DOMAIN targets, ~ InPool(j)
          PROVE  Shown(j)'
      <3>1. targets[j] \in Vms \ {Vm(i)}
        BY <2>6, VmsAreDistinct DEF InPool
      <3>. QED  BY <2>2, <2>4, <2>6, <3>1 DEF ReportInv, Shown
    <2>7. \A k \in Items : Vm(k)' = Vm(k)
      BY <2>1, <2>2 DEF Vm
    <2>. QED  BY <2>1, <2>2, <2>5, <2>6, <2>7 DEF ReportInv, InPool, All
  <1>. QED  BY <1>1, <1>2, <1>3, <1>4, <1>5, <1>6, <1>7, <1>8, <1>9, Steps

LEMMA TurnStep ==
    ASSUME TypeInv, PhaseInv, ReportInv, TurnInv, [Next]_vars
    PROVE  TurnInv'
  <1>1. step \in Nat \ {0} /\ \A v \in Vms : ran[v].step \in Nat
    BY JobIsTyped DEF TypeInv
  <1>2. ASSUME UNCHANGED <<job, ran, step>>, at \in Selecting, at' \notin {"pool", "joined"}
        PROVE  TurnInv'
    <2>1. step = 1 /\ \A v \in Vms : ran[v].step = 0
      BY <1>2 DEF PhaseInv
    <2>. QED  BY <1>2, <2>1 DEF TurnInv
  <1>3. CASE Start
    BY <1>2, <1>3 DEF Start, Selecting
  <1>4. CASE ListIds
    BY <1>2, <1>4 DEF ListIds, Selecting
  <1>5. CASE ListTargets
    BY <1>2, <1>5 DEF ListTargets, Selecting
  <1>6. CASE Probe
    BY <1>2, <1>6 DEF Probe, Selecting
  <1>7. CASE Launch
    <2>1. /\ \A v \in Vms : ran[v].step <= step /\ ran[v].step < step
          /\ \A w \in Range(targets), k \in 1..(step - 1) : job.steps[k] => ran[w].step >= k
          /\ UNCHANGED <<job, ran, step, targets>>
      BY <1>7 DEF Launch, TurnInv, AtWork
    <2>2. CASE at' = "joined" /\ ~ job.steps[step]
      BY <2>1, <2>2 DEF TurnInv
    <2>3. CASE at' = "pool" /\ pool' = Pool(All)
      <3>1. pool'.index = All /\ pool'.stage = [k \in DOMAIN All |-> "waiting"]
        BY <2>3 DEF Pool
      <3>2. \A k \in Items' : Stage(k)' # "answered" /\ Vm(k)' \in Vms
        BY <2>1, <3>1 DEF Items, Stage, Vm, All, TypeInv
      <3>3. \A v \in Vms : ran[v] # [last |-> "ok", step |-> step]
        BY <1>1, <2>1
      <3>. QED  BY <2>1, <2>3, <3>2, <3>3 DEF TurnInv
    <2>. QED  BY <1>7, <2>2, <2>3 DEF Launch
  <1>8. CASE Join
    <2>1. /\ at = "pool" /\ \A k \in Items : Stage(k) = "answered"
          /\ UNCHANGED <<job, ran, step, targets>>
      BY <1>8 DEF Join
    <2>2. \A k \in Items : ran[Vm(k)].step = step /\ ran[Vm(k)].last = pool.slot[k]
      BY <2>1 DEF TurnInv, ReportInv
    <2>3. CASE at' = "joined"
      <3>1. ASSUME job.kind = "workflow", NEW w \in Range(targets)
            PROVE  ran[w].step >= step
        <4>1. pool.index = All
          BY <2>1, <3>1 DEF ReportInv
        <4>2. PICK k \in DOMAIN targets : w = targets[k]
          BY DEF Range
        <4>3. k \in Items /\ Vm(k) = w
          BY <4>1, <4>2 DEF Items, All, Vm
        <4>. QED  BY <1>1, <2>2, <4>3
      <3>. QED  BY <2>1, <2>3, <3>1 DEF TurnInv, AtWork
    <2>4. CASE FirstRound /\ at' = at /\ \E again \in InOrder(Failed) : pool' = Pool(again)
      <3>1. PICK again \in InOrder(Failed) : pool' = Pool(again)
        BY <2>4
      <3>2. pool'.index = again /\ pool'.stage = [k \in DOMAIN again |-> "waiting"]
        BY <3>1 DEF Pool
      <3>3. pool.index = All
        BY <2>1, <2>4 DEF ReportInv, FirstRound
      <3>4. ASSUME NEW k \in Items' PROVE Stage(k)' # "answered" /\ ran[Vm(k)'].last # "ok"
        <4>1. k \in DOMAIN again /\ Vm(k)' = targets[again[k]]
          BY <2>1, <3>2 DEF Items, Vm
        <4>2. again[k] \in Failed /\ again[k] \in Items
          BY <4>1, AgainIsIndex DEF TypeInv, Range
        <4>3. Vm(again[k]) = targets[again[k]]
          BY <3>3, <4>2 DEF Vm, Items, All
        <4>4. pool.slot[again[k]] # "ok"
          BY <4>2 DEF Failed
        <4>. QED  BY <2>2, <3>2, <4>1, <4>2, <4>3, <4>4 DEF Stage
      <3>5. \A k \in Items' : ran[Vm(k)'] # [last |-> "ok", step |-> step]
        BY <3>4
      <3>. QED  BY <2>1, <2>4, <3>4, <3>5 DEF TurnInv, AtWork
    <2>. QED  BY <1>8, <2>3, <2>4 DEF Join
  <1>9. CASE Conclude
    <2>1. UNCHANGED <<job, ran, targets>> /\ at = "joined"
      BY <1>9 DEF Conclude
    <2>2. CASE at' = "launch" /\ step' = step + 1 /\ job.kind = "workflow"
      <3>1. \A v \in Vms : ran[v].step < step + 1 /\ ran[v].step <= step + 1
        BY <1>1 DEF TurnInv
      <3>2. ASSUME NEW w \in Range(targets), NEW k \in 1..step, job.steps[k]
            PROVE  ran[w].step >= k
        BY <1>1, <2>1, <2>2, <3>2 DEF TurnInv, AtWork
      <3>3. step' - 1 = step
        BY <1>1, <2>2
      <3>. QED  BY <2>1, <2>2, <3>1, <3>2, <3>3 DEF TurnInv
    <2>3. CASE at' \in {"failed", "ok"} /\ UNCHANGED step
      BY <2>1, <2>3 DEF TurnInv, AtWork
    <2>. QED  BY <1>9, <2>2, <2>3 DEF Conclude
  <1>10. CASE Moved
    <2>1. Items' = Items /\ pool'.index = pool.index
      BY <1>10, MovedKeepsPool DEF TypeInv
    <2>2. UNCHANGED <<job, at, targets, ran, step>>
      BY <1>10 DEF Moved, Rest
    <2>3. \A k \in Items : Stage(k)' = "answered" <=> Stage(k) = "answered"
      BY <1>10 DEF Moved, Stage
    <2>. QED  BY <2>1, <2>2, <2>3 DEF TurnInv, Vm
  <1>11. ASSUME NEW i \in Items, NEW a \in Answer, Answered(i, a)
         PROVE  TurnInv'
    <2>1. /\ Items' = Items /\ pool'.index = pool.index
          /\ pool'.stage = [pool.stage EXCEPT ![i] = "answered"]
      BY <1>11, AnsweredKeepsPool DEF TypeInv
    <2>2. UNCHANGED <<job, at, targets, step>> /\ at = "pool"
      BY <1>11 DEF Answered, Rest
    <2>3. ran' = [ran EXCEPT ![Vm(i)] = [last |-> a, step |-> step]]
      BY <1>11 DEF Answered
    <2>4. /\ ran'[Vm(i)].step = step /\ Vm(i) \in Vms
          /\ \A v \in Vms \ {Vm(i)} : ran'[v] = ran[v]
          /\ Stage(i)' = "answered" /\ \A k \in Items \ {i} : Stage(k)' = Stage(k)
      BY <2>1, <2>3, VmsAreDistinct DEF TypeInv, PoolInv, Stage
    <2>5. \A k \in Items : Vm(k)' = Vm(k)
      BY <2>1, <2>2 DEF Vm
    <2>6. \A k \in Items \ {i} : Vm(k) \in Vms \ {Vm(i)}
      BY VmsAreDistinct
    <2>7. \A v \in Vms : ran'[v].step <= step
      BY <1>1, <2>4 DEF TurnInv
    <2>8. \A v \in Vms : ran'[v].step >= ran[v].step
      BY <1>1, <2>4 DEF TurnInv
    <2>9. ASSUME NEW k \in Items
          PROVE  IF Stage(k)' = "answered" THEN ran'[Vm(k)].step = step
                 ELSE ran'[Vm(k)] # [last |-> "ok", step |-> step]
      BY <2>2, <2>4, <2>6 DEF TurnInv
    <2>10. ASSUME NEW w \in Range(targets), NEW k \in 1..(step - 1), job.steps[k]
           PROVE  ran'[w].step >= k
      <3>1. w \in Vms
        BY VmsAreDistinct DEF Range
      <3>2. ran[w].step >= k /\ ran'[w].step >= ran[w].step
        BY <2>2, <2>8, <2>10, <3>1 DEF TurnInv, AtWork
      <3>3. ran'[w].step \in Nat
        BY <1>1, <2>4, <3>1
      <3>. QED  BY <1>1, <3>1, <3>2, <3>3
    <2>. QED  BY <2>1, <2>2, <2>5, <2>7, <2>9, <2>10 DEF TurnInv
  <1>. QED  BY <1>3, <1>4, <1>5, <1>6, <1>7, <1>8, <1>9, <1>10, <1>11, Steps

-----------------------------------------------------------------------------
(* The theorems. *)

LEMMA NextInv == IInv /\ [Next]_vars => IInv'
  BY TypeStep, PhaseStep, PaceStep, ChoiceStep, ReportStep, TurnStep DEF IInv

LEMMA Invariance == Spec => []IInv
  BY InitInv, NextInv, PTL DEF Spec

(* Every variable of a fleet command keeps its type.                       *)
THEOREM TypeCorrect == Spec => []FleetTypeOK
  <1>1. IInv => FleetTypeOK
    <2>. SUFFICES ASSUME TypeInv, PaceInv PROVE FleetTypeOK
      BY DEF IInv
    <2>1. Range(targets) \subseteq Vms
      BY DEF TypeInv, Range
    <2>. QED  BY <2>1 DEF FleetTypeOK, TypeInv, PoolInv, PaceInv, Selecting, AtWork, Stages
  <1>. QED  BY <1>1, Invariance, PTL

(* Whatever the order in which the threads end, over the reordering of     *)
(* --smart-route and through a retry of some, what is shown for a VM is    *)
(* the last answer it gave, and every target gave one (for_each_bounded,   *)
(* exec_fleet).                                                            *)
THEOREM ReportIsTrue == Spec => []ReportedIsLast
  <1>1. IInv => ReportedIsLast
    BY DEF IInv, ReportInv, ReportedIsLast, Shown, Answer
  <1>. QED  BY <1>1, Invariance, PTL

(* A command reaches only VMs that the selectors chose and the load gate   *)
(* let pass, and --smart-route never passes over a quieter one.            *)
THEOREM OnlyChosenReached == Spec => []OnlyChosen
  <1>1. IInv => OnlyChosen
    <2>. SUFFICES ASSUME IInv, NEW i \in Items, Stage(i) # "waiting" PROVE Belongs(Vm(i))
      BY DEF OnlyChosen, Belongs
    <2>1. at \notin Selecting
      BY DEF IInv, PhaseInv
    <2>. QED  BY <2>1, VmsAreDistinct DEF IInv, ChoiceInv
  <1>. QED  BY <1>1, Invariance, PTL

(* No more writes reach Azure than the bucket held at first and has        *)
(* refilled since, however many threads contend (RateLimiter::acquire).    *)
THEOREM WritesArePaced == Spec => []Paced
  <1>1. IInv => Paced
    BY FleetAssumption DEF IInv, PaceInv, Paced
  <1>. QED  BY <1>1, Invariance, PTL

(* A command, or a step of a workflow, that succeeded on a VM is not given *)
(* to it again, and a step starts on a VM only after every VM has answered *)
(* all steps before it.                                                    *)
THEOREM StepsInTurn == Spec => BeginsInTurn
  <1>. DEFINE Turn(i) == /\ ran[Vm(i)] # [last |-> "ok", step |-> step]
                         /\ \A w \in Range(targets), k \in 1..(step - 1) :
                               job.steps[k] => ran[w].step >= k
  <1>1. ASSUME IInv, NEW i \in Items, Begins(i) PROVE Turn(i)
    <2>1. at = "pool" /\ Stage(i) # "answered"
      BY <1>1 DEF Begins
    <2>. QED  BY <1>1, <2>1 DEF IInv, TurnInv, AtWork
  <1>2. IInv => \A i \in Items : Begins(i) => Turn(i)
    BY <1>1
  <1>. QED  BY <1>2, Invariance, PTL DEF BeginsInTurn

=============================================================================
