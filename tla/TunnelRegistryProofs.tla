------------------------- MODULE TunnelRegistryProofs -------------------------
(* Theorems about TunnelRegistry, for any VMs, pids and ports. *)
EXTENDS TunnelRegistry, TLAPS

(* A process that is inside a call knows the VM the call is about, and one *)
(* that waits for a host knows the host.                                   *)
Shape ==
    \A p \in Pids :
        /\ proc[p].pc \in {"load", "open", "probe", "wait"} => proc[p].vm \in VMs
        /\ proc[p].pc = "wait" => proc[p].child \in Pids

TypeInv == TypeOK /\ Shape

LEMMA EmptyIsRegistry == Empty \in Registry
BY DEF Empty, Registry, NoEntry

LEMMA DeadProcessTypes == Gone \in Process /\ Zombie \in Process
BY EmptyIsRegistry DEF Gone, Zombie, Process, AllPrograms

LEMMA DeadProcessPc == Gone.pc = "none" /\ Zombie.pc = "zombie"
BY DEF Gone, Zombie

LEMMA PruneType ==
    ASSUME NEW r \in Registry PROVE Prune(r) \in Registry
BY DEF Prune, Registry

LEMMA PurgeType ==
    ASSUME NEW r \in Registry, NEW pt PROVE Purge(r, pt) \in Registry
BY DEF Purge, Registry

LEMMA TerminateType ==
    ASSUME NEW D, NEW table \in [Pids -> Process]
    PROVE  Terminate(D, table) \in [Pids -> Process]
BY DeadProcessTypes DEF Terminate

LEMMA ListenersType ==
    ASSUME TypeOK, NEW D
    PROVE  ListenersWithout(D) \in [Ports -> Listener]
<1>1. Unbound \in Listener
  BY DEF Unbound, Listener
<1>. QED BY <1>1 DEF ListenersWithout, TypeOK

(* A process is what it was, or dead, once others have been terminated. *)
LEMMA TerminateCases ==
    ASSUME NEW D, NEW table, NEW q \in Pids
    PROVE  \/ Terminate(D, table)[q] = table[q] /\ q \notin D
           \/ Terminate(D, table)[q] = Gone
           \/ Terminate(D, table)[q] = Zombie
BY DEF Terminate

LEMMA EndsType ==
    ASSUME TypeInv, NEW p \in Pids, Ends(p)
    PROVE  /\ proc' \in [Pids -> Process]
           /\ listener' \in [Ports -> Listener]
           /\ Shape'
<1>1. proc' \in [Pids -> Process] /\ listener' \in [Ports -> Listener]
  BY TerminateType, ListenersType DEF Ends, TypeInv, TypeOK
<1>2. Shape'
  BY TerminateCases, DeadProcessPc DEF Ends, TypeInv, Shape
<1>. QED BY <1>1, <1>2

LEMMA WrittenType ==
    ASSUME NEW r \in Registry, Written(r)
    PROVE  file' \in Registry /\ blank' \in BOOLEAN
BY EmptyIsRegistry DEF Written

LEMMA DiscardedType ==
    ASSUME NEW p, NEW r \in Registry
    PROVE  Discarded(p, r) \in Registry
<1>1. \A v : [r EXCEPT ![v] = NoEntry] \in Registry
  BY DEF Registry
<1>. QED BY <1>1, PurgeType DEF Discarded

-----------------------------------------------------------------------------
(* Type correctness. *)

LEMMA TypeInit == Init => TypeInv
<1>. SUFFICES ASSUME Init PROVE TypeInv
  OBVIOUS
<1>. USE EmptyIsRegistry, DeadProcessTypes DEF TypeInv, TypeOK, Shape
<1>1. Unbound \in Listener
  BY DEF Unbound, Listener
<1>2. CASE /\ file = Empty
           /\ proc = [p \in Pids |-> Gone]
           /\ listener = [pt \in Ports |-> Unbound]
           /\ used = {}
  BY <1>1, <1>2, DeadProcessPc DEF Init
<1>3. ASSUME NEW q \in Pids, NEW pt \in Ports, NEW v \in VMs,
             file = [Empty EXCEPT ![v] = [port |-> pt, pid |-> q, kind |-> "legacy"]],
             proc = [p \in Pids |->
                        IF p = q THEN [Gone EXCEPT !.prog = "az", !.pc = "run"]
                                 ELSE Gone],
             listener = [t \in Ports |->
                            IF t = pt THEN [pid |-> q, vm |-> v] ELSE Unbound],
             used = IF Recycle THEN {} ELSE {q}
      PROVE  TypeInv
  <2>1. file \in Registry
    BY <1>3 DEF Registry, Entry
  <2>2. [Gone EXCEPT !.prog = "az", !.pc = "run"] \in Process
    BY EmptyIsRegistry DEF Gone, Process
  <2>3. [Gone EXCEPT !.prog = "az", !.pc = "run"].pc = "run"
    BY DEF Gone
  <2>4. [pid |-> q, vm |-> v] \in Listener
    BY DEF Listener
  <2>. QED BY <1>1, <1>3, <2>1, <2>2, <2>3, <2>4, DeadProcessPc DEF Init
<1>. QED BY <1>2, <1>3 DEF Init

(* One process changes: it has its type and shape, so everything has. *)
LEMMA OneProcess ==
    ASSUME TypeInv, NEW p \in Pids, NEW rec \in Process,
           proc' = [proc EXCEPT ![p] = rec],
           rec.pc \in {"load", "open", "probe", "wait"} => rec.vm \in VMs,
           rec.pc = "wait" => rec.child \in Pids
    PROVE  proc' \in [Pids -> Process] /\ Shape'
BY DEF TypeInv, TypeOK, Shape

(* The record of an `azlin code` that waits for its host. *)
LEMMA WaitingProcess ==
    ASSUME NEW r \in Process, NEW h \in Pids
    PROVE  /\ [r EXCEPT !.pc = "wait", !.child = h] \in Process
           /\ [r EXCEPT !.pc = "wait", !.child = h].pc = "wait"
           /\ [r EXCEPT !.pc = "wait", !.child = h].vm = r.vm
           /\ [r EXCEPT !.pc = "wait", !.child = h].child = h
BY DEF Process

(* The record of a process that starts. *)
LEMMA StartedProcess ==
    ASSUME NEW prog \in AllPrograms \cup {"host"}, NEW v \in VMs \cup {NoVm},
           NEW pc \in {"load", "probe", "scan", "run"}
    PROVE  /\ [Gone EXCEPT !.prog = prog, !.pc = pc, !.vm = v] \in Process
           /\ [Gone EXCEPT !.prog = prog, !.pc = pc, !.vm = v].pc = pc
           /\ [Gone EXCEPT !.prog = prog, !.pc = pc, !.vm = v].vm = v
BY EmptyIsRegistry DEF Gone, Process

LEMMA TypeStep == TypeInv /\ [Next]_vars => TypeInv'
<1>. SUFFICES ASSUME TypeInv, [Next]_vars PROVE TypeInv'
  OBVIOUS
<1>. USE DEF TypeInv, TypeOK
<1>1. ASSUME NEW p \in Pids, NEW prog \in Programs, NEW v \in VMs, Start(p, prog, v)
      PROVE  TypeInv'
  <2>. DEFINE vm == IF prog \in {"closeAll", "other"} THEN NoVm ELSE v
              rec == [Gone EXCEPT !.prog = prog, !.pc = FirstStep[prog], !.vm = vm]
  <2>1. prog \in AllPrograms
    BY ConstantsAssumption
  <2>2. /\ FirstStep[prog] \in {"load", "probe", "scan", "run"}
        /\ FirstStep[prog] \in {"load", "probe"} => prog \notin {"closeAll", "other"}
    BY <2>1 DEF FirstStep, AllPrograms
  <2>3. rec \in Process /\ rec.pc = FirstStep[prog]
        /\ (prog \notin {"closeAll", "other"} => rec.vm = v)
    <3>. HIDE DEF vm
    <3>1. vm \in VMs \cup {NoVm} /\ FirstStep[prog] \in {"load", "probe", "scan", "run"}
      BY <2>2 DEF vm
    <3>. DEFINE pc == FirstStep[prog]
    <3>. HIDE DEF pc
    <3>2. prog \in AllPrograms \cup {"host"} /\ pc \in {"load", "probe", "scan", "run"}
      BY <2>1, <3>1 DEF pc
    <3>3. /\ [Gone EXCEPT !.prog = prog, !.pc = pc, !.vm = vm] \in Process
          /\ [Gone EXCEPT !.prog = prog, !.pc = pc, !.vm = vm].pc = pc
          /\ [Gone EXCEPT !.prog = prog, !.pc = pc, !.vm = vm].vm = vm
      <4>1. prog \in AllPrograms \cup {"host"}
        BY <3>2
      <4>2. pc \in {"load", "probe", "scan", "run"}
        BY <3>2
      <4>3. vm \in VMs \cup {NoVm}
        BY <3>1
      <4>. QED BY <4>1, <4>2, <4>3, EmptyIsRegistry DEF Gone, Process
    <3>. QED BY <3>3 DEF vm, pc
  <2>4. proc' \in [Pids -> Process] /\ Shape'
    BY <1>1, <2>2, <2>3, OneProcess DEF Start
  <2>. QED BY <1>1, <2>4 DEF Start, Born
<1>2. ASSUME NEW pt \in Ports, AcceptError(pt)
      PROVE  TypeInv'
  BY <1>2 DEF AcceptError, Shape, Unbound, Listener
<1>3. ASSUME NEW p \in Pids, Step(p)
      PROVE  TypeInv'
  <2>. USE DEF Shape
  <2>0. proc[p] \in Process
    OBVIOUS
  <2>1. CASE Exit(p)
    BY <2>1, EndsType DEF Exit
  <2>2. CASE Reuse(p)
    <3>. DEFINE r == Prune(file)
    <3>1. r[proc[p].vm].port \in Ports
      BY <2>2, PruneType DEF Reuse, Reusable, Registry, Entry
    <3>. DEFINE pc == Returns(p)
                port == r[proc[p].vm].port
                wd == WatchdogStarted(p)
                rec == [proc[p] EXCEPT !.pc = pc, !.port = port, !.wd = wd]
    <3>2. pc \in {"confirm", "ready"} /\ wd \in {"idle", "truncate", "write"}
      BY <2>0 DEF Returns, WatchdogStarted, Process
    <3>3. proc' = [proc EXCEPT ![p] = rec]
      BY <2>2 DEF Reuse
    <3>. port \in Ports
      BY <3>1
    <3>. HIDE DEF r, pc, port, wd
    <3>4. rec \in Process
      BY <2>0, <3>2 DEF Process
    <3>5. rec.pc = pc
      BY <2>0, <3>2 DEF Process
    <3>. QED BY <2>2, <3>2, <3>3, <3>4, <3>5, OneProcess DEF Reuse
  <2>3. CASE Miss(p)
    <3>1. Discarded(p, Prune(file)) \in Registry
      BY PruneType, DiscardedType
    <3>. DEFINE snap == Discarded(p, Prune(file))
                wd == WatchdogStarted(p)
                rec == [proc[p] EXCEPT !.pc = "open", !.snap = snap, !.wd = wd]
    <3>2. wd \in {"idle", "truncate", "write"} /\ proc[p].vm \in VMs
      BY <2>0, <2>3 DEF WatchdogStarted, Process, Miss
    <3>3. proc' = [proc EXCEPT ![p] = rec]
      BY <2>3 DEF Miss
    <3>. snap \in Registry
      BY <3>1
    <3>. HIDE DEF snap, wd
    <3>4. rec \in Process /\ rec.pc = "open" /\ rec.vm = proc[p].vm
      BY <2>0, <3>2 DEF Process
    <3>. QED BY <2>3, <3>2, <3>3, <3>4, OneProcess DEF Miss
  <2>4. CASE OpenFail(p)
    BY <2>4, EndsType, EmptyIsRegistry DEF OpenFail, Process
  <2>5. ASSUME NEW pt \in Ports, Open(p, pt)
        PROVE  TypeInv'
    <3>1. [proc[p].snap EXCEPT ![proc[p].vm] = Native(p, pt)] \in Registry
      BY <2>5 DEF Open, Registry, Native, Entry, Process
    <3>2. [pid |-> p, vm |-> proc[p].vm] \in Listener
      BY <2>5 DEF Open, Listener
    <3>. DEFINE pc == IF Registers(p) THEN "truncate" ELSE Returns(p)
                snap == IF Registers(p)
                          THEN [proc[p].snap EXCEPT ![proc[p].vm] = Native(p, pt)]
                          ELSE Empty
                rec == [proc[p] EXCEPT !.pc = pc, !.port = pt, !.snap = snap]
    <3>3. pc \in {"truncate", "confirm", "ready"} /\ snap \in Registry
      BY <3>1, EmptyIsRegistry DEF Returns
    <3>4. proc' = [proc EXCEPT ![p] = rec]
      BY <2>5 DEF Open
    <3>. HIDE DEF pc, snap
    <3>5. rec \in Process /\ rec.pc = pc
      BY <2>0, <3>3 DEF Process
    <3>. QED BY <2>5, <3>2, <3>3, <3>4, <3>5, OneProcess DEF Open
  <2>6. ASSUME NEW pt \in Ports, ForeignBind(p, pt)
        PROVE  TypeInv'
    BY <2>6 DEF ForeignBind, Listener
  <2>7. ASSUME NEW v \in VMs, CallAgain(p, v)
        PROVE  TypeInv'
    <3>. DEFINE rec == [proc[p] EXCEPT !.pc = "load", !.vm = v, !.port = NoPort]
    <3>1. rec \in Process /\ rec.pc = "load" /\ rec.vm = v
      BY <2>0 DEF Process
    <3>2. proc' = [proc EXCEPT ![p] = rec]
      BY <2>7 DEF CallAgain
    <3>. QED BY <2>7, <3>1, <3>2, OneProcess DEF CallAgain
  <2>8. CASE SaveTruncate(p)
    BY <2>8, EmptyIsRegistry DEF SaveTruncate, Process
  <2>9. CASE SaveWrite(p)
    <3>1. proc[p].snap \in Registry
      BY DEF Process
    <3>2. file' \in Registry /\ blank' \in BOOLEAN
      BY <2>9, <3>1, WrittenType DEF SaveWrite
    <3>. QED BY <2>9, <3>2, EndsType, EmptyIsRegistry DEF SaveWrite, Returns, Process
  <2>10. CASE SaveFail(p)
    BY <2>10, EndsType, EmptyIsRegistry DEF SaveFail, Process
  <2>11. CASE WatchdogScan(p)
    <3>. DEFINE r == Prune(file)
                rec == [proc[p] EXCEPT !.wd = "truncate", !.wsnap = r]
    <3>1. r \in Registry
      BY PruneType
    <3>2. proc' = [proc EXCEPT ![p] = rec]
      BY <2>11 DEF WatchdogScan
    <3>. HIDE DEF r
    <3>3. rec \in Process /\ rec.pc = proc[p].pc /\ rec.vm = proc[p].vm
          /\ rec.child = proc[p].child
      BY <2>0, <3>1 DEF Process
    <3>. QED BY <2>11, <3>2, <3>3, OneProcess DEF WatchdogScan
  <2>12. CASE WatchdogTruncate(p)
    BY <2>12, EmptyIsRegistry DEF WatchdogTruncate, Process
  <2>13. CASE WatchdogWrite(p)
    <3>1. proc[p].wsnap \in Registry
      BY DEF Process
    <3>2. file' \in Registry /\ blank' \in BOOLEAN
      BY <2>13, <3>1, WrittenType DEF WatchdogWrite
    <3>. DEFINE rec == [proc[p] EXCEPT !.wd = "idle", !.wsnap = Empty]
    <3>3. rec \in Process /\ rec.pc = proc[p].pc /\ rec.vm = proc[p].vm
          /\ rec.child = proc[p].child
      BY <2>0, EmptyIsRegistry DEF Process
    <3>4. proc' = [proc EXCEPT ![p] = rec]
      BY <2>13 DEF WatchdogWrite
    <3>. QED BY <2>13, <3>2, <3>3, <3>4, OneProcess DEF WatchdogWrite
  <2>14. CASE Confirm(p)
    BY <2>14, EndsType DEF Confirm, Process
  <2>15. CASE Interrupt(p)
    BY <2>15 DEF Interrupt, Process
  <2>16. CASE Unregister(p)
    <3>1. [file EXCEPT ![proc[p].vm] = NoEntry] \in Registry
      BY DEF Registry
    <3>. QED BY <2>16, <3>1, EndsType DEF Unregister, Process
  <2>17. CASE ProbeHit(p)
    <3>1. file[proc[p].vm].port \in Ports
      BY <2>17 DEF ProbeHit, LivePort, Registry, Entry
    <3>. DEFINE port == file[proc[p].vm].port
                rec == [proc[p] EXCEPT !.pc = "ready", !.port = port]
    <3>2. proc' = [proc EXCEPT ![p] = rec]
      BY <2>17 DEF ProbeHit
    <3>. HIDE DEF port
    <3>3. rec \in Process /\ rec.pc = "ready"
      BY <2>0, <3>1 DEF Process, port
    <3>. QED BY <2>17, <3>2, <3>3, OneProcess DEF ProbeHit
  <2>18. CASE HostReady(p)
    <3>1. file[proc[p].vm] \in Entry
      BY <2>18, ConstantsAssumption DEF HostReady, Registry, NoEntry
    <3>. DEFINE port == file[proc[p].vm].port
                rec == [proc[p] EXCEPT !.pc = "ready", !.port = port]
    <3>2. proc' = [proc EXCEPT ![p] = rec]
      BY <2>18 DEF HostReady
    <3>. HIDE DEF port
    <3>3. rec \in Process /\ rec.pc = "ready"
      BY <2>0, <3>1 DEF Process, port, Entry
    <3>. QED BY <2>18, <3>2, <3>3, OneProcess DEF HostReady
  <2>19. CASE WaitFails(p)
    BY <2>19, EndsType DEF WaitFails
  <2>20. ASSUME NEW h \in Pids, SpawnHost(p, h)
         PROVE  TypeInv'
    <3>. DEFINE rec == [Gone EXCEPT !.prog = "host", !.pc = "load", !.vm = proc[p].vm]
    <3>1. proc[p].vm \in VMs /\ h # p
      BY <2>20 DEF SpawnHost, Available
    <3>2. rec \in Process /\ rec.pc = "load" /\ rec.vm = proc[p].vm
      <4>1. /\ "host" \in AllPrograms \cup {"host"}
            /\ proc[p].vm \in VMs \cup {NoVm}
            /\ "load" \in {"load", "probe", "scan", "run"}
        BY <3>1
      <4>. QED BY <4>1, StartedProcess
    <3>3. proc' = [proc EXCEPT ![p] = [proc[p] EXCEPT !.pc = "wait", !.child = h],
                               ![h] = rec]
      BY <2>20, <3>1 DEF SpawnHost
    <3>4. /\ [proc[p] EXCEPT !.pc = "wait", !.child = h] \in Process
          /\ [proc[p] EXCEPT !.pc = "wait", !.child = h].vm = proc[p].vm
          /\ [proc[p] EXCEPT !.pc = "wait", !.child = h].child = h
      BY <2>0, WaitingProcess
    <3>5. used' \in SUBSET Pids
      BY <2>20 DEF SpawnHost, Born
    <3>. HIDE DEF rec
    <3>6. \A q \in Pids :
             proc'[q] = IF q = h THEN rec
                        ELSE IF q = p THEN [proc[p] EXCEPT !.pc = "wait", !.child = h]
                        ELSE proc[q]
      BY <3>1, <3>3
    <3>7. proc' \in [Pids -> Process]
      BY <3>2, <3>3, <3>4
    <3>8. Shape'
      BY <3>1, <3>2, <3>4, <3>6
    <3>. QED BY <2>20, <3>5, <3>7, <3>8 DEF SpawnHost
  <2>21. CASE Close(p)
    <3>. DEFINE V == Victims(p)
                D == DiesOfSigterm(V)
                table == Terminate(D, Signalled(V))
                rest == [v \in VMs |-> IF v \in Matching(p) THEN NoEntry ELSE file[v]]
    <3>1. Signalled(V) \in [Pids -> Process]
      BY DEF Signalled, Process
    <3>2. table \in [Pids -> Process] /\ rest \in Registry
      BY <3>1, TerminateType DEF Registry
    <3>3. listener' \in [Ports -> Listener]
      BY <2>21, EndsType, ListenersType DEF Close
    <3>4. \A q \in Pids :
             /\ table[q].pc \in {"load", "open", "probe", "wait"} => table[q].vm \in VMs
             /\ table[q].pc = "wait" => table[q].child \in Pids
      <4>1. \A q \in Pids : Signalled(V)[q] = proc[q] \/ Signalled(V)[q].pc = "stop"
        BY DEF Signalled, Process
      <4>. HIDE DEF D, V
      <4>. QED BY <4>1, TerminateCases, DeadProcessPc
    <3>5. CASE Matching(p) = {} /\ proc[p].prog = "close"
      BY <2>21, <3>5, EndsType DEF Close
    <3>6. CASE ~(Matching(p) = {} /\ proc[p].prog = "close") /\ p \in D
      <4>1. proc' = table
        BY <2>21, <3>6 DEF Close
      <4>. HIDE DEF table
      <4>. QED BY <2>21, <3>2, <3>3, <3>4, <4>1 DEF Close
    <3>7. CASE ~(Matching(p) = {} /\ proc[p].prog = "close") /\ p \notin D
      <4>. DEFINE rec == [table[p] EXCEPT !.pc = "truncate", !.snap = rest,
                                          !.exits = TRUE]
      <4>1. proc' = [table EXCEPT ![p] = rec]
        BY <2>21, <3>7 DEF Close
      <4>. HIDE DEF table, rest
      <4>2. table[p] \in Process /\ rest \in Registry
        BY <3>2
      <4>3. rec \in Process /\ rec.pc = "truncate"
        BY <4>2 DEF Process
      <4>. QED BY <2>21, <3>2, <3>3, <3>4, <4>1, <4>3 DEF Close
    <3>. QED BY <3>5, <3>6, <3>7
  <2>. QED
    BY <1>3, <2>1, <2>2, <2>3, <2>4, <2>5, <2>6, <2>7, <2>8, <2>9, <2>10, <2>11,
       <2>12, <2>13, <2>14, <2>15, <2>16, <2>17, <2>18, <2>19, <2>20, <2>21 DEF Step
<1>4. CASE UNCHANGED vars
  BY <1>4 DEF vars, Shape
<1>. QED BY <1>1, <1>2, <1>3, <1>4 DEF Next

(* TypeOK holds of every reachable state, whatever the environment does.   *)
THEOREM TypeCorrect == Spec => []TypeOK
<1>1. TypeInv => TypeOK
  BY DEF TypeInv
<1>. QED BY <1>1, TypeInit, TypeStep, PTL DEF Spec

-----------------------------------------------------------------------------
(* The truth of the registry.  RegistryTruthful speaks of processes that   *)
(* have died, so the inductive invariant adds that pids are not reborn:    *)
(* every process, and every process an entry names, has a used pid.        *)

Grounded(r) ==
    \A v \in VMs : r[v] # NoEntry =>
        r[v].pid \in used /\ (Departed(r[v].pid) \/ Carries(r[v].pid, r[v].port, v))

TruthInv ==
    /\ TypeInv
    /\ \A p \in Pids : proc[p].pc # "none" => p \in used
    /\ Grounded(file)
    /\ \A p \in Pids : Grounded(proc[p].snap) /\ Grounded(proc[p].wsnap)

(* Grounded in the next state, of a registry of this state. *)
GroundedNext(r) ==
    \A v \in VMs : r[v] # NoEntry =>
        /\ r[v].pid \in used'
        /\ \/ proc'[r[v].pid].pc \in {"none", "zombie"}
           \/ listener'[r[v].port] = [pid |-> r[v].pid, vm |-> v]

(* What every step does to processes and listeners: the dead stay dead,    *)
(* and only death takes a listener away.                                   *)
WorldStep ==
    /\ used \subseteq used'
    /\ \A q \in used : Departed(q) => proc'[q].pc \in {"none", "zombie"}
    /\ \A pt \in Ports : listener[pt] # Unbound =>
          \/ listener'[pt] = listener[pt]
          \/ proc'[listener[pt].pid].pc \in {"none", "zombie"}

(* r1 has some of the entries of r. *)
Part(r1, r) == \A v \in VMs : r1[v] = NoEntry \/ r1[v] = r[v]

LEMMA EntryOrNone ==
    ASSUME NEW r \in Registry, NEW v \in VMs, r[v] # NoEntry
    PROVE  r[v].pid \in Pids /\ r[v].port \in Ports
BY DEF Registry, Entry

LEMMA GroundedStep ==
    ASSUME WorldStep, TypeInv, NEW r \in Registry, Grounded(r)
    PROVE  GroundedNext(r)
<1>. SUFFICES ASSUME NEW v \in VMs, r[v] # NoEntry
     PROVE  /\ r[v].pid \in used'
            /\ \/ proc'[r[v].pid].pc \in {"none", "zombie"}
               \/ listener'[r[v].port] = [pid |-> r[v].pid, vm |-> v]
  BY DEF GroundedNext
<1>1. r[v].pid \in used /\ r[v].port \in Ports /\ r[v].pid \in Pids
  BY EntryOrNone DEF Grounded
<1>2. CASE Departed(r[v].pid)
  BY <1>1, <1>2 DEF WorldStep
<1>3. CASE Carries(r[v].pid, r[v].port, v)
  <2>1. listener[r[v].port] # Unbound
    BY <1>1, <1>3, ConstantsAssumption DEF Carries, Unbound
  <2>2. listener[r[v].port].pid = r[v].pid
    BY <1>3 DEF Carries
  <2>. QED BY <1>1, <1>3, <2>1, <2>2 DEF WorldStep, Carries
<1>. QED BY <1>1, <1>2, <1>3 DEF Grounded

LEMMA GroundedPart ==
    ASSUME NEW r, NEW r1, Part(r1, r), Grounded(r)
    PROVE  Grounded(r1)
BY DEF Part, Grounded

LEMMA EmptyGrounded == Grounded(Empty)
BY DEF Grounded, Empty

LEMMA PruneGrounded ==
    ASSUME NEW r \in Registry, Grounded(r)
    PROVE  Grounded(Prune(r))
<1>1. Part(Prune(r), r)
  BY DEF Part, Prune
<1>. QED BY <1>1, GroundedPart

LEMMA DiscardedGrounded ==
    ASSUME NEW p, NEW r \in Registry, Grounded(r)
    PROVE  Grounded(Discarded(p, r))
<1>1. \A pt : Part(Purge(r, pt), r)
  BY DEF Part, Purge
<1>2. \A w : Part([r EXCEPT ![w] = NoEntry], r)
  BY DEF Part, Registry
<1>3. \/ Discarded(p, r) = r
      \/ \E pt : Discarded(p, r) = Purge(r, pt)
      \/ \E w : Discarded(p, r) = [r EXCEPT ![w] = NoEntry]
  BY DEF Discarded
<1>. QED BY <1>1, <1>2, <1>3, GroundedPart

LEMMA WrittenGrounded ==
    ASSUME NEW r, Grounded(r), Written(r)
    PROVE  Grounded(file')
BY EmptyGrounded DEF Written

(* An action has shown what is left to show of the next state.             *)
LEMMA TruthPreserved ==
    ASSUME TruthInv, TypeInv', WorldStep,
           \A q \in Pids : proc'[q].pc # "none" => q \in used',
           Grounded(file'),
           \A q \in Pids : Grounded(proc'[q].snap) /\ Grounded(proc'[q].wsnap)
    PROVE  TruthInv'
<1>1. file' \in Registry /\ \A q \in Pids : /\ proc'[q].snap \in Registry
                                              /\ proc'[q].wsnap \in Registry
  BY DEF TypeInv, TypeOK, Process
<1>2. GroundedNext(file')
      /\ \A q \in Pids : GroundedNext(proc'[q].snap) /\ GroundedNext(proc'[q].wsnap)
  BY <1>1, GroundedStep DEF TruthInv
<1>. QED BY <1>2 DEF TruthInv, GroundedNext, Grounded, Departed, Carries

(* Everything TruthPreserved asks for, but the file. *)
ProcessesPreserved ==
    /\ WorldStep
    /\ \A q \in Pids : proc'[q].pc # "none" => q \in used'
    /\ \A q \in Pids : Grounded(proc'[q].snap) /\ Grounded(proc'[q].wsnap)

LEMMA TerminateTruth ==
    ASSUME TruthInv, NEW D \in SUBSET Pids, D \subseteq used,
           NEW table \in [Pids -> Process],
           \A q \in Pids : \/ table[q] = proc[q]
                          \/ /\ ~Departed(q) /\ table[q].pc = "stop"
                             /\ table[q].snap = proc[q].snap
                             /\ table[q].wsnap = proc[q].wsnap,
           proc' = Terminate(D, table), listener' = ListenersWithout(D), used' = used
    PROVE  ProcessesPreserved
<1>1. \A q \in Pids : proc'[q] = table[q] \/ proc'[q] = Gone \/ proc'[q] = Zombie
  BY TerminateCases
<1>2. \A q \in D : proc'[q].pc \in {"none", "zombie"}
  BY DeadProcessPc DEF Terminate
<1>3. WorldStep
  <2>1. ASSUME NEW q \in used, Departed(q)
        PROVE  proc'[q].pc \in {"none", "zombie"}
    BY <1>1, <2>1, DeadProcessPc DEF Departed, TruthInv, TypeInv, TypeOK
  <2>2. ASSUME NEW pt \in Ports, listener[pt] # Unbound
        PROVE  \/ listener'[pt] = listener[pt]
               \/ proc'[listener[pt].pid].pc \in {"none", "zombie"}
    BY <1>2, <2>2 DEF ListenersWithout
  <2>. QED BY <2>1, <2>2 DEF WorldStep
<1>4. ASSUME NEW q \in Pids, proc'[q].pc # "none"
      PROVE  q \in used'
  <2>1. proc'[q] = table[q] \/ q \in D \/ table[q].pc = "zombie"
    BY DEF Terminate
  <2>2. table[q].pc # "none" => q \in used
    BY DEF TruthInv, Departed
  <2>. QED BY <1>4, <2>1, <2>2
<1>5. ASSUME NEW q \in Pids
      PROVE  Grounded(proc'[q].snap) /\ Grounded(proc'[q].wsnap)
  <2>1. Gone.snap = Empty /\ Gone.wsnap = Empty /\ Zombie.snap = Empty /\ Zombie.wsnap = Empty
    BY DEF Gone, Zombie
  <2>2. Grounded(table[q].snap) /\ Grounded(table[q].wsnap)
    BY DEF TruthInv
  <2>. QED BY <1>1, <2>1, <2>2, EmptyGrounded
<1>. QED BY <1>3, <1>4, <1>5 DEF ProcessesPreserved

LEMMA EndsTruth ==
    ASSUME TruthInv, NEW p \in Pids, proc[p].pc # "none", Ends(p), used' = used
    PROVE  ProcessesPreserved
<1>1. {p} \in SUBSET Pids /\ {p} \subseteq used /\ proc \in [Pids -> Process]
  BY DEF TruthInv, TypeInv, TypeOK
<1>2. proc' = Terminate({p}, proc) /\ listener' = ListenersWithout({p})
  BY DEF Ends
<1>. QED BY <1>1, <1>2, TerminateTruth

(* Only the record of one process changes, which was alive or is as dead   *)
(* as before, and no listener goes.                                        *)
LEMMA OneProcessTruth ==
    ASSUME TruthInv, NEW p \in Pids,
           proc[p].pc \notin {"none", "zombie"} \/ proc'[p].pc = proc[p].pc,
           proc' \in [Pids -> Process],
           \A q \in Pids \ {p} : proc'[q] = proc[q],
           Grounded(proc'[p].snap), Grounded(proc'[p].wsnap),
           \A pt \in Ports : listener[pt] # Unbound => listener'[pt] = listener[pt],
           used' = used
    PROVE  ProcessesPreserved
<1>1. WorldStep
  <2>1. ASSUME NEW q \in used, Departed(q)
        PROVE  proc'[q].pc \in {"none", "zombie"}
    BY <2>1 DEF Departed, TruthInv, TypeInv, TypeOK
  <2>. QED BY <2>1 DEF WorldStep
<1>2. \A q \in Pids : proc'[q].pc # "none" => q \in used'
  BY DEF TruthInv
<1>3. \A q \in Pids : Grounded(proc'[q].snap) /\ Grounded(proc'[q].wsnap)
  BY DEF TruthInv
<1>. QED BY <1>1, <1>2, <1>3 DEF ProcessesPreserved

LEMMA TruthInit == ~Recycle /\ Init => TruthInv
<1>. SUFFICES ASSUME ~Recycle, Init PROVE TruthInv
  OBVIOUS
<1>1. TypeInv
  BY TypeInit
<1>2. Gone.snap = Empty /\ Gone.wsnap = Empty
  BY DEF Gone
<1>3. CASE /\ file = Empty
           /\ proc = [p \in Pids |-> Gone]
           /\ listener = [pt \in Ports |-> Unbound]
           /\ used = {}
  BY <1>1, <1>2, <1>3, EmptyGrounded, DeadProcessPc DEF TruthInv
<1>4. ASSUME NEW q \in Pids, NEW pt \in Ports, NEW v \in VMs,
             file = [Empty EXCEPT ![v] = [port |-> pt, pid |-> q, kind |-> "legacy"]],
             proc = [p \in Pids |->
                        IF p = q THEN [Gone EXCEPT !.prog = "az", !.pc = "run"]
                                 ELSE Gone],
             listener = [t \in Ports |->
                            IF t = pt THEN [pid |-> q, vm |-> v] ELSE Unbound],
             used = IF Recycle THEN {} ELSE {q}
      PROVE  TruthInv
  <2>1. \A w \in VMs : file[w] # NoEntry =>
           w = v /\ file[w] = [port |-> pt, pid |-> q, kind |-> "legacy"]
    BY <1>4 DEF Empty
  <2>2. Grounded(file)
    BY <1>4, <2>1 DEF Grounded, Carries
  <2>3. [Gone EXCEPT !.prog = "az", !.pc = "run"].snap = Empty
        /\ [Gone EXCEPT !.prog = "az", !.pc = "run"].wsnap = Empty
    BY DEF Gone
  <2>4. \A p \in Pids : proc[p].snap = Empty /\ proc[p].wsnap = Empty
    BY <1>2, <1>4, <2>3
  <2>5. \A p \in Pids : proc[p].pc # "none" => p = q
    BY <1>4, DeadProcessPc
  <2>. QED BY <1>1, <1>4, <2>2, <2>4, <2>5, EmptyGrounded DEF TruthInv
<1>. QED BY <1>3, <1>4 DEF Init

LEMMA TruthStep ==
    ASSUME ~Recycle, ~AcceptErrors, TruthInv, [Next]_vars
    PROVE  TruthInv'
<1>1. TypeInv' /\ TypeInv
  BY TypeStep DEF TruthInv
<1>2. proc \in [Pids -> Process] /\ proc' \in [Pids -> Process] /\ file \in Registry
  BY <1>1 DEF TypeInv, TypeOK
<1>3. /\ Grounded(file)
      /\ \A q \in Pids : Grounded(proc[q].snap) /\ Grounded(proc[q].wsnap)
  BY DEF TruthInv
<1>4. ASSUME ProcessesPreserved, Grounded(file')
      PROVE  TruthInv'
  BY <1>1, <1>4, TruthPreserved DEF ProcessesPreserved
<1>5. ASSUME NEW p \in Pids, NEW prog \in Programs, NEW v \in VMs, Start(p, prog, v)
      PROVE  TruthInv'
  <2>1. /\ p \notin used /\ used' = used \cup {p}
        /\ \A q \in Pids \ {p} : proc'[q] = proc[q]
        /\ listener' = listener /\ file' = file
    BY <1>2, <1>5 DEF Start, Available, Born
  <2>2. proc'[p].snap = Empty /\ proc'[p].wsnap = Empty
    BY <1>2, <1>5 DEF Start, Gone
  <2>3. WorldStep
    BY <2>1, <1>1 DEF WorldStep, Departed, TypeInv, TypeOK
  <2>. QED BY <1>3, <1>4, <2>1, <2>2, <2>3, EmptyGrounded DEF ProcessesPreserved, TruthInv
<1>6. ASSUME NEW p \in Pids, Step(p)
      PROVE  TruthInv'
  <2>1. CASE Exit(p)
    BY <1>3, <1>4, <2>1, EndsTruth DEF Exit, Departed
  <2>2. CASE Reuse(p)
    BY <1>2, <1>3, <1>4, <2>2, OneProcessTruth DEF Reuse, Process
  <2>3. CASE Miss(p)
    <3>1. Grounded(Discarded(p, Prune(file)))
      BY <1>2, <1>3, PruneType, PruneGrounded, DiscardedGrounded
    <3>2. proc'[p].snap = Discarded(p, Prune(file)) /\ proc'[p].wsnap = proc[p].wsnap
      BY <1>2, <2>3 DEF Miss, Process
    <3>. QED BY <1>2, <1>3, <1>4, <2>3, <3>1, <3>2, OneProcessTruth DEF Miss
  <2>4. CASE OpenFail(p)
    BY <1>2, <1>3, <1>4, <2>4, EndsTruth, EmptyGrounded, OneProcessTruth
       DEF OpenFail, Process
  <2>5. ASSUME NEW pt \in Ports, Open(p, pt)
        PROVE  TruthInv'
    <3>. DEFINE v == proc[p].vm
    <3>1. v \in VMs /\ proc[p].pc \notin {"none", "zombie"} /\ p \in used
      BY <1>1, <2>5 DEF Open, TypeInv, Shape, TruthInv
    <3>2. /\ \A q \in Pids \ {p} : proc'[q] = proc[q]
          /\ proc'[p].wsnap = proc[p].wsnap
          /\ proc'[p].snap \in {Empty, [proc[p].snap EXCEPT ![v] = Native(p, pt)]}
      BY <1>2, <2>5 DEF Open, Process
    <3>3. /\ file' = file /\ used' = used
          /\ listener'[pt] = [pid |-> p, vm |-> v]
          /\ \A t \in Ports : listener[t] # Unbound => listener'[t] = listener[t]
      BY <1>1, <2>5 DEF Open, Listening, TypeInv, TypeOK
    <3>4. WorldStep
      BY <1>1, <3>1, <3>2, <3>3 DEF WorldStep, Departed, TypeInv, TypeOK
    <3>5. GroundedNext(file')
          /\ \A q \in Pids : GroundedNext(proc[q].snap) /\ GroundedNext(proc[q].wsnap)
      BY <1>1, <1>2, <1>3, <3>3, <3>4, GroundedStep DEF Process
    <3>6. GroundedNext(Empty)
      BY DEF GroundedNext, Empty
    <3>7. GroundedNext([proc[p].snap EXCEPT ![v] = Native(p, pt)])
      <4>1. proc[p].snap \in Registry
        BY <1>2 DEF Process
      <4>2. \A w \in VMs : [proc[p].snap EXCEPT ![v] = Native(p, pt)][w] =
                            IF w = v THEN Native(p, pt) ELSE proc[p].snap[w]
        BY <4>1 DEF Registry
      <4>3. Native(p, pt).pid = p /\ Native(p, pt).port = pt
        BY DEF Native
      <4>. QED BY <3>1, <3>3, <3>5, <4>2, <4>3 DEF GroundedNext
    <3>8. \A q \in Pids : GroundedNext(proc'[q].snap) /\ GroundedNext(proc'[q].wsnap)
      BY <3>2, <3>5, <3>6, <3>7
    <3>9. \A q \in Pids : proc'[q].pc # "none" => q \in used'
      BY <3>1, <3>2, <3>3 DEF TruthInv
    <3>. QED BY <1>1, <3>5, <3>8, <3>9
             DEF TruthInv, GroundedNext, Grounded, Departed, Carries
  <2>6. ASSUME NEW pt \in Ports, ForeignBind(p, pt)
        PROVE  TruthInv'
    <3>1. \A t \in Ports : listener[t] # Unbound => listener'[t] = listener[t]
      BY <1>1, <2>6 DEF ForeignBind, Listening, TypeInv, TypeOK
    <3>2. WorldStep
      BY <1>1, <2>6, <3>1 DEF ForeignBind, WorldStep, Departed, TypeInv, TypeOK
    <3>. QED BY <1>3, <1>4, <2>6, <3>2 DEF ForeignBind, ProcessesPreserved, TruthInv
  <2>7. ASSUME NEW v \in VMs, CallAgain(p, v)
        PROVE  TruthInv'
    BY <1>2, <1>3, <1>4, <2>7, OneProcessTruth DEF CallAgain, Process
  <2>8. CASE SaveTruncate(p)
    BY <1>2, <1>3, <1>4, <2>8, EmptyGrounded, OneProcessTruth DEF SaveTruncate, Process
  <2>9. CASE SaveWrite(p)
    <3>1. Grounded(file')
      BY <1>3, <2>9, WrittenGrounded DEF SaveWrite
    <3>. QED BY <1>2, <1>3, <1>4, <2>9, <3>1, EndsTruth, EmptyGrounded, OneProcessTruth
             DEF SaveWrite, Process
  <2>10. CASE SaveFail(p)
    <3>1. Grounded(file')
      BY <1>3, <2>10, EmptyGrounded DEF SaveFail
    <3>. QED BY <1>2, <1>3, <1>4, <2>10, <3>1, EndsTruth, EmptyGrounded, OneProcessTruth
             DEF SaveFail, Process
  <2>11. CASE WatchdogScan(p)
    <3>1. proc'[p].wsnap = Prune(file) /\ proc'[p].snap = proc[p].snap
      BY <1>2, <2>11 DEF WatchdogScan, Process
    <3>2. Grounded(Prune(file))
      BY <1>2, <1>3, PruneGrounded
    <3>3. proc'[p].pc = proc[p].pc
      BY <1>2, <2>11 DEF WatchdogScan, Process
    <3>. QED BY <1>2, <1>3, <1>4, <2>11, <3>1, <3>2, <3>3, OneProcessTruth
             DEF WatchdogScan
  <2>12. CASE WatchdogTruncate(p)
    <3>1. proc'[p].pc = proc[p].pc /\ proc'[p].snap = proc[p].snap
          /\ proc'[p].wsnap = proc[p].wsnap
      BY <1>2, <2>12 DEF WatchdogTruncate, Process
    <3>. QED BY <3>1, <1>2, <1>3, <1>4, <2>12, EmptyGrounded, OneProcessTruth
             DEF WatchdogTruncate
  <2>13. CASE WatchdogWrite(p)
    <3>1. proc'[p].pc = proc[p].pc /\ proc'[p].snap = proc[p].snap
          /\ proc'[p].wsnap = Empty
      BY <1>2, <2>13 DEF WatchdogWrite, Process
    <3>. QED BY <3>1, <1>2, <1>3, <1>4, <2>13, WrittenGrounded, EmptyGrounded, OneProcessTruth
             DEF WatchdogWrite
  <2>14. CASE Confirm(p)
    BY <1>2, <1>3, <1>4, <2>14, EndsTruth, OneProcessTruth DEF Confirm, Process
  <2>15. CASE Interrupt(p)
    BY <1>2, <1>3, <1>4, <2>15, OneProcessTruth DEF Interrupt, Process
  <2>16. CASE Unregister(p)
    <3>1. Part([file EXCEPT ![proc[p].vm] = NoEntry], file)
      BY <1>2 DEF Part, Registry
    <3>2. Grounded([file EXCEPT ![proc[p].vm] = NoEntry])
      BY <1>3, <3>1, GroundedPart
    <3>. QED BY <1>2, <1>3, <1>4, <2>16, <3>2, EndsTruth, OneProcessTruth
             DEF Unregister, Process
  <2>17. CASE ProbeHit(p)
    BY <1>2, <1>3, <1>4, <2>17, OneProcessTruth DEF ProbeHit, Process
  <2>18. CASE HostReady(p)
    BY <1>2, <1>3, <1>4, <2>18, OneProcessTruth DEF HostReady, Process
  <2>19. CASE WaitFails(p)
    BY <1>3, <1>4, <2>19, EndsTruth DEF WaitFails
  <2>20. ASSUME NEW h \in Pids, SpawnHost(p, h)
         PROVE  TruthInv'
    <3>1. /\ h \notin used /\ h # p /\ used' = used \cup {h}
          /\ \A q \in Pids \ {p, h} : proc'[q] = proc[q]
          /\ listener' = listener /\ file' = file
      BY <1>2, <2>20 DEF SpawnHost, Available, Born
    <3>2. proc[p].pc = "probe" /\ p \in used
      BY <2>20 DEF SpawnHost, TruthInv
    <3>3. /\ proc'[h].snap = Empty /\ proc'[h].wsnap = Empty
          /\ proc'[p].snap = proc[p].snap /\ proc'[p].wsnap = proc[p].wsnap
      BY <1>2, <2>20, <3>1 DEF SpawnHost, Gone, Process
    <3>4. WorldStep
      BY <1>1, <3>1, <3>2 DEF WorldStep, Departed, TypeInv, TypeOK
    <3>5. \A q \in Pids : Grounded(proc'[q].snap) /\ Grounded(proc'[q].wsnap)
      BY <1>3, <3>1, <3>3, EmptyGrounded
    <3>. QED BY <1>3, <1>4, <3>1, <3>2, <3>4, <3>5 DEF ProcessesPreserved, TruthInv
  <2>21. CASE Close(p)
    <3>. DEFINE V == Victims(p)
                D == DiesOfSigterm(V)
                table == Terminate(D, Signalled(V))
                rest == [v \in VMs |-> IF v \in Matching(p) THEN NoEntry ELSE file[v]]
    <3>1. CASE Matching(p) = {} /\ proc[p].prog = "close"
      BY <1>3, <1>4, <2>21, <3>1, EndsTruth DEF Close
    <3>2. CASE ~(Matching(p) = {} /\ proc[p].prog = "close")
      <4>1. /\ listener' = ListenersWithout(D) /\ file' = file /\ used' = used
            /\ proc' = IF p \in D THEN table
                       ELSE [table EXCEPT ![p].pc = "truncate", ![p].snap = rest,
                                          ![p].exits = TRUE]
            /\ proc[p].pc = "scan"
        BY <2>21, <3>2 DEF Close
      <4>2. V \in SUBSET used /\ D \in SUBSET Pids /\ D \subseteq used
        <5>1. \A v \in VMs : file[v] # NoEntry => file[v].pid \in used
          BY <1>3 DEF Grounded
        <5>2. V \in SUBSET used
          BY <5>1 DEF Victims, Matching
        <5>. QED BY <1>1, <5>2 DEF DiesOfSigterm, TypeInv, TypeOK
      <4>3. Signalled(V) \in [Pids -> Process]
        BY <1>2 DEF Signalled, Process
      <4>4. \A q \in Pids :
               \/ Signalled(V)[q] = proc[q]
               \/ /\ ~Departed(q) /\ Signalled(V)[q].pc = "stop"
                  /\ Signalled(V)[q].snap = proc[q].snap
                  /\ Signalled(V)[q].wsnap = proc[q].wsnap
        BY <1>2 DEF Signalled, Departed, Process
      <4>5. /\ \A q \in Pids : table[q] \in {Signalled(V)[q], Gone, Zombie}
            /\ \A q \in D : table[q].pc \in {"none", "zombie"}
            /\ table \in [Pids -> Process]
        <5>. HIDE DEF D, V
        <5>1. table \in [Pids -> Process]
          BY <4>3, TerminateType
        <5>2. \A q \in D : table[q].pc \in {"none", "zombie"}
          BY <4>2, DeadProcessPc DEF Terminate
        <5>3. \A q \in Pids : table[q] \in {Signalled(V)[q], Gone, Zombie}
          BY TerminateCases
        <5>. QED BY <5>1, <5>2, <5>3
      <4>. HIDE DEF D, V, table
      <4>6. \A q \in Pids : table[q].pc # "none" => q \in used
        <5>1. \A q \in Pids : table[q].pc # "none" =>
                 table[q] = Signalled(V)[q] \/ q \in D \/ Signalled(V)[q].pc = "zombie"
          BY DeadProcessPc DEF Terminate, table
        <5>. QED BY <4>2, <4>4, <5>1 DEF TruthInv, Departed
      <4>7. Gone.snap = Empty /\ Gone.wsnap = Empty /\ Zombie.snap = Empty /\ Zombie.wsnap = Empty
        BY DEF Gone, Zombie
      <4>8. \A q \in Pids : Grounded(table[q].snap) /\ Grounded(table[q].wsnap)
        BY <1>3, <4>4, <4>5, <4>7, EmptyGrounded
      <4>9. Grounded(rest)
        <5>1. Part(rest, file)
          BY DEF Part
        <5>. QED BY <1>3, <5>1, GroundedPart
      <4>10. /\ \A q \in Pids \ {p} : proc'[q] = table[q]
             /\ p \in D => proc'[p] = table[p]
             /\ p \notin D => /\ proc'[p].snap = rest /\ proc'[p].wsnap = table[p].wsnap
                              /\ proc'[p].pc = "truncate"
        <5>. HIDE DEF rest
        <5>. QED BY <4>1, <4>5 DEF Process
      <4>11. WorldStep
        <5>1. ASSUME NEW q \in used, Departed(q)
              PROVE  proc'[q].pc \in {"none", "zombie"}
          <6>1. q # p /\ q \in Pids
            BY <1>1, <4>1, <5>1 DEF Departed, TypeInv, TypeOK
          <6>2. Signalled(V)[q] = proc[q]
            BY <4>4, <5>1, <6>1
          <6>. QED BY <4>5, <4>10, <5>1, <6>1, <6>2, DeadProcessPc DEF Departed
        <5>2. \A q \in D : proc'[q].pc \in {"none", "zombie"}
          BY <4>2, <4>5, <4>10
        <5>3. \A pt \in Ports : \/ listener'[pt] = listener[pt]
                                \/ listener[pt].pid \in D
          BY <4>1 DEF ListenersWithout
        <5>. QED BY <4>1, <5>1, <5>2, <5>3 DEF WorldStep
      <4>12. \A q \in Pids : proc'[q].pc # "none" => q \in used'
        BY <4>1, <4>6, <4>10 DEF TruthInv
      <4>13. \A q \in Pids : Grounded(proc'[q].snap) /\ Grounded(proc'[q].wsnap)
        BY <4>8, <4>9, <4>10
      <4>. QED BY <1>3, <1>4, <4>1, <4>11, <4>12, <4>13 DEF ProcessesPreserved
    <3>. QED BY <3>1, <3>2
  <2>. QED
    BY <1>6, <2>1, <2>2, <2>3, <2>4, <2>5, <2>6, <2>7, <2>8, <2>9, <2>10, <2>11,
       <2>12, <2>13, <2>14, <2>15, <2>16, <2>17, <2>18, <2>19, <2>20, <2>21 DEF Step
<1>7. CASE UNCHANGED vars
  BY <1>7 DEF vars, TruthInv, TypeInv, TypeOK, Shape, Grounded, Departed, Carries
<1>8. CASE \E pt \in Ports : AcceptError(pt)
  BY <1>8 DEF AcceptError
<1>. QED BY <1>5, <1>6, <1>7, <1>8 DEF Next

(* On a machine that does not recycle pids and where accept() does not     *)
(* fail, every copy of the registry is truthful in every reachable state.  *)
THEOREM RegistryTruth ==
    ASSUME ~Recycle, ~AcceptErrors
    PROVE  Spec => []RegistryTruthful
<1>1. Init => TruthInv
  BY TruthInit
<1>2. TruthInv /\ [Next]_vars => TruthInv'
  BY TruthStep
<1>3. TruthInv => RegistryTruthful
  BY DEF TruthInv, RegistryTruthful, Grounded, Truthful
<1>. QED BY <1>1, <1>2, <1>3, PTL DEF Spec

-----------------------------------------------------------------------------
(* Who is where.  The place of a process in its program, which programs    *)
(* ever listen, and who is waited for: what the action properties need,    *)
(* and what holds however pids are recycled and accept loops end.          *)

(* The program a process runs, by the place it is at; a host that has its *)
(* tunnel knows the port.                                                  *)
RoleOf(r) ==
    /\ r.pc \in {"none", "zombie"} => r.prog = "none"
    /\ r.pc = "scan" => r.prog \in {"close", "closeAll"}
    /\ r.pc \in {"load", "open"} => r.prog \in {"session", "private", "host"}
    /\ r.pc = "confirm" => r.prog = "host"
    /\ r.pc \in {"probe", "wait"} => r.prog = "code"
    /\ r.child # NoPid => r.prog = "code"
    /\ r.exits => r.pc \in {"truncate", "write"}
    /\ r.prog = "host" /\ r.pc \in {"truncate", "write", "confirm"} =>
          r.exits \/ r.port \in Ports

(* A process that may hold a tunnel to v. *)
Holds(r, v) ==
    /\ r.pc \notin {"none", "zombie"}
    /\ r.prog \notin {"close", "closeAll"}
    /\ r.prog = "host" => r.vm = v

Roles(table, ls) ==
    /\ \A q \in Pids : RoleOf(table[q])
    /\ \A q \in Pids : table[q].child \in Pids => table[table[q].child].pc # "none"
    /\ \A pt \in Ports : ls[pt].pid \in Pids => Holds(table[ls[pt].pid], ls[pt].vm)

RoleInv == TypeInv /\ Roles(proc, listener)

LEMMA DeadRoles ==
    /\ RoleOf(Gone) /\ RoleOf(Zombie)
    /\ Gone.child = NoPid /\ Zombie.child = NoPid
BY DEF RoleOf, Gone, Zombie

LEMMA TerminateRoles ==
    ASSUME NEW D, NEW table \in [Pids -> Process], NEW ls \in [Ports -> Listener],
           Roles(table, ls)
    PROVE  Roles(Terminate(D, table),
                 [pt \in Ports |-> IF ls[pt].pid \in D THEN Unbound ELSE ls[pt]])
<1>. DEFINE T == Terminate(D, table)
            L == [pt \in Ports |-> IF ls[pt].pid \in D THEN Unbound ELSE ls[pt]]
<1>1. \A q \in Pids : T[q] = table[q] \/ T[q] = Gone \/ T[q] = Zombie
  BY TerminateCases
<1>2. \A q \in Pids : q \notin D /\ table[q].pc # "zombie" => T[q] = table[q]
  BY DEF Terminate
<1>3. ASSUME NEW q \in Pids, T[q].child \in Pids PROVE T[T[q].child].pc # "none"
  <2>1. T[q] = table[q]
    BY <1>1, <1>3, DeadRoles, ConstantsAssumption
  <2>. DEFINE c == table[q].child
  <2>2. c \in Pids /\ c # NoPid /\ table[c].pc # "none" /\ table[q].prog = "code"
    BY <1>3, <2>1, ConstantsAssumption DEF Roles, RoleOf
  <2>3. q \notin D
    BY <1>3, <2>1, <2>2, ConstantsAssumption DEF Terminate, Gone, Zombie
  <2>4. T[c] = table[c] \/ T[c] = Zombie
    BY <2>2, <2>3 DEF Terminate
  <2>. QED BY <2>1, <2>2, <2>4, DeadProcessPc
<1>4. ASSUME NEW pt \in Ports, L[pt].pid \in Pids
      PROVE  Holds(T[L[pt].pid], L[pt].vm)
  <2>1. L[pt] = ls[pt] /\ ls[pt].pid \notin D
    BY <1>4, ConstantsAssumption DEF Unbound
  <2>2. Holds(table[ls[pt].pid], ls[pt].vm)
    BY <1>4, <2>1 DEF Roles
  <2>3. T[ls[pt].pid] = table[ls[pt].pid]
    BY <1>2, <1>4, <2>1, <2>2 DEF Holds
  <2>. QED BY <2>1, <2>2, <2>3
<1>5. \A q \in Pids : RoleOf(T[q])
  BY <1>1, DeadRoles DEF Roles
<1>. QED BY <1>3, <1>4, <1>5 DEF Roles

LEMMA EndsRoles ==
    ASSUME RoleInv, NEW p \in Pids, Ends(p)
    PROVE  Roles(proc', listener')
BY TerminateRoles DEF RoleInv, TypeInv, TypeOK, Ends, ListenersWithout

(* Only the record of one process changes, and neither its program, nor    *)
(* its child, nor whether it lives, nor the VM of a host; no one listens   *)
(* who did not.                                                            *)
LEMMA OneProcessRoles ==
    ASSUME RoleInv, NEW p \in Pids, proc' \in [Pids -> Process],
           \A q \in Pids \ {p} : proc'[q] = proc[q],
           proc'[p].prog = proc[p].prog, proc'[p].child = proc[p].child,
           proc[p].prog = "host" => proc'[p].vm = proc[p].vm,
           \/ proc'[p].pc = proc[p].pc
           \/ {proc'[p].pc, proc[p].pc} \cap {"none", "zombie"} = {},
           RoleOf(proc'[p]),
           \A pt \in Ports : \/ listener'[pt] = listener[pt]
                             \/ listener'[pt].pid \notin Pids
                             \/ Holds(proc'[listener'[pt].pid], listener'[pt].vm)
    PROVE  Roles(proc', listener')
<1>1. \A q \in Pids : RoleOf(proc'[q])
  BY DEF RoleInv, Roles
<1>2. \A q \in Pids : proc'[q].pc = "none" => proc[q].pc = "none"
  OBVIOUS
<1>3. \A q \in Pids : proc'[q].child = proc[q].child
  OBVIOUS
<1>4. \A v : \A q \in Pids : Holds(proc[q], v) => Holds(proc'[q], v)
  BY DEF Holds
<1>. QED BY <1>1, <1>2, <1>3, <1>4 DEF RoleInv, Roles

LEMMA RoleInit == Init => RoleInv
<1>. SUFFICES ASSUME Init PROVE RoleInv
  OBVIOUS
<1>1. TypeInv
  BY TypeInit
<1>2. Unbound.pid \notin Pids
  BY ConstantsAssumption DEF Unbound
<1>3. CASE proc = [p \in Pids |-> Gone] /\ listener = [pt \in Ports |-> Unbound]
  BY <1>1, <1>2, <1>3, DeadRoles, ConstantsAssumption DEF RoleInv, Roles
<1>4. ASSUME NEW q \in Pids, NEW pt \in Ports, NEW v \in VMs,
             proc = [p \in Pids |->
                        IF p = q THEN [Gone EXCEPT !.prog = "az", !.pc = "run"]
                                 ELSE Gone],
             listener = [t \in Ports |->
                            IF t = pt THEN [pid |-> q, vm |-> v] ELSE Unbound]
      PROVE  RoleInv
  <2>. DEFINE az == [Gone EXCEPT !.prog = "az", !.pc = "run"]
  <2>1. RoleOf(az) /\ az.child = NoPid /\ Holds(az, v)
    BY DEF Gone, RoleOf, Holds
  <2>2. \A p \in Pids : RoleOf(proc[p]) /\ proc[p].child \notin Pids
    BY <1>4, <2>1, DeadRoles, ConstantsAssumption
  <2>3. ASSUME NEW t \in Ports, listener[t].pid \in Pids
        PROVE  Holds(proc[listener[t].pid], listener[t].vm)
    <3>1. listener[t] = [pid |-> q, vm |-> v] /\ proc[q] = az
      BY <1>2, <1>4, <2>3
    <3>. QED BY <2>1, <3>1
  <2>. QED BY <1>1, <2>2, <2>3 DEF RoleInv, Roles
<1>. QED BY <1>3, <1>4 DEF Init

LEMMA RoleStep == RoleInv /\ [Next]_vars => RoleInv'
<1>. SUFFICES ASSUME RoleInv, [Next]_vars PROVE RoleInv'
  OBVIOUS
<1>1. TypeInv /\ TypeInv' /\ Roles(proc, listener)
  BY TypeStep DEF RoleInv
<1>2. /\ proc \in [Pids -> Process] /\ proc' \in [Pids -> Process]
      /\ \A q \in Pids : RoleOf(proc[q]) /\ proc[q] \in Process
  BY <1>1 DEF TypeInv, TypeOK, Roles
<1>3. SUFFICES Roles(proc, listener)'
  BY <1>1 DEF RoleInv
<1>4. ASSUME NEW p \in Pids, NEW prog \in Programs, NEW v \in VMs, Start(p, prog, v)
      PROVE  Roles(proc, listener)'
  <2>. DEFINE vm == IF prog \in {"closeAll", "other"} THEN NoVm ELSE v
              rec == [Gone EXCEPT !.prog = prog, !.pc = FirstStep[prog], !.vm = vm]
  <2>1. prog \in AllPrograms
    BY ConstantsAssumption
  <2>2. /\ rec.prog = prog /\ rec.pc = FirstStep[prog] /\ rec.child = NoPid
        /\ ~rec.exits /\ proc' = [proc EXCEPT ![p] = rec] /\ proc[p].pc = "none"
        /\ listener' = listener
    BY <1>4 DEF Start, Gone, Available
  <2>3. RoleOf(rec) /\ rec.pc # "none"
    <3>. HIDE DEF rec
    <3>. QED BY <2>1, <2>2 DEF FirstStep, RoleOf, AllPrograms
  <2>4. \A q \in Pids : proc'[q] = IF q = p THEN rec ELSE proc[q]
    BY <1>2, <2>2
  <2>. HIDE DEF rec
  <2>5. \A q \in Pids : RoleOf(proc'[q])
    BY <1>2, <2>3, <2>4
  <2>6. \A q \in Pids : proc'[q].child \in Pids => proc'[proc'[q].child].pc # "none"
    BY <1>1, <2>2, <2>3, <2>4, ConstantsAssumption DEF Roles
  <2>7. \A t \in Ports : listener[t].pid # p
    BY <1>1, <2>2 DEF Roles, Holds
  <2>. QED BY <1>1, <2>2, <2>4, <2>5, <2>6, <2>7 DEF Roles
<1>5. ASSUME NEW pt \in Ports, AcceptError(pt)
      PROVE  Roles(proc, listener)'
  <2>1. \A t \in Ports : listener'[t] = listener[t] \/ listener'[t].pid \notin Pids
    BY <1>1, <1>5, ConstantsAssumption DEF AcceptError, Unbound, TypeInv, TypeOK
  <2>2. proc' = proc
    BY <1>5 DEF AcceptError
  <2>. QED BY <1>1, <2>1, <2>2 DEF Roles
<1>6. ASSUME NEW p \in Pids, Step(p)
      PROVE  Roles(proc, listener)'
  <2>. USE DEF RoleOf, Process
  <2>1. CASE Exit(p)
    BY <2>1, EndsRoles DEF Exit
  <2>2. CASE Reuse(p)
    <3>. DEFINE port == Prune(file)[proc[p].vm].port
    <3>0. port \in Ports
      <4>1. proc[p].vm \in VMs /\ Prune(file)[proc[p].vm] # NoEntry
        BY <1>1, <2>2 DEF Reuse, Reusable, TypeInv, Shape
      <4>2. Prune(file) \in Registry
        BY <1>1, PruneType DEF TypeInv, TypeOK
      <4>. QED BY <4>1, <4>2, EntryOrNone
    <3>. HIDE DEF port
    <3>1. /\ \A q \in Pids \ {p} : proc'[q] = proc[q]
          /\ proc'[p].prog = proc[p].prog /\ proc'[p].child = proc[p].child
          /\ proc'[p].vm = proc[p].vm /\ listener' = listener
          /\ proc[p].pc = "load" /\ proc'[p].pc = Returns(p)
          /\ proc'[p].exits = proc[p].exits /\ proc'[p].port = port
      <4>1. proc' = [proc EXCEPT ![p].pc = Returns(p), ![p].port = port,
                                 ![p].wd = WatchdogStarted(p)]
            /\ proc[p].pc = "load" /\ listener' = listener
        BY <2>2 DEF Reuse, port
      <4>. QED BY <1>2, <4>1
    <3>2. Returns(p) = "ready" \/ (Returns(p) = "confirm" /\ proc[p].prog = "host")
      BY DEF Returns
    <3>. QED BY <1>2, <3>0, <3>1, <3>2, OneProcessRoles
  <2>3. CASE Miss(p)
    <3>1. /\ \A q \in Pids \ {p} : proc'[q] = proc[q]
          /\ proc'[p].prog = proc[p].prog /\ proc'[p].child = proc[p].child
          /\ proc'[p].vm = proc[p].vm /\ listener' = listener
          /\ proc[p].pc = "load" /\ proc'[p].pc = "open"
          /\ proc'[p].exits = proc[p].exits
      BY <1>2, <2>3 DEF Miss
    <3>. QED BY <1>2, <3>1, OneProcessRoles
  <2>4. CASE OpenFail(p)
    BY <1>2, <2>4, EndsRoles, OneProcessRoles DEF OpenFail
  <2>5. ASSUME NEW pt \in Ports, Open(p, pt)
        PROVE  Roles(proc, listener)'
    <3>1. /\ \A q \in Pids \ {p} : proc'[q] = proc[q]
          /\ proc'[p].prog = proc[p].prog /\ proc'[p].child = proc[p].child
          /\ proc'[p].vm = proc[p].vm /\ proc[p].pc = "open"
          /\ proc'[p].exits = proc[p].exits /\ proc'[p].port = pt
          /\ \/ proc'[p].pc \in {"truncate", "ready"}
             \/ proc'[p].pc = "confirm" /\ proc[p].prog = "host"
      BY <1>2, <2>5 DEF Open, Returns
    <3>2. RoleOf(proc'[p]) /\ Holds(proc'[p], proc[p].vm)
      BY <1>2, <3>1 DEF Holds
    <3>3. \A t \in Ports : \/ listener'[t] = listener[t]
                           \/ listener'[t] = [pid |-> p, vm |-> proc[p].vm]
      BY <1>1, <2>5 DEF Open, TypeInv, TypeOK
    <3>4. \A t \in Ports : \/ listener'[t] = listener[t]
                           \/ Holds(proc'[listener'[t].pid], listener'[t].vm)
      BY <3>2, <3>3
    <3>. QED BY <1>2, <3>1, <3>2, <3>4, OneProcessRoles
  <2>6. ASSUME NEW pt \in Ports, ForeignBind(p, pt)
        PROVE  Roles(proc, listener)'
    <3>1. Holds(proc[p], NoVm) /\ proc' = proc
      BY <1>2, <2>6 DEF ForeignBind, Holds
    <3>2. \A t \in Ports : \/ listener'[t] = listener[t]
                           \/ listener'[t] = [pid |-> p, vm |-> NoVm]
      BY <1>1, <2>6 DEF ForeignBind, TypeInv, TypeOK
    <3>3. \A t \in Ports : \/ listener'[t] = listener[t]
                           \/ Holds(proc'[listener'[t].pid], listener'[t].vm)
      BY <3>1, <3>2
    <3>. QED BY <1>1, <3>1, <3>3 DEF Roles
  <2>7. ASSUME NEW v \in VMs, CallAgain(p, v)
        PROVE  Roles(proc, listener)'
    <3>1. /\ \A q \in Pids \ {p} : proc'[q] = proc[q]
          /\ proc'[p].prog = proc[p].prog /\ proc'[p].child = proc[p].child
          /\ proc[p].prog \in {"session", "private"} /\ listener' = listener
          /\ proc[p].pc = "ready" /\ proc'[p].pc = "load"
          /\ proc'[p].exits = proc[p].exits
      BY <1>2, <2>7 DEF CallAgain
    <3>. QED BY <1>2, <3>1, OneProcessRoles
  <2>8. CASE SaveTruncate(p)
    <3>1. /\ \A q \in Pids \ {p} : proc'[q] = proc[q]
          /\ proc'[p].prog = proc[p].prog /\ proc'[p].child = proc[p].child
          /\ proc'[p].vm = proc[p].vm /\ listener' = listener
          /\ proc[p].pc = "truncate" /\ proc'[p].pc = "write"
          /\ proc'[p].port = proc[p].port
          /\ proc'[p].exits = proc[p].exits
      BY <1>2, <2>8 DEF SaveTruncate
    <3>. QED BY <1>2, <3>1, OneProcessRoles
  <2>9. CASE SaveWrite(p)
    BY <1>2, <2>9, EndsRoles, OneProcessRoles DEF SaveWrite, Returns
  <2>10. CASE SaveFail(p)
    BY <1>2, <2>10, EndsRoles, OneProcessRoles DEF SaveFail
  <2>11. CASE WatchdogScan(p)
    <3>1. /\ \A q \in Pids \ {p} : proc'[q] = proc[q]
          /\ proc'[p].prog = proc[p].prog /\ proc'[p].child = proc[p].child
          /\ proc'[p].vm = proc[p].vm /\ proc'[p].pc = proc[p].pc
          /\ proc'[p].exits = proc[p].exits /\ proc'[p].port = proc[p].port
          /\ listener' = listener
      BY <1>2, <2>11 DEF WatchdogScan
    <3>. QED BY <1>2, <3>1, OneProcessRoles
  <2>12. CASE WatchdogTruncate(p)
    <3>1. /\ \A q \in Pids \ {p} : proc'[q] = proc[q]
          /\ proc'[p].prog = proc[p].prog /\ proc'[p].child = proc[p].child
          /\ proc'[p].vm = proc[p].vm /\ listener' = listener
          /\ proc'[p].pc = proc[p].pc /\ proc'[p].port = proc[p].port
          /\ proc'[p].exits = proc[p].exits
      BY <1>2, <2>12 DEF WatchdogTruncate
    <3>. QED BY <1>2, <3>1, OneProcessRoles
  <2>13. CASE WatchdogWrite(p)
    <3>1. /\ \A q \in Pids \ {p} : proc'[q] = proc[q]
          /\ proc'[p].prog = proc[p].prog /\ proc'[p].child = proc[p].child
          /\ proc'[p].vm = proc[p].vm /\ proc'[p].pc = proc[p].pc
          /\ proc'[p].exits = proc[p].exits /\ proc'[p].port = proc[p].port
          /\ listener' = listener
      BY <1>2, <2>13 DEF WatchdogWrite
    <3>. QED BY <1>2, <3>1, OneProcessRoles
  <2>14. CASE Confirm(p)
    BY <1>2, <2>14, EndsRoles, OneProcessRoles DEF Confirm
  <2>15. CASE Interrupt(p)
    <3>1. /\ \A q \in Pids \ {p} : proc'[q] = proc[q]
          /\ proc'[p].prog = proc[p].prog /\ proc'[p].child = proc[p].child
          /\ proc'[p].vm = proc[p].vm /\ listener' = listener
          /\ proc[p].pc = "serve" /\ proc'[p].pc = "stop"
          /\ proc'[p].exits = proc[p].exits
      BY <1>2, <2>15 DEF Interrupt
    <3>. QED BY <1>2, <3>1, OneProcessRoles
  <2>16. CASE Unregister(p)
    BY <1>2, <2>16, EndsRoles, OneProcessRoles DEF Unregister
  <2>17. CASE ProbeHit(p)
    <3>1. /\ \A q \in Pids \ {p} : proc'[q] = proc[q]
          /\ proc'[p].prog = proc[p].prog /\ proc'[p].child = proc[p].child
          /\ proc'[p].vm = proc[p].vm /\ listener' = listener
          /\ proc[p].pc = "probe" /\ proc'[p].pc = "ready"
          /\ proc'[p].exits = proc[p].exits
      BY <1>2, <2>17 DEF ProbeHit
    <3>. QED BY <1>2, <3>1, OneProcessRoles
  <2>18. CASE HostReady(p)
    <3>1. /\ \A q \in Pids \ {p} : proc'[q] = proc[q]
          /\ proc'[p].prog = proc[p].prog /\ proc'[p].child = proc[p].child
          /\ proc'[p].vm = proc[p].vm /\ listener' = listener
          /\ proc[p].pc = "wait" /\ proc'[p].pc = "ready"
          /\ proc'[p].exits = proc[p].exits
      BY <1>2, <2>18 DEF HostReady
    <3>. QED BY <1>2, <3>1, OneProcessRoles
  <2>19. CASE WaitFails(p)
    BY <2>19, EndsRoles DEF WaitFails
  <2>20. ASSUME NEW h \in Pids, SpawnHost(p, h)
         PROVE  Roles(proc, listener)'
    <3>. DEFINE rec == [Gone EXCEPT !.prog = "host", !.pc = "load", !.vm = proc[p].vm]
                wait == [proc[p] EXCEPT !.pc = "wait", !.child = h]
    <3>1. /\ h # p /\ proc[h].pc = "none" /\ proc[p].pc = "probe"
          /\ listener' = listener
      BY <2>20 DEF SpawnHost, Available
    <3>2. /\ rec.prog = "host" /\ rec.pc = "load" /\ rec.child = NoPid
          /\ ~rec.exits /\ ~wait.exits /\ wait.prog = "code" /\ wait.pc = "wait" /\ wait.child = h
      BY <1>2, <3>1 DEF Gone
    <3>3. \A q \in Pids :
             proc'[q] = IF q = h THEN rec ELSE IF q = p THEN wait ELSE proc[q]
      BY <1>2, <2>20, <3>1 DEF SpawnHost
    <3>. HIDE DEF rec, wait
    <3>4. \A q \in Pids : RoleOf(proc'[q])
      BY <1>2, <3>2, <3>3
    <3>5. \A q \in Pids : proc[q].pc # "none" => proc'[q].pc # "none"
      BY <3>2, <3>3
    <3>6. \A q \in Pids : proc'[q].child \in Pids => proc'[proc'[q].child].pc # "none"
      BY <1>1, <3>2, <3>3, <3>5, ConstantsAssumption DEF Roles
    <3>7. \A v : \A q \in Pids : Holds(proc[q], v) => Holds(proc'[q], v)
      BY <1>2, <3>1, <3>2, <3>3 DEF Holds
    <3>. QED BY <1>1, <3>1, <3>4, <3>6, <3>7 DEF Roles
  <2>21. CASE Close(p)
    <3>. DEFINE V == Victims(p)
                D == DiesOfSigterm(V)
                S == Signalled(V)
                table == Terminate(D, S)
                rest == [v \in VMs |-> IF v \in Matching(p) THEN NoEntry ELSE file[v]]
    <3>1. CASE Matching(p) = {} /\ proc[p].prog = "close"
      BY <2>21, <3>1, EndsRoles DEF Close
    <3>2. CASE ~(Matching(p) = {} /\ proc[p].prog = "close")
      <4>1. /\ listener' = ListenersWithout(D)
            /\ proc' = IF p \in D THEN table
                       ELSE [table EXCEPT ![p].pc = "truncate", ![p].snap = rest,
                                          ![p].exits = TRUE]
            /\ proc[p].pc = "scan"
        BY <2>21, <3>2 DEF Close
      <4>2. S \in [Pids -> Process]
        BY <1>2 DEF Signalled
      <4>3. \A q \in Pids :
               S[q] = proc[q] \/ /\ S[q].pc = "stop" /\ proc[q].prog = "host"
                                 /\ proc[q].pc = "serve"
                                 /\ S[q].prog = proc[q].prog /\ S[q].vm = proc[q].vm
                                 /\ S[q].child = proc[q].child
                                 /\ S[q].exits = proc[q].exits
        BY <1>2 DEF Signalled, HandlesSigterm
      <4>4. Roles(S, listener)
        <5>. HIDE DEF S
        <5>1. \A q \in Pids : RoleOf(S[q]) /\ S[q].child = proc[q].child
          BY <1>2, <4>3
        <5>2. \A q \in Pids : S[q].pc = "none" => proc[q].pc = "none"
          BY <4>3
        <5>3. \A v : \A q \in Pids : Holds(proc[q], v) => Holds(S[q], v)
          BY <4>3 DEF Holds
        <5>. QED BY <1>1, <5>1, <5>2, <5>3 DEF Roles
      <4>5. Roles(table, listener')
        <5>1. listener \in [Ports -> Listener]
          BY <1>1 DEF TypeInv, TypeOK
        <5>2. listener' = [pt \in Ports |-> IF listener[pt].pid \in D THEN Unbound
                                                                  ELSE listener[pt]]
          BY <4>1 DEF ListenersWithout
        <5>. HIDE DEF S, D
        <5>. QED BY <4>2, <4>4, <5>1, <5>2, TerminateRoles
      <4>6. table[p] \in Process /\ table \in [Pids -> Process]
        <5>. HIDE DEF S, D
        <5>. QED BY <4>2, TerminateType
      <4>7. CASE p \in D
        BY <4>1, <4>5, <4>7
      <4>8. CASE p \notin D
        <5>1. table[p].pc # "none" /\ table[p] = S[p]
          <6>1. S[p] = proc[p]
            BY <4>1, <4>3
          <6>. HIDE DEF S, D
          <6>. QED BY <4>1, <4>8, <6>1 DEF Terminate
        <5>2. S[p] = proc[p]
          BY <4>1, <4>3
        <5>. HIDE DEF table, S, D, rest
        <5>3. /\ \A q \in Pids \ {p} : proc'[q] = table[q]
              /\ proc'[p].pc = "truncate" /\ proc'[p].prog = table[p].prog
              /\ proc'[p].child = table[p].child /\ proc'[p].vm = table[p].vm
              /\ proc'[p].exits = TRUE
          BY <4>1, <4>6, <4>8
        <5>4. \A q \in Pids : RoleOf(proc'[q]) /\ proc'[q].child = table[q].child
          BY <1>2, <4>1, <4>5, <5>1, <5>2, <5>3 DEF Roles
        <5>5. \A q \in Pids : table[q].pc # "none" => proc'[q].pc # "none"
          BY <5>3
        <5>6. \A v : \A q \in Pids : Holds(table[q], v) => Holds(proc'[q], v)
          BY <5>3 DEF Holds
        <5>. QED BY <4>5, <5>4, <5>5, <5>6 DEF Roles
      <4>. QED BY <4>7, <4>8
    <3>. QED BY <3>1, <3>2
  <2>. QED
    BY <1>6, <2>1, <2>2, <2>3, <2>4, <2>5, <2>6, <2>7, <2>8, <2>9, <2>10, <2>11,
       <2>12, <2>13, <2>14, <2>15, <2>16, <2>17, <2>18, <2>19, <2>20, <2>21 DEF Step
<1>7. CASE UNCHANGED vars
  BY <1>1, <1>7 DEF vars, Roles
<1>. QED BY <1>4, <1>5, <1>6, <1>7 DEF Next

(* A death leaves the other living processes as they are. *)
LEMMA EndsSpares ==
    ASSUME NEW p \in Pids, NEW q \in Pids \ {p}, Ends(p), ~Departed(q)
    PROVE  proc'[q] = proc[q]
BY DEF Ends, Terminate, Departed

(* Only `tunnel close` moves another living process: it kills its victims, *)
(* or tells them to stop.                                                  *)
LEMMA OthersMove ==
    ASSUME TypeInv, NEW p \in Pids, Step(p), NEW q \in Pids \ {p}, ~Departed(q),
           proc'[q].pc # proc[q].pc
    PROVE  /\ Close(p) /\ q \in Victims(p)
           /\ proc'[q].pc \in {"none", "zombie", "stop"}
<1>1. proc \in [Pids -> Process]
  BY DEF TypeInv, TypeOK
<1>2. ~Ends(p)
  BY EndsSpares
<1>3. ~Exit(p) /\ ~WaitFails(p)
  BY <1>2 DEF Exit, WaitFails
<1>4. ~Reuse(p) /\ ~Miss(p) /\ ~ProbeHit(p) /\ ~HostReady(p)
  BY <1>1 DEF Reuse, Miss, ProbeHit, HostReady
<1>5. \A pt \in Ports : ~Open(p, pt) /\ ~ForeignBind(p, pt)
  BY <1>1 DEF Open, ForeignBind
<1>6. ~OpenFail(p) /\ ~SaveWrite(p) /\ ~SaveFail(p)
  BY <1>1, <1>2 DEF OpenFail, SaveWrite, SaveFail
<1>7. ~SaveTruncate(p) /\ \A v \in VMs : ~CallAgain(p, v)
  BY <1>1 DEF SaveTruncate, CallAgain
<1>8. ~WatchdogScan(p) /\ ~WatchdogTruncate(p) /\ ~WatchdogWrite(p)
  BY <1>1 DEF WatchdogScan, WatchdogTruncate, WatchdogWrite
<1>9. ~Confirm(p) /\ ~Interrupt(p) /\ ~Unregister(p)
  BY <1>1, <1>2 DEF Confirm, Interrupt, Unregister
<1>10. \A h \in Pids : ~SpawnHost(p, h)
  <2>. SUFFICES ASSUME NEW h \in Pids, SpawnHost(p, h) PROVE FALSE
    OBVIOUS
  <2>1. h # q
    BY DEF SpawnHost, Available, Departed
  <2>. QED BY <1>1, <2>1 DEF SpawnHost
<1>11. Close(p)
  BY <1>3, <1>4, <1>5, <1>6, <1>7, <1>8, <1>9, <1>10 DEF Step
<1>. DEFINE V == Victims(p)
            D == DiesOfSigterm(V)
            table == Terminate(D, Signalled(V))
<1>12. proc'[q] = table[q]
  <2>. DEFINE rest == [v \in VMs |-> IF v \in Matching(p) THEN NoEntry ELSE file[v]]
  <2>1. \/ proc' = table
        \/ proc' = [table EXCEPT ![p].pc = "truncate", ![p].snap = rest, ![p].exits = TRUE]
    BY <1>2, <1>11 DEF Close
  <2>2. table = [i \in Pids |-> table[i]]
    BY DEF Terminate
  <2>. HIDE DEF table, rest
  <2>. QED BY <2>1, <2>2
<1>13. q \in D => table[q].pc \in {"none", "zombie"}
  BY DeadProcessPc DEF Terminate
<1>14. Signalled(V)[q] = proc[q] \/ (q \in V /\ Signalled(V)[q].pc = "stop")
  <2>1. proc[q] \in Process
    BY <1>1
  <2>2. [proc[q] EXCEPT !.pc = "stop"].pc = "stop"
    BY <2>1 DEF Process
  <2>. HIDE DEF V
  <2>. QED BY <2>2 DEF Signalled
<1>15. q \notin D => table[q] = Signalled(V)[q]
  BY <1>14 DEF Terminate, Departed
<1>16. q \in D => q \in V
  BY DEF DiesOfSigterm
<1>. QED BY <1>11, <1>12, <1>13, <1>14, <1>15, <1>16

(* How a process that lives on leaves the places of interest. *)
LEMMA OwnMove ==
    ASSUME RoleInv, [Next]_vars, NEW p \in Pids,
           proc[p].pc \in {"load", "confirm", "probe", "wait"},
           proc'[p].pc \in {"ready", "confirm", "serve"},
           proc'[p].pc # proc[p].pc
    PROVE  Reuse(p) \/ Confirm(p) \/ ProbeHit(p) \/ HostReady(p)
<1>1. proc \in [Pids -> Process] /\ TypeInv /\ ~Departed(p)
  BY DEF RoleInv, TypeInv, TypeOK, Departed
<1>2. ASSUME NEW q \in Pids, NEW prog \in Programs, NEW v \in VMs, Start(q, prog, v)
      PROVE  FALSE
  BY <1>1, <1>2 DEF Start, Available
<1>3. ~UNCHANGED vars /\ \A pt \in Ports : ~AcceptError(pt)
  BY DEF vars, AcceptError
<1>4. PICK q \in Pids : Step(q)
  BY <1>2, <1>3 DEF Next
<1>5. q = p
  BY <1>1, <1>4, OthersMove
<1>6. ~Ends(p)
  BY <1>1, DeadProcessPc DEF Ends, Terminate
<1>7. ~Exit(p) /\ ~WaitFails(p)
  BY <1>6 DEF Exit, WaitFails
<1>8. \A pt \in Ports : ~Open(p, pt) /\ ~ForeignBind(p, pt)
  BY DEF Open, ForeignBind
<1>9. ~Miss(p) /\ ~OpenFail(p) /\ ~SaveTruncate(p) /\ ~SaveWrite(p) /\ ~SaveFail(p)
  BY <1>1 DEF Miss, OpenFail, SaveTruncate, SaveWrite, SaveFail, Process
<1>10. \A v \in VMs : ~CallAgain(p, v)
  BY DEF CallAgain
<1>11. ~WatchdogScan(p) /\ ~WatchdogTruncate(p) /\ ~WatchdogWrite(p)
  <2>1. WatchdogScan(p) => proc'[p].pc = proc[p].pc
    BY <1>1 DEF WatchdogScan, Process
  <2>2. WatchdogTruncate(p) => proc'[p].pc = proc[p].pc
    BY <1>1 DEF WatchdogTruncate, Process
  <2>3. WatchdogWrite(p) => proc'[p].pc = proc[p].pc
    BY <1>1 DEF WatchdogWrite, Process
  <2>. QED BY <2>1, <2>2, <2>3
<1>12. ~Interrupt(p) /\ ~Unregister(p) /\ ~Close(p)
  BY DEF Interrupt, Unregister, Close
<1>13. \A h \in Pids : ~SpawnHost(p, h)
  <2>. SUFFICES ASSUME NEW h \in Pids, SpawnHost(p, h) PROVE FALSE
    OBVIOUS
  <2>1. h # p
    BY DEF SpawnHost, Available
  <2>. QED BY <1>1, <2>1 DEF SpawnHost, Process
<1>. QED BY <1>4, <1>5, <1>7, <1>8, <1>9, <1>10, <1>11, <1>12, <1>13 DEF Step

-----------------------------------------------------------------------------
(* Whatever happened to the registry, and although pids are recycled and   *)
(* accept loops end, a tunnel host starts serving only on a listener of    *)
(* its own that carries connections to its VM.                             *)
THEOREM HostOnItsOwnTunnel == Spec => HostStartsOnItsOwnTunnel
<1>1. ASSUME RoleInv, [Next]_vars, NEW p \in Pids,
             proc[p].pc = "confirm", proc'[p].pc = "serve"
      PROVE  Carries(p, proc[p].port, proc[p].vm)
  <2>1. Confirm(p)
    BY <1>1, OwnMove DEF Reuse, ProbeHit, HostReady
  <2>2. TypeInv /\ proc[p] \in Process
    BY <1>1 DEF RoleInv, TypeInv, TypeOK
  <2>3. ~Ends(p)
    BY <1>1, DeadProcessPc DEF Ends, Terminate
  <2>4. OwnsPort(p, proc[p].port)
    BY <2>1, <2>3 DEF Confirm, ListenerComesUp
  <2>5. proc[p].prog = "host" /\ proc[p].child = NoPid
    BY <1>1 DEF RoleInv, Roles, RoleOf
  <2>6. listener[proc[p].port].pid = p
    BY <2>4, <2>5 DEF OwnsPort, ListenerOwners, ProcessTree
  <2>7. proc[p].port \in Ports
    BY <1>1, <2>5 DEF RoleInv, Roles, RoleOf
  <2>8. listener[proc[p].port] \in Listener
    BY <2>2, <2>7 DEF TypeInv, TypeOK
  <2>9. listener[proc[p].port].vm = proc[p].vm
    BY <1>1, <2>5, <2>6, <2>7 DEF RoleInv, Roles, Holds
  <2>. QED BY <2>6, <2>8, <2>9 DEF Carries, Listener
<1>2. RoleInv /\ [Next]_vars =>
         [\A p \in Pids : proc[p].pc = "confirm" /\ proc'[p].pc = "serve" =>
             Carries(p, proc[p].port, proc[p].vm)]_vars
  BY <1>1
<1>. QED BY <1>2, RoleInit, RoleStep, PTL DEF Spec, HostStartsOnItsOwnTunnel

(* The entry a command reads is its VM's: what the truth of the registry   *)
(* says of the process it names.                                           *)
LEMMA EntryIsTrue ==
    ASSUME TruthInv, NEW v \in VMs, file[v].pid \in Pids
    PROVE  \/ Departed(file[v].pid)
           \/ /\ Carries(file[v].pid, file[v].port, v)
              /\ Reaches(file[v].port, v)
<1>1. file \in Registry
  BY DEF TruthInv, TypeInv, TypeOK
<1>2. file[v] # NoEntry
  BY ConstantsAssumption DEF NoEntry
<1>. QED BY <1>1, <1>2 DEF TruthInv, Grounded, Reaches

(* The port a command takes from the registry is the one its VM's entry    *)
(* names.                                                                  *)
LEMMA TakenPort ==
    ASSUME TruthInv, NEW p \in Pids, Reuse(p) \/ ProbeHit(p) \/ HostReady(p)
    PROVE  /\ proc[p].vm \in VMs /\ file[proc[p].vm].pid \in Pids
           /\ proc'[p].port = file[proc[p].vm].port
<1>1. /\ proc \in [Pids -> Process] /\ file \in Registry /\ Shape
  BY DEF TruthInv, TypeInv, TypeOK
<1>2. CASE Reuse(p)
  <2>. DEFINE v == proc[p].vm
  <2>1. v \in VMs /\ Prune(file)[v] # NoEntry
    BY <1>1, <1>2 DEF Reuse, Reusable, Shape
  <2>2. Prune(file)[v] = file[v]
    BY <2>1 DEF Prune
  <2>3. file[v].pid \in Pids /\ file[v].port \in Ports
    BY <1>1, <2>1, <2>2, EntryOrNone
  <2>4. proc' = [proc EXCEPT ![p].pc = Returns(p), ![p].port = file[v].port,
                             ![p].wd = WatchdogStarted(p)]
    BY <1>2, <2>2 DEF Reuse
  <2>5. proc'[p].port = file[v].port
    <3>. DEFINE port == file[v].port
    <3>. HIDE DEF port
    <3>1. proc' = [proc EXCEPT ![p].pc = Returns(p), ![p].port = port,
                               ![p].wd = WatchdogStarted(p)]
      BY <2>4 DEF port
    <3>2. proc'[p].port = port
      BY <1>1, <3>1 DEF Process
    <3>. QED BY <3>2 DEF port
  <2>. QED BY <2>1, <2>3, <2>5
<1>3. CASE ProbeHit(p)
  <2>1. proc[p].vm \in VMs /\ file[proc[p].vm] # NoEntry
    BY <1>1, <1>3 DEF ProbeHit, LivePort, Shape
  <2>2. file[proc[p].vm].pid \in Pids
    BY <1>1, <2>1, EntryOrNone
  <2>. QED BY <1>1, <1>3, <2>1, <2>2 DEF ProbeHit, Process
<1>4. CASE HostReady(p)
  <2>1. proc[p].vm \in VMs /\ proc[p].child \in Pids /\ file[proc[p].vm].pid = proc[p].child
    BY <1>1, <1>4 DEF HostReady, Shape
  <2>. QED BY <1>1, <1>4, <2>1 DEF HostReady, Process
<1>. QED BY <1>2, <1>3, <1>4

(* A port a command takes from the registry leads to the VM asked for: on  *)
(* each of the three paths that take one - the reuse of a tunnel, the test *)
(* of a live one, the wait for a host - but for a zombie's entry.          *)
THEOREM TakenPortsAreGood ==
    ASSUME ~Recycle, ~AcceptErrors
    PROVE  Spec => TakenPortsReachTheirVm
<1>1. ASSUME TruthInv, RoleInv, [Next]_vars, NEW p \in Pids
      PROVE  ReuseReachesVm(p) /\ ProbeReachesVm(p) /\ AwaitedPortIsTheHosts(p)
  <2>. DEFINE v == proc[p].vm
              q == file[v].pid
  <2>1. ASSUME proc[p].pc = "load", proc'[p].pc \in {"ready", "confirm"}
        PROVE  \/ Reaches(proc'[p].port, v)
               \/ \E o \in Pids : o = file[v].pid /\ proc[o].pc = "zombie"
    <3>1. Reuse(p)
      BY <1>1, <2>1, OwnMove DEF Confirm, ProbeHit, HostReady
    <3>2. v \in VMs /\ q \in Pids /\ proc'[p].port = file[v].port
      BY <1>1, <3>1, TakenPort
    <3>3. Prune(file)[v] = file[v] /\ proc[q].pc # "none"
      <4>1. Prune(file)[v] # NoEntry /\ IsAlive(p, Prune(file)[v])
        BY <3>1 DEF Reuse, Reusable
      <4>. QED BY <3>2, <4>1 DEF Prune, IsAlive, ProcessIsRunning
    <3>. QED BY <1>1, <3>2, <3>3, EntryIsTrue DEF Departed
  <2>2. ASSUME proc[p].pc = "probe", proc'[p].pc = "ready"
        PROVE  Reaches(proc'[p].port, v)
    <3>1. ProbeHit(p)
      BY <1>1, <2>2, OwnMove DEF Confirm, Reuse, HostReady
    <3>2. v \in VMs /\ q \in Pids /\ proc'[p].port = file[v].port
      BY <1>1, <3>1, TakenPort
    <3>3. file[v].port \in Ports /\ OwnsPort(q, file[v].port)
      <4>1. file[v] # NoEntry /\ OwnsPort(q, file[v].port)
        BY <3>1 DEF ProbeHit, LivePort
      <4>. QED BY <1>1, <3>2, <4>1, EntryOrNone DEF TruthInv, TypeInv, TypeOK
    <3>4. ~Departed(q)
      <4>. SUFFICES ASSUME Departed(q) PROVE FALSE
        OBVIOUS
      <4>1. proc[q].child = NoPid
        BY <1>1, <3>2 DEF Departed, RoleInv, Roles, RoleOf
      <4>2. listener[file[v].port].pid = q
        BY <3>3, <4>1 DEF OwnsPort, ListenerOwners, ProcessTree
      <4>. QED BY <1>1, <3>2, <3>3, <4>2 DEF Departed, RoleInv, Roles, Holds
    <3>. QED BY <1>1, <3>2, <3>4, EntryIsTrue
  <2>3. ASSUME proc[p].pc = "wait", proc'[p].pc = "ready"
        PROVE  \/ Carries(proc[p].child, proc'[p].port, v)
               \/ proc[proc[p].child].pc = "zombie"
    <3>1. HostReady(p)
      BY <1>1, <2>3, OwnMove DEF Confirm, Reuse, ProbeHit
    <3>2. v \in VMs /\ q \in Pids /\ proc'[p].port = file[v].port
      BY <1>1, <3>1, TakenPort
    <3>3. q = proc[p].child
      BY <3>1 DEF HostReady
    <3>4. proc[q].pc # "none"
      BY <1>1, <3>2, <3>3 DEF RoleInv, Roles
    <3>. QED BY <1>1, <3>2, <3>3, <3>4, EntryIsTrue DEF Departed
  <2>. QED BY <2>1, <2>2, <2>3
           DEF ReuseReachesVm, ProbeReachesVm, AwaitedPortIsTheHosts
<1>2. TruthInv /\ RoleInv /\ [Next]_vars =>
         [\A p \in Pids :
             ReuseReachesVm(p) /\ ProbeReachesVm(p) /\ AwaitedPortIsTheHosts(p)]_vars
  BY <1>1
<1>3. Init => TruthInv
  BY TruthInit
<1>4. TruthInv /\ [Next]_vars => TruthInv'
  BY TruthStep
<1>. QED BY <1>2, <1>3, <1>4, RoleInit, RoleStep, PTL DEF Spec, TakenPortsReachTheirVm

(* Who `tunnel close` signals holds the tunnel of an entry it matched, or  *)
(* is dead.                                                                *)
LEMMA VictimsHoldTunnels ==
    ASSUME TruthInv, NEW p, NEW q \in Pids, q \in Victims(p), ~Departed(q)
    PROVE  \E v \in Matching(p), pt \in Ports : Carries(q, pt, v)
<1>1. PICK v \in Matching(p) : file[v].pid = q
  BY DEF Victims
<1>2. v \in VMs /\ file[v] # NoEntry
  BY DEF Matching
<1>3. file[v].port \in Ports
  BY <1>2, EntryOrNone DEF TruthInv, TypeInv, TypeOK
<1>. QED BY <1>1, <1>2, <1>3, EntryIsTrue

(* `tunnel close` signals no process but one that holds a tunnel to a VM   *)
(* it was asked to close.                                                  *)
THEOREM CloseSparesTheRest ==
    ASSUME ~Recycle, ~AcceptErrors
    PROVE  Spec => CloseSparesOthers
<1>. DEFINE Spares(p, q) ==
       /\ proc[p].pc = "scan" /\ proc'[p].pc # "scan" /\ q # p
       /\ ~Departed(q) /\ proc'[q].pc # proc[q].pc
       => \E v \in Matching(p), pt \in Ports : Carries(q, pt, v)
<1>1. ASSUME TruthInv, RoleInv, [Next]_vars, NEW p \in Pids, NEW q \in Pids,
             proc[p].pc = "scan", proc'[p].pc # "scan", q # p,
             ~Departed(q), proc'[q].pc # proc[q].pc
      PROVE  \E v \in Matching(p), pt \in Ports : Carries(q, pt, v)
  <2>1. proc \in [Pids -> Process] /\ TypeInv /\ ~Departed(p)
    BY <1>1 DEF RoleInv, TypeInv, TypeOK, Departed
  <2>2. ASSUME NEW o \in Pids, NEW prog \in Programs, NEW v \in VMs, Start(o, prog, v)
        PROVE  FALSE
    BY <1>1, <2>1, <2>2 DEF Start, Available
  <2>3. ~UNCHANGED vars /\ \A pt \in Ports : ~AcceptError(pt)
    BY <1>1 DEF vars, AcceptError
  <2>4. PICK o \in Pids : Step(o)
    BY <1>1, <2>2, <2>3 DEF Next
  <2>5. CASE o = p
    <3>1. q \in Victims(p)
      BY <1>1, <2>1, <2>4, <2>5, OthersMove
    <3>. QED BY <1>1, <3>1, VictimsHoldTunnels
  <2>6. CASE o # p
    <3>1. Close(o) /\ p \in Victims(o)
      BY <1>1, <2>1, <2>4, <2>6, OthersMove
    <3>2. PICK v \in Matching(o), pt \in Ports : Carries(p, pt, v)
      BY <1>1, <2>1, <3>1, VictimsHoldTunnels
    <3>3. Holds(proc[p], v)
      BY <1>1, <3>2 DEF Carries, RoleInv, Roles
    <3>. QED BY <1>1, <3>3 DEF Holds, RoleInv, Roles, RoleOf
  <2>. QED BY <2>5, <2>6
<1>2. TruthInv /\ RoleInv /\ [Next]_vars => [\A p, q \in Pids : Spares(p, q)]_vars
  BY <1>1
<1>3. Init => TruthInv
  BY TruthInit
<1>4. TruthInv /\ [Next]_vars => TruthInv'
  BY TruthStep
<1>. QED BY <1>2, <1>3, <1>4, RoleInit, RoleStep, PTL DEF Spec, CloseSparesOthers

=============================================================================
