--------------------------- MODULE TunnelRegistry ---------------------------
(***************************************************************************)
(* The bastion tunnel registry of azlin (crate azlin, bastion_tunnel.rs).  *)
(*                                                                         *)
(* Every azlin command on a machine shares one JSON file that maps a VM to *)
(* the loopback port of its tunnel and the pid of the process that holds   *)
(* the tunnel.  No lock protects the file: each command loads it, works on *)
(* its own copy - across network waits - and writes the whole copy back.   *)
(* A native tunnel lives inside the process that opened it and dies with   *)
(* that process.                                                           *)
(*                                                                         *)
(* The module models the operating system's pids and listeners, the file,  *)
(* and one process per command: a pooled or a private session (`connect`,  *)
(* `list`, ...), the detached tunnel host, `azlin code`, which spawns and  *)
(* awaits a host, `azlin tunnel close` for one VM or for all of them, and  *)
(* processes that have nothing to do with azlin.                           *)
(***************************************************************************)
EXTENDS Naturals, FiniteSets

CONSTANTS
    VMs,          \* VM resource ids
    Pids,         \* process ids
    Ports,        \* loopback ports
    NoVm, NoPid, NoPort,
    Programs,     \* the programs users start
    Legacy,       \* TRUE: an `az` tunnel of an older azlin may exist at first
    Recycle,      \* TRUE: the system may hand a dead process's pid out again
    AcceptErrors  \* TRUE: accept() may fail, which ends a tunnel's accept loop

AllPrograms == {"session", "private", "code", "close", "closeAll", "other"}

ASSUME ConstantsAssumption ==
    /\ NoVm \notin VMs /\ NoPid \notin Pids /\ NoPort \notin Ports
    /\ Programs \subseteq AllPrograms
    /\ Legacy \in BOOLEAN /\ Recycle \in BOOLEAN /\ AcceptErrors \in BOOLEAN

VARIABLES
    file,      \* what TunnelRegistry::load returns: the registry on disk
    blank,     \* the file has length 0: truncated and not yet written
    proc,      \* proc[p]: the process with pid p
    listener,  \* listener[pt]: who listens on a port, and for which VM
    used       \* the pids handed out so far (kept only without Recycle)

vars == <<file, blank, proc, listener, used>>

-----------------------------------------------------------------------------
(* Registries. *)

Entry == [port : Ports, pid : Pids, kind : {"native", "legacy"}]
NoEntry == [port |-> NoPort, pid |-> NoPid, kind |-> "none"]
Registry == [VMs -> Entry \cup {NoEntry}]
Empty == [v \in VMs |-> NoEntry]

Native(p, pt) == [port |-> pt, pid |-> p, kind |-> "native"]

(* Another VM's entry names the same local port. *)
DuplicatePort(r, v) ==
    \E w \in VMs \ {v} : r[w] # NoEntry /\ r[w].port = r[v].port

(* purge_registry_entries_for_port *)
Purge(r, pt) == [v \in VMs |-> IF r[v].port = pt THEN NoEntry ELSE r[v]]

-----------------------------------------------------------------------------
(* Processes and listeners. *)

Process == [prog  : AllPrograms \cup {"none", "host", "az"},
            pc    : {"none", "zombie", "load", "open", "truncate", "write",
                     "ready", "confirm", "serve", "stop", "scan", "probe",
                     "wait", "run"},
            vm    : VMs \cup {NoVm},      \* the VM the current call is about
            port  : Ports \cup {NoPort},  \* the port the call returned
            snap  : Registry,             \* the call's copy of the registry
            exits : BOOLEAN,              \* the process ends after its save
            child : Pids \cup {NoPid},    \* the host an `azlin code` spawned
            wd    : {"off", "idle", "truncate", "write"},  \* its watchdog
            wsnap : Registry]             \* the watchdog's copy

Gone == [prog |-> "none", pc |-> "none", vm |-> NoVm, port |-> NoPort,
         snap |-> Empty, exits |-> FALSE, child |-> NoPid,
         wd |-> "off", wsnap |-> Empty]

(* A dead child whose parent has not waited for it keeps its pid.  The     *)
(* Child handle spawn_detached_tunnel_host drops is never waited for.      *)
Zombie == [Gone EXCEPT !.pc = "zombie"]

(* `kill -0`: a zombie still counts as running. *)
ProcessIsRunning(q) == proc[q].pc # "none"

Departed(q) == proc[q].pc \in {"none", "zombie"}

Listener == [pid : Pids \cup {NoPid}, vm : VMs \cup {NoVm}]
Unbound == [pid |-> NoPid, vm |-> NoVm]

Listening(pt) == listener[pt] # Unbound

(* listener_owner_pids: of a listener of some other program, no pid here.  *)
ListenerOwners(pt) == {listener[pt].pid} \ {NoPid}

(* process_tree_pids: only an `azlin code` has a child, its host.          *)
ProcessTree(q) == {q} \cup ({proc[q].child} \ {NoPid})

(* local_port_owned_by_process_tree *)
OwnsPort(q, pt) == ListenerOwners(pt) \cap ProcessTree(q) # {}

(* A connection to the port is carried to VM v by process q. *)
Carries(q, pt, v) == listener[pt] = [pid |-> q, vm |-> v]
Reaches(pt, v) == \E q \in Pids : Carries(q, pt, v)

(* prune *)
Prune(r) ==
    [v \in VMs |-> IF r[v] # NoEntry /\ ~ProcessIsRunning(r[v].pid)
                     THEN NoEntry ELSE r[v]]

(* The process table once the processes in D are dead: the child of a live *)
(* `azlin code` becomes a zombie, the zombies of a dead one are reaped.    *)
Terminate(D, table) ==
    [q \in Pids |->
        IF q \in D \/ table[q].pc = "zombie"
          THEN IF \E c \in Pids \ D : table[c].child = q THEN Zombie ELSE Gone
          ELSE table[q]]

ListenersWithout(D) ==
    [pt \in Ports |-> IF listener[pt].pid \in D THEN Unbound ELSE listener[pt]]

(* SIGTERM is handled by a host that has reached wait_for_shutdown_signal, *)
(* and ends every other process.                                           *)
HandlesSigterm(q) ==
    proc[q].prog = "host" /\ (proc[q].pc \in {"serve", "stop"} \/ proc[q].exits)

DiesOfSigterm(S) == {q \in S : ~Departed(q) /\ ~HandlesSigterm(q)}

Signalled(S) ==
    [q \in Pids |-> IF q \in S /\ HandlesSigterm(q) /\ proc[q].pc = "serve"
                      THEN [proc[q] EXCEPT !.pc = "stop"] ELSE proc[q]]

Ends(p) ==
    /\ proc' = Terminate({p}, proc)
    /\ listener' = ListenersWithout({p})

Available(p) == proc[p].pc = "none" /\ p \notin used
Born(p) == used' = IF Recycle THEN used ELSE used \cup {p}

-----------------------------------------------------------------------------
(* Initially nothing runs and the registry is empty, or an older azlin has *)
(* left an `az network bastion tunnel` process and its entry.              *)
Init ==
    /\ blank = FALSE
    /\ \/ /\ file = Empty
          /\ proc = [p \in Pids |-> Gone]
          /\ listener = [pt \in Ports |-> Unbound]
          /\ used = {}
       \/ /\ Legacy
          /\ \E q \in Pids, pt \in Ports, v \in VMs :
                /\ file = [Empty EXCEPT ![v] =
                              [port |-> pt, pid |-> q, kind |-> "legacy"]]
                /\ proc = [p \in Pids |->
                              IF p = q THEN [Gone EXCEPT !.prog = "az", !.pc = "run"]
                                       ELSE Gone]
                /\ listener = [t \in Ports |->
                                  IF t = pt THEN [pid |-> q, vm |-> v] ELSE Unbound]
                /\ used = IF Recycle THEN {} ELSE {q}

(* A user starts a command, or the system starts an unrelated process. *)
FirstStep == [session |-> "load", private |-> "load", code |-> "probe",
              close |-> "scan", closeAll |-> "scan", other |-> "run"]

Start(p, prog, v) ==
    /\ Available(p)
    /\ proc' = [proc EXCEPT ![p] =
                   [Gone EXCEPT !.prog = prog, !.pc = FirstStep[prog],
                                !.vm = IF prog \in {"closeAll", "other"}
                                         THEN NoVm ELSE v]]
    /\ Born(p)
    /\ UNCHANGED <<file, blank, listener>>

(* An unrelated process listens on a free port. *)
ForeignBind(p, pt) ==
    /\ proc[p].prog = "other"
    /\ ~Listening(pt)
    /\ listener' = [listener EXCEPT ![pt] = [pid |-> p, vm |-> NoVm]]
    /\ UNCHANGED <<file, blank, proc, used>>

(* A command ends or fails at any point, or is killed. *)
Exit(p) ==
    /\ ~Departed(p)
    /\ Ends(p)
    /\ UNCHANGED <<file, blank, used>>

(* accept() fails in the accept loop of open_tunnel_with_timeouts: the     *)
(* loop ends and drops the listener; the process lives on.                 *)
AcceptError(pt) ==
    /\ AcceptErrors
    /\ listener[pt].vm # NoVm
    /\ listener' = [listener EXCEPT ![pt] = Unbound]
    /\ UNCHANGED <<file, blank, proc, used>>

-----------------------------------------------------------------------------
(* get_or_create_tunnel_shared *)

Reuses(p) == proc[p].prog # "private"

Registers(p) == proc[p].prog # "private"

Returns(p) == IF proc[p].prog = "host" THEN "confirm" ELSE "ready"

IsAlive(p, e) ==
    \/ e.kind = "native" /\ ProcessIsRunning(e.pid)
    \/ e.kind = "legacy" /\ ProcessIsRunning(e.pid) /\ OwnsPort(e.pid, e.port)

Reusable(p, r) ==
    LET v == proc[p].vm
    IN  Reuses(p) /\ r[v] # NoEntry /\ IsAlive(p, r[v]) /\ ~DuplicatePort(r, v)

(* The copy with which a call goes on when it found nothing to reuse. *)
Discarded(p, r) ==
    LET v == proc[p].vm
    IN  CASE ~Reuses(p) \/ r[v] = NoEntry -> r
          [] OTHER -> IF DuplicatePort(r, v) THEN Purge(r, r[v].port)
                                             ELSE [r EXCEPT ![v] = NoEntry]

WatchdogStarted(p) == IF proc[p].wd = "off" THEN "idle" ELSE proc[p].wd

(* Load, prune, and reuse the VM's tunnel. *)
Reuse(p) ==
    LET r == Prune(file)
    IN  /\ proc[p].pc = "load"
        /\ Reusable(p, r)
        /\ proc' = [proc EXCEPT ![p].pc = Returns(p),
                                ![p].port = r[proc[p].vm].port,
                                ![p].wd = WatchdogStarted(p)]
        /\ UNCHANGED <<file, blank, listener, used>>

(* Load and prune, find nothing to reuse, and go on to open a tunnel: the  *)
(* copy is kept across the waits for ARM and for the bastion.              *)
Miss(p) ==
    LET r == Prune(file)
    IN  /\ proc[p].pc = "load"
        /\ ~Reusable(p, r)
        /\ proc' = [proc EXCEPT ![p].pc = "open",
                                ![p].snap = Discarded(p, r),
                                ![p].wd = WatchdogStarted(p)]
        /\ UNCHANGED <<file, blank, listener, used>>

\* Altered: the entry names another port than the one that was bound.
Open_OtherPort(p, pt) ==
    LET v == proc[p].vm
    IN  /\ proc[p].pc = "open"
        /\ ~Listening(pt)
        /\ listener' = [listener EXCEPT ![pt] = [pid |-> p, vm |-> v]]
        /\ \E other \in Ports \ {pt} :
              proc' = [proc EXCEPT ![p].pc = "truncate", ![p].port = pt,
                         ![p].snap = [proc[p].snap EXCEPT ![v] = Native(p, other)]]
        /\ UNCHANGED <<file, blank, used>>

(* The tunnel is open on a free port and, unless private, inserted in the  *)
(* copy, which is saved next.                                              *)
Open(p, pt) ==
    LET v == proc[p].vm
    IN  /\ proc[p].pc = "open"
        /\ ~Listening(pt)
        /\ listener' = [listener EXCEPT ![pt] = [pid |-> p, vm |-> v]]
        /\ proc' = [proc EXCEPT
                       ![p].pc = IF Registers(p) THEN "truncate" ELSE Returns(p),
                       ![p].port = pt,
                       ![p].snap = IF Registers(p)
                                     THEN [proc[p].snap EXCEPT ![v] = Native(p, pt)]
                                     ELSE Empty]
        /\ UNCHANGED <<file, blank, used>>

(* The dns name cannot be resolved, or the tunnel cannot be opened.  A     *)
(* session may go on to another VM, as `azlin list` does.                  *)
OpenFail(p) ==
    /\ proc[p].pc = "open"
    /\ IF proc[p].prog = "host"
         THEN Ends(p)
         ELSE /\ proc' = [proc EXCEPT ![p].pc = "ready", ![p].snap = Empty,
                                      ![p].port = NoPort]
              /\ UNCHANGED listener
    /\ UNCHANGED <<file, blank, used>>

(* A session calls again, for the same or another VM. *)
CallAgain(p, v) ==
    /\ proc[p].prog \in {"session", "private"}
    /\ proc[p].pc = "ready"
    /\ proc' = [proc EXCEPT ![p].pc = "load", ![p].vm = v, ![p].port = NoPort]
    /\ UNCHANGED <<file, blank, listener, used>>

-----------------------------------------------------------------------------
(* save: open with truncation, then write.  A write that follows another   *)
(* process's write with no truncation in between lands on top of it, and   *)
(* what is left may not parse, which load takes for an empty registry.     *)

SaveTruncate(p) ==
    /\ proc[p].pc = "truncate"
    /\ proc' = [proc EXCEPT ![p].pc = "write"]
    /\ file' = Empty
    /\ blank' = TRUE
    /\ UNCHANGED <<listener, used>>

Written(r) ==
    /\ file' \in {r} \cup (IF blank THEN {} ELSE {Empty})
    /\ blank' = FALSE

SaveWrite(p) ==
    /\ proc[p].pc = "write"
    /\ Written(proc[p].snap)
    /\ IF proc[p].exits
         THEN Ends(p)
         ELSE /\ proc' = [proc EXCEPT ![p].pc = Returns(p), ![p].snap = Empty]
              /\ UNCHANGED listener
    /\ UNCHANGED used

(* save fails: the call fails, the tunnel it opened stays.  A failed save  *)
(* of `close --all` is followed by the removal of the file.                *)
SaveFail(p) ==
    /\ proc[p].pc = "truncate"
    /\ IF proc[p].exits \/ proc[p].prog = "host"
         THEN Ends(p)
         ELSE /\ proc' = [proc EXCEPT ![p].pc = "ready", ![p].snap = Empty,
                                      ![p].port = NoPort]
              /\ UNCHANGED listener
    /\ file' = IF proc[p].prog = "closeAll" THEN Empty ELSE file
    /\ UNCHANGED <<blank, used>>

-----------------------------------------------------------------------------
(* The watchdog thread of a process that has called get_or_create. *)

\* Altered: the copy is saved as it was loaded.
WatchdogScan_Unpruned(p) ==
    /\ proc[p].wd = "idle"
    /\ Prune(file) # file
    /\ proc' = [proc EXCEPT ![p].wd = "truncate", ![p].wsnap = file]
    /\ UNCHANGED <<file, blank, listener, used>>

WatchdogScan(p) ==
    LET r == Prune(file)
    IN  /\ proc[p].wd = "idle"
        /\ r # file
        /\ proc' = [proc EXCEPT ![p].wd = "truncate", ![p].wsnap = r]
        /\ UNCHANGED <<file, blank, listener, used>>

WatchdogTruncate(p) ==
    /\ proc[p].wd = "truncate"
    /\ proc' = [proc EXCEPT ![p].wd = "write"]
    /\ file' = Empty
    /\ blank' = TRUE
    /\ UNCHANGED <<listener, used>>

WatchdogWrite(p) ==
    /\ proc[p].wd = "write"
    /\ Written(proc[p].wsnap)
    /\ proc' = [proc EXCEPT ![p].wd = "idle", ![p].wsnap = Empty]
    /\ UNCHANGED <<listener, used>>

-----------------------------------------------------------------------------
(* run_tunnel_host: after get_or_create_tunnel, the host makes sure that   *)
(* the port is its own, then serves until it is told to stop.              *)

(* wait_for_local_port_listener: the listener of another process, or none  *)
(* in time, is an error.                                                   *)
ListenerComesUp(p) == OwnsPort(p, proc[p].port)

\* Altered: the host trusts the port it was given.
Confirm_Unchecked(p) ==
    /\ proc[p].pc = "confirm"
    /\ proc' = [proc EXCEPT ![p].pc = "serve"]
    /\ UNCHANGED <<file, blank, listener, used>>

Confirm(p) ==
    /\ proc[p].pc = "confirm"
    /\ IF ListenerComesUp(p)
         THEN proc' = [proc EXCEPT ![p].pc = "serve"] /\ UNCHANGED listener
         ELSE Ends(p)
    /\ UNCHANGED <<file, blank, used>>

(* Ctrl-C, or SIGTERM by hand. *)
Interrupt(p) ==
    /\ proc[p].pc = "serve"
    /\ proc' = [proc EXCEPT ![p].pc = "stop"]
    /\ UNCHANGED <<file, blank, listener, used>>

\* Altered: the host stays until the entry is its own.
Unregister_OnlyOurs(p) ==
    LET v == proc[p].vm
    IN  /\ proc[p].pc = "stop"
        /\ file[v].pid = p
        /\ proc' = [proc EXCEPT ![p].pc = "truncate", ![p].exits = TRUE,
                                ![p].snap = [file EXCEPT ![v] = NoEntry]]
        /\ UNCHANGED <<file, blank, listener, used>>

(* Load the registry; when the entry is still ours, save it without. *)
Unregister(p) ==
    LET v == proc[p].vm
    IN  /\ proc[p].pc = "stop"
        /\ IF file[v].pid = p
             THEN /\ proc' = [proc EXCEPT ![p].pc = "truncate", ![p].exits = TRUE,
                                 ![p].snap = [file EXCEPT ![v] = NoEntry]]
                  /\ UNCHANGED listener
             ELSE Ends(p)
        /\ UNCHANGED <<file, blank, used>>

-----------------------------------------------------------------------------
(* `azlin code`: reuse a live tunnel, or spawn a host and wait for it. *)

\* Altered: a running process is enough.
LivePort_PidOnly(v) == file[v] # NoEntry /\ ProcessIsRunning(file[v].pid)

(* existing_live_tunnel_port *)
LivePort(v) ==
    LET e == file[v]
    IN  e # NoEntry /\ ProcessIsRunning(e.pid) /\ Listening(e.port)
                    /\ OwnsPort(e.pid, e.port)

ProbeHit(p) ==
    /\ proc[p].pc = "probe"
    /\ LivePort(proc[p].vm)
    /\ proc' = [proc EXCEPT ![p].pc = "ready", ![p].port = file[proc[p].vm].port]
    /\ UNCHANGED <<file, blank, listener, used>>

SpawnHost(p, h) ==
    /\ proc[p].pc = "probe"
    /\ ~LivePort(proc[p].vm)
    /\ Available(h)
    /\ proc' = [proc EXCEPT ![p].pc = "wait", ![p].child = h,
                   ![h] = [Gone EXCEPT !.prog = "host", !.pc = "load",
                                       !.vm = proc[p].vm]]
    /\ Born(h)
    /\ UNCHANGED <<file, blank, listener>>

(* wait_for_host_tunnel finds the child's entry and a listener. *)
HostReady(p) ==
    LET e == file[proc[p].vm]
    IN  /\ proc[p].pc = "wait"
        /\ e.pid = proc[p].child
        /\ Listening(e.port)
        /\ proc' = [proc EXCEPT ![p].pc = "ready", ![p].port = e.port]
        /\ UNCHANGED <<file, blank, listener, used>>

(* The child is no longer running, or the deadline has passed. *)
WaitFails(p) ==
    /\ proc[p].pc = "wait"
    /\ Ends(p)
    /\ UNCHANGED <<file, blank, used>>

-----------------------------------------------------------------------------
(* `azlin tunnel close`: load, kill the owner of every matching entry      *)
(* except our own, drop the entries, save.                                 *)

Matching(p) ==
    {v \in VMs : file[v] # NoEntry /\ (proc[p].prog = "closeAll" \/ v = proc[p].vm)}

\* Altered: the owners of all tunnels.
Victims_All(p) == {file[v].pid : v \in {w \in VMs : file[w] # NoEntry}}

Victims(p) ==
    {file[v].pid : v \in {w \in Matching(p) :
                             ~(file[w].kind = "native" /\ file[w].pid = p)}}

Close(p) ==
    LET V == Victims(p)
        D == DiesOfSigterm(V)
        table == Terminate(D, Signalled(V))
        rest == [v \in VMs |-> IF v \in Matching(p) THEN NoEntry ELSE file[v]]
    IN  /\ proc[p].pc = "scan"
        /\ IF Matching(p) = {} /\ proc[p].prog = "close"
             THEN Ends(p)
             ELSE /\ proc' = IF p \in D THEN table
                             ELSE [table EXCEPT ![p].pc = "truncate",
                                                ![p].snap = rest,
                                                ![p].exits = TRUE]
                  /\ listener' = ListenersWithout(D)
        /\ UNCHANGED <<file, blank, used>>

-----------------------------------------------------------------------------

Step(p) ==
    \/ Exit(p)
    \/ Reuse(p) \/ Miss(p) \/ OpenFail(p)
    \/ \E pt \in Ports : Open(p, pt) \/ ForeignBind(p, pt)
    \/ \E v \in VMs : CallAgain(p, v)
    \/ SaveTruncate(p) \/ SaveWrite(p) \/ SaveFail(p)
    \/ WatchdogScan(p) \/ WatchdogTruncate(p) \/ WatchdogWrite(p)
    \/ Confirm(p) \/ Interrupt(p) \/ Unregister(p)
    \/ ProbeHit(p) \/ HostReady(p) \/ WaitFails(p)
    \/ \E h \in Pids : SpawnHost(p, h)
    \/ Close(p)

Next ==
    \/ \E p \in Pids, prog \in Programs, v \in VMs : Start(p, prog, v)
    \/ \E p \in Pids : Step(p)
    \/ \E pt \in Ports : AcceptError(pt)

Spec == Init /\ [][Next]_vars

-----------------------------------------------------------------------------
(* Properties. *)

(* Every variable has its type. *)
TypeOK ==
    /\ file \in Registry
    /\ blank \in BOOLEAN
    /\ proc \in [Pids -> Process]
    /\ listener \in [Ports -> Listener]
    /\ used \in SUBSET Pids

(* What an entry of a registry claims is true: the process it names holds  *)
(* the tunnel to that VM on that port, or it is dead.                      *)
Truthful(r) ==
    \A v \in VMs : r[v] # NoEntry =>
        Departed(r[v].pid) \/ Carries(r[v].pid, r[v].port, v)

(* As long as no pid is recycled and no accept loop ends, every copy of    *)
(* the registry is truthful however old it is: the file, and the copies    *)
(* get_or_create_tunnel_shared and the watchdog keep between load and save.*)
RegistryTruthful ==
    /\ Truthful(file)
    /\ \A p \in Pids : Truthful(proc[p].snap) /\ Truthful(proc[p].wsnap)

(* A port a command takes from the registry leads to the VM asked for, on  *)
(* each of the three paths that take one.                                  *)
(*  - get_or_create_tunnel_shared reuses a port on the strength of a pid   *)
(*    test that cannot tell a zombie from a live process;                  *)
(*  - existing_live_tunnel_port also tests who owns the listener: `azlin   *)
(*    code` never writes an SSH configuration for a dead or foreign port;  *)
(*  - wait_for_host_tunnel takes a port of the host it waited for.         *)
ReuseReachesVm(p) ==
    proc[p].pc = "load" /\ proc'[p].pc \in {"ready", "confirm"} =>
        \/ Reaches(proc'[p].port, proc[p].vm)
        \/ \E q \in Pids : q = file[proc[p].vm].pid /\ proc[q].pc = "zombie"

ProbeReachesVm(p) ==
    proc[p].pc = "probe" /\ proc'[p].pc = "ready" =>
        Reaches(proc'[p].port, proc[p].vm)

AwaitedPortIsTheHosts(p) ==
    proc[p].pc = "wait" /\ proc'[p].pc = "ready" =>
        \/ Carries(proc[p].child, proc'[p].port, proc[p].vm)
        \/ proc[proc[p].child].pc = "zombie"

TakenPortsReachTheirVm ==
    [][\A p \in Pids :
          ReuseReachesVm(p) /\ ProbeReachesVm(p) /\ AwaitedPortIsTheHosts(p)]_vars

(* However the registry came to be wrong - recycled pids, broken accept     *)
(* loops - a host starts serving only on a tunnel of its own to its VM.    *)
HostStartsOnItsOwnTunnel ==
    [][\A p \in Pids :
          proc[p].pc = "confirm" /\ proc'[p].pc = "serve" =>
              Carries(p, proc[p].port, proc[p].vm)]_vars

(* `tunnel close` signals no process but one that holds a tunnel to a VM   *)
(* it was asked to close.                                                  *)
CloseSparesOthers ==
    [][\A p, q \in Pids :
          /\ proc[p].pc = "scan" /\ proc'[p].pc # "scan" /\ q # p
          /\ ~Departed(q) /\ proc'[q].pc # proc[q].pc
          => \E v \in Matching(p), pt \in Ports : Carries(q, pt, v)]_vars

-----------------------------------------------------------------------------
(* Liveness.  A command that was started takes its next step as long as it *)
(* is not killed; its waits on the network and on a host have deadlines.   *)
(* Nothing makes a user start, end or interrupt a command.                 *)

Progress(p) ==
    \/ Reuse(p) \/ Miss(p) \/ OpenFail(p) \/ \E pt \in Ports : Open(p, pt)
    \/ SaveTruncate(p) \/ SaveWrite(p) \/ SaveFail(p)
    \/ Confirm(p) \/ Unregister(p)
    \/ ProbeHit(p) \/ HostReady(p) \/ WaitFails(p)
    \/ \E h \in Pids : SpawnHost(p, h)
    \/ Close(p)

Watchdog(p) == WatchdogScan(p) \/ WatchdogTruncate(p) \/ WatchdogWrite(p)

Fairness ==
    \A p \in Pids : WF_vars(Progress(p)) /\ WF_vars(Watchdog(p))

FairSpec == Spec /\ Fairness

(* The specification is the same for every pid: what holds of one that     *)
(* nothing singles out holds of all of them.                               *)
SomePid == CHOOSE p \in Pids : TRUE

(* A host told to stop - by a close or by Ctrl-C - does end.               *)
StoppedHostEnds == proc[SomePid].pc = "stop" ~> Departed(SomePid)

(* From some moment on no process is started.                              *)
NothingStarts ==
    <>[][\A p \in Pids : proc[p].prog = "none" => proc'[p].prog = "none"]_vars

(* Once no new command comes, the entry of a process that is gone leaves   *)
(* the registry for good as long as some process with a watchdog lives,    *)
(* although writers with an old copy may put it back for a while, and      *)
(* although its pid may meanwhile have been another process's.             *)
StaleEntriesArePruned ==
    NothingStarts =>
        \A v \in VMs :
            <>[](\/ file[v] = NoEntry
                 \/ ProcessIsRunning(file[v].pid)
                 \/ \A p \in Pids : proc[p].wd = "off")

=============================================================================
