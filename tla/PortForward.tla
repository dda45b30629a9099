---------------------------- MODULE PortForward ----------------------------
(***************************************************************************)
(* azlin tunnel: the ssh processes that forward ports, and tunnels.json,   *)
(* the list of them (crate azlin: cmd_tunnel.rs).                          *)
(*                                                                         *)
(* A command loads the list, drops the entries whose process is gone, and  *)
(* some time later writes its own copy back.  An open stays in the         *)
(* foreground; its ssh processes are its children and it never waits for   *)
(* them, so that one that has ended stays in /proc as long as the open     *)
(* runs, and the pid may be anybody's after that.                          *)
(***************************************************************************)
EXTENDS Naturals, FiniteSets

CONSTANTS
    Users,    \* processes of azlin
    TunJobs,  \* the commands they may be given
    Vms, Pids,
    MaxPorts, \* bound: the ports of one open
    None

Entry == [pid : Pids, vm : Vms]

TunnelAssumption ==
    /\ TunJobs \subseteq [op : {"open", "list", "close", "none"}, vm : Vms, all : BOOLEAN,
                          ports : 0..MaxPorts]
    /\ MaxPorts \in Nat /\ None \notin Users

VARIABLES
    list,  \* tunnels.json; a missing, empty or broken one is an empty list
    proc,  \* proc[p]: the process p
    tun    \* tun[u]: the progress of the command of u

tunVars == <<list, proc, tun>>

(* "ended" is a child its open has not waited for, "other" a program that  *)
(* has nothing to do with azlin.                                           *)
Proc == [is : {"free", "ssh", "ended", "other"}, of : Users \cup {None}, vm : Vms \cup {None}]
Free == [is |-> "free", of |-> None, vm |-> None]

Working == {"lookup", "load", "spawn", "save", "saving", "wait", "kill", "retain", "resave",
            "resaving"}

(* entries is the copy of the list.  The history: found is that copy as it *)
(* was loaded, less the pids that have become others' since; saved says    *)
(* that it has written its copy, behind that somebody else wrote the list  *)
(* since it was loaded, lost that a copy that was behind or half a copy    *)
(* has been written over its own.                                          *)
Tun == [at : Working \cup {"idle", "ok", "failed", "killed"}, job : TunJobs,
        entries : SUBSET Entry, found : SUBSET Entry, left : 0..MaxPorts,
        saved : BOOLEAN, behind : BOOLEAN, lost : BOOLEAN]

TunInit ==
    /\ list = {}
    /\ proc = [p \in Pids |-> Free]
    /\ \E job \in [Users -> TunJobs] :
         tun = [u \in Users |->
                  [at |-> "idle", job |-> job[u], entries |-> {}, found |-> {},
                   left |-> job[u].ports, saved |-> FALSE, behind |-> FALSE,
                   lost |-> FALSE]]

-----------------------------------------------------------------------------
On(u, l) == tun[u].at = l
Go(u, l) == tun' = [tun EXCEPT ![u].at = l]

Take(u) ==
    /\ On(u, "idle") /\ tun[u].job.op # "none"
    /\ Go(u, IF tun[u].job.op = "open" THEN "lookup" ELSE "load")
    /\ UNCHANGED <<list, proc>>

(* open finds the VM, its key and, for a private one, its bastion.         *)
Lookup(u) ==
    /\ On(u, "lookup")
    /\ \E l \in {"load", "failed"} : Go(u, l)
    /\ UNCHANGED <<list, proc>>

(* process_is_running: there is a process of this number.                  *)
Runs(p) == proc[p].is # "free"

Prune(E) == {e \in E : Runs(e.pid)}

LoadTunnels(u) ==
    /\ On(u, "load")
    /\ tun' = [tun EXCEPT ![u].entries = Prune(list), ![u].found = Prune(list),
                          ![u].behind = FALSE,
                          ![u].at = CASE tun[u].job.op = "open" -> "spawn"
                                      [] tun[u].job.op = "list" -> "save"
                                      [] tun[u].job.op = "close" -> "kill"]
    /\ UNCHANGED <<list, proc>>

(* One port: for a private VM the bastion's tunnel, then ssh.  An error of *)
(* either ends the command there and then.                                 *)
Spawn(u) ==
    /\ On(u, "spawn")
    /\ \/ /\ tun[u].left > 0
          /\ \E p \in Pids :
               /\ proc[p].is = "free"
               /\ proc' = [proc EXCEPT ![p] = [is |-> "ssh", of |-> u, vm |-> tun[u].job.vm]]
               /\ tun' = [v \in Users |->
                     [tun[v] EXCEPT
                        !.found = {e \in @ : e.pid # p},
                        !.left = IF v = u THEN @ - 1 ELSE @,
                        !.entries = IF v = u THEN @ \cup {[pid |-> p, vm |-> tun[u].job.vm]}
                                    ELSE @]]
       \/ tun[u].left > 0 /\ Go(u, "failed") /\ UNCHANGED proc
       \/ tun[u].left = 0 /\ Go(u, "save") /\ UNCHANGED proc
    /\ UNCHANGED list

(* save_tunnels: the file is truncated, then filled.                       *)
Saves(u, E, l) ==
    /\ list' = E
    /\ tun' = [v \in Users |->
                 IF v = u THEN [tun[u] EXCEPT !.at = l, !.saved = l # "saving"]
                 ELSE [tun[v] EXCEPT !.behind = TRUE, !.lost = @ \/ tun[u].behind]]

TruncateList(u) ==
    /\ \/ On(u, "save") /\ Saves(u, {}, "saving")
       \/ On(u, "resave") /\ Saves(u, {}, "resaving")
       \/ On(u, "save") /\ tun[u].job.op # "list" /\ Go(u, "failed") /\ UNCHANGED list
    /\ UNCHANGED proc

\* Altered: the list is written back as it was loaded.
FillList_AsLoaded(u) ==
    /\ \/ /\ On(u, "saving")
          /\ Saves(u, tun[u].found, IF tun[u].job.op = "open" THEN "wait" ELSE "ok")
       \/ On(u, "resaving") /\ Saves(u, tun[u].found, "ok")
    /\ UNCHANGED proc

FillList(u) ==
    /\ \/ /\ On(u, "saving")
          /\ Saves(u, tun[u].entries, IF tun[u].job.op = "open" THEN "wait" ELSE "ok")
       \/ On(u, "resaving") /\ Saves(u, tun[u].entries, "ok")
    /\ UNCHANGED proc

CtrlC(u) ==
    /\ On(u, "wait")
    /\ Go(u, "kill")
    /\ UNCHANGED <<list, proc>>

-----------------------------------------------------------------------------
(* What becomes of the processes.  Those of a command that is over are     *)
(* waited for by init.                                                     *)

AtWork(u) == u # None /\ tun[u].at \in Working
Ends(p) == IF AtWork(proc[p].of) THEN [proc[p] EXCEPT !.is = "ended"] ELSE Free

ToKill(u) ==
    {e \in tun[u].entries : tun[u].job.op = "open" \/ tun[u].job.all \/ e.vm = tun[u].job.vm}

(* kill_process_tree takes whatever has the number.  close keeps the other *)
(* entries.                                                                *)
Kill(u) ==
    /\ On(u, "kill")
    /\ proc' = [p \in Pids |-> IF Runs(p) /\ \E e \in ToKill(u) : e.pid = p
                               THEN Ends(p) ELSE proc[p]]
    /\ IF tun[u].job.op = "close"
       THEN tun' = [tun EXCEPT ![u].at = "save", ![u].entries = @ \ ToKill(u)]
       ELSE Go(u, "retain")
    /\ UNCHANGED list

(* Ctrl-C keeps the entries whose process is still there, its own children *)
(* among them.                                                             *)
Retain(u) ==
    /\ On(u, "retain")
    /\ tun' = [tun EXCEPT ![u].entries = Prune(@), ![u].at = "resave"]
    /\ UNCHANGED <<list, proc>>

SshEnds ==
    /\ \E p \in Pids : proc[p].is \in {"ssh", "other"} /\ proc' = [proc EXCEPT ![p] = Ends(p)]
    /\ UNCHANGED <<list, tun>>

Reap ==
    /\ \E p \in Pids : /\ proc[p].is = "ended" /\ ~ AtWork(proc[p].of)
                       /\ proc' = [proc EXCEPT ![p] = Free]
    /\ UNCHANGED <<list, tun>>

Reuse ==
    /\ \E p \in Pids : /\ proc[p].is = "free" /\ \E e \in list : e.pid = p
                       /\ proc' = [proc EXCEPT ![p].is = "other"]
    /\ UNCHANGED <<list, tun>>

KillCommand(u) ==
    /\ tun[u].at \in Working
    /\ tun' = [v \in Users |->
                 [tun[v] EXCEPT !.at = IF v = u THEN "killed" ELSE @,
                                !.lost = @ \/ On(u, "saving") \/ On(u, "resaving")]]
    /\ UNCHANGED <<list, proc>>

TunStep(u) ==
    \/ Take(u) \/ Lookup(u) \/ LoadTunnels(u) \/ Spawn(u) \/ TruncateList(u) \/ FillList(u)
    \/ CtrlC(u) \/ Kill(u) \/ Retain(u) \/ KillCommand(u)

TunNext == (\E u \in Users : TunStep(u)) \/ SshEnds \/ Reap \/ Reuse

TunSpec == TunInit /\ [][TunNext]_tunVars

-----------------------------------------------------------------------------
TunTypeOK ==
    /\ list \subseteq Entry
    /\ proc \in [Pids -> Proc]
    /\ tun \in [Users -> Tun]

Tunnel(p) == [pid |-> p, vm |-> proc[p].vm]

BeingWritten == \E u \in Users : On(u, "saving") \/ On(u, "resaving")

(* A running tunnel that an open has written to the list is in the list,   *)
(* so that list and close find it, even when the open has been killed,     *)
(* unless a command wrote a copy over it that was out of date or died in   *)
(* the middle of writing.  (use-tunnels.md:171: "Active tunnels are        *)
(* tracked in `~/.azlin/tunnels.json`".)                                   *)
TunnelsStayTracked ==
    \A u \in Users : tun[u].saved /\ ~ tun[u].lost =>
        \A p \in Pids : proc[p].is = "ssh" /\ proc[p].of = u =>
            Tunnel(p) \in list \/ BeingWritten

(* When close is done, every tunnel it was asked to close that the list    *)
(* had is closed.                                                          *)
CloseCloses ==
    \A u \in Users : tun[u].job.op = "close" /\ On(u, "ok") =>
        \A e \in tun[u].found :
            e.vm = tun[u].job.vm \/ tun[u].job.all => proc[e.pid].is # "ssh"

=============================================================================
