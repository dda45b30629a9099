------------------------------ MODULE Listing ------------------------------
(***************************************************************************)
(* azlin list, azlin restore and the search of azlin connect for a tmux    *)
(* session (crate azlin: cmd_list.rs, cmd_list_data.rs, list_helpers.rs,   *)
(* restore_helpers.rs, cmd_cleanup_ops.rs, cmd_connect.rs; crate           *)
(* azlin-azure: vm.rs).                                                    *)
(*                                                                         *)
(* A command fetches rows, one per VM, looks up bastions, opens tunnels    *)
(* and probes the VMs by ssh.  What it reads off a machine is kept by the  *)
(* name of the VM, and names are unique in a resource group only: the      *)
(* model keeps with each row and with each answer the machine it really    *)
(* comes from.  The rest of the machine's user, who moves the Azure CLI to *)
(* another subscription, is the environment.                               *)
(*                                                                         *)
(* Environment assumed: a public address leads to the VM it was listed     *)
(* for; so does a private one, if it leads anywhere.                       *)
(***************************************************************************)
EXTENDS Naturals, Sequences, FiniteSets

CONSTANTS
    Vms,         \* the VMs there are: records of sub, rg and name
    Subs, Groups,
    Sessions,    \* names of tmux sessions
    Jobs,        \* the commands the user may give
    MaxTunnels,  \* MAX_BASTION_TUNNELS_PER_RUN
    MaxProbes,   \* MAX_CONCURRENT_SSH_PROBES
    MaxSessions, \* MAX_SESSIONS_PER_VM
    None

Names == {v.name : v \in Vms}
Context == [sub : Subs \cup {None}, rg : Groups \cup {None}]

(* ctx is the contexts' files in order, for --all-contexts; rg the group   *)
(* resolved from flag, context and config; home what the last two alone    *)
(* give; every is --all; find the session azlin connect looks for.         *)
Job == [mode : {"group", "all", "contexts", "restore", "connect"},
        ctx : Seq(Context), rg : Groups, home : Groups, every : BOOLEAN,
        find : Sessions]

ASSUME ListingAssumption ==
    /\ Vms \subseteq [sub : Subs, rg : Groups, name : Names] /\ IsFiniteSet(Vms)
    /\ Jobs \subseteq Job
    /\ {MaxTunnels, MaxProbes, MaxSessions} \subseteq Nat \ {0}
    /\ None \notin Subs \cup Groups \cup Vms

VARIABLES
    job, sub,  \* the command, and the subscription of its VmManager
    cli, moved,  \* the subscription of the Azure CLI; it was moved meanwhile
    at,        \* where the command is
    i,         \* the context to be read next
    cache,     \* VM_CACHE: what was fetched, by subscription and group
    rows, queried, warned,
    bastion,   \* bastion[g]: the answer of az network bastion list
    tunnel,    \* tunnel[<<g, n>>]: the tunnel to the VM n of group g
    probe, shown,  \* by name: the ssh, and what it said
    tabs       \* terminals opened on a session

listVars == <<job, sub, cli, moved, at, i, cache, rows, queried, warned, bastion, tunnel,
              probe, shown, tabs>>

Kinds == {"public", "private", "hidden"}   \* hidden: no address is recorded
Row == [by : Nat, vm : Vms, up : BOOLEAN, kind : Kinds]
Shown == [of : Vms, tmux : SUBSET Sessions]
Tab == [of : Vms, session : Sessions, to : Vms \cup {None}]

Rid == Groups \X Names

ListInit ==
    /\ job \in Jobs
    /\ cli \in Subs /\ sub = cli /\ moved = FALSE
    /\ at = "fetch" /\ i = 1
    /\ cache = [k \in Subs \X Groups |-> None]
    /\ rows = {} /\ queried = {} /\ warned = {}
    /\ bastion = [g \in Groups |-> "unasked"]
    /\ tunnel = [r \in Rid |-> "none"]
    /\ probe = [n \in Names |-> "none"]
    /\ shown = [n \in Names |-> None]
    /\ tabs = {}

-----------------------------------------------------------------------------
(* Fetching.  az vm list says of each VM whether it is up and which        *)
(* addresses it has.  What was fetched in the last hour serves again,      *)
(* unless the command has --no-cache: either may happen.                   *)

Listed(vms) ==
    {{[by |-> 0, vm |-> v, up |-> up[v], kind |-> kind[v]] : v \in vms} :
        up \in [vms -> BOOLEAN], kind \in [vms -> Kinds]}

\* Altered: the cache does not tell subscriptions apart.
CacheKey_GroupOnly(s, g) == <<sub, g>>

CacheKey(s, g) == <<s, g>>

FetchVms(s, g) ==
    ({cache[CacheKey(s, g)]} \ {None}) \cup Listed({v \in Vms : v.sub = s /\ v.rg = g})

Fetch(s, g, vms, by) ==
    /\ rows' = rows \cup {[r EXCEPT !.by = by] : r \in vms}
    /\ cache' = [cache EXCEPT ![CacheKey(s, g)] = vms]

FetchGroup ==
    /\ at = "fetch" /\ job.mode \in {"group", "restore", "connect"}
    /\ \/ /\ \E vms \in FetchVms(sub, job.rg) : Fetch(sub, job.rg, vms, 0)
          /\ at' = "fetched"
       \/ at' = "failed" /\ UNCHANGED <<rows, cache>>
    /\ UNCHANGED <<job, sub, cli, moved, i, queried, warned, bastion, tunnel, probe, shown, tabs>>

(* az vm list without --subscription: that of the CLI.                     *)
FetchAll ==
    /\ at = "fetch" /\ job.mode = "all"
    /\ \/ rows' \in Listed({v \in Vms : v.sub = cli}) /\ at' = "fetched"
       \/ at' = "failed" /\ UNCHANGED rows
    /\ UNCHANGED <<job, sub, cli, moved, i, cache, queried, warned, bastion, tunnel, probe,
                   shown, tabs>>

Pinned(c) == IF c.sub = None THEN sub ELSE c.sub

(* A context that cannot be read, has no group or cannot be listed is      *)
(* passed over with a warning.                                             *)
ReadContext ==
    /\ at = "fetch" /\ job.mode = "contexts" /\ i <= Len(job.ctx)
    /\ LET c == job.ctx[i] IN
         \/ /\ c.rg # None
            /\ \E vms \in FetchVms(Pinned(c), c.rg) : Fetch(Pinned(c), c.rg, vms, i)
            /\ queried' = queried \cup {Pinned(c)}
            /\ UNCHANGED warned
         \/ /\ warned' = warned \cup {<<"context", i>>}
            /\ UNCHANGED <<rows, cache, queried>>
    /\ i' = i + 1
    /\ UNCHANGED <<job, sub, cli, moved, at, bastion, tunnel, probe, shown, tabs>>

ContextsRead ==
    /\ at = "fetch" /\ job.mode = "contexts" /\ i > Len(job.ctx)
    /\ at' = "fetched"
    /\ UNCHANGED <<job, sub, cli, moved, i, cache, rows, queried, warned, bastion, tunnel,
                   probe, shown, tabs>>

-----------------------------------------------------------------------------
(* The decision what may be collected.                                     *)

\* Altered: subscriptions are counted.
Attributable_Counted == Cardinality(queried) <= 1

Attributable == queried \subseteq {sub}

Same(rs, n) == {r \in rs : r.vm.name = n}

Colliding(rs) == {n \in Names : \E r, s \in Same(rs, n) : r # s}

Decide ==
    /\ at = "fetched"
    /\ LET kept == {r \in rows : r.up \/ job.every} IN
         /\ rows' = kept
         /\ \/ /\ ~ Attributable
               /\ warned' = warned \cup {<<"withheld">>} /\ at' = "done"
            \/ /\ Attributable
               /\ warned' = warned \cup {<<"same name", n>> : n \in Colliding(kept)}
               /\ at' = "lookup"
    /\ UNCHANGED <<job, sub, cli, moved, i, cache, queried, bastion, tunnel, probe, shown, tabs>>

-----------------------------------------------------------------------------
(* Bastions and tunnels.                                                   *)

Private == {r \in rows : r.up /\ r.kind # "public"}

(* What a sweep finds, and whether it warns: of a bastion that cannot be   *)
(* used, and of the second one of its region, which is ignored.            *)
Inserted == {"found", "none"} \X BOOLEAN

(* A lookup that fails is warned of, and leaves its group without bastion. *)
Lookups == Inserted \cup {<<"failed", TRUE>>}

(* Once per group: the sweep for the table of bastions and the one for     *)
(* routing share their answers.                                            *)
LookUp(g) ==
    /\ at = "lookup" /\ bastion[g] = "unasked" /\ \E r \in Private : r.vm.rg = g
    /\ \E answer \in Lookups :
         /\ bastion' = [bastion EXCEPT ![g] = answer[1]]
         /\ warned' = IF answer[2] THEN warned \cup {<<"lookup", g>>} ELSE warned
    /\ UNCHANGED <<job, sub, cli, moved, at, i, cache, rows, queried, tunnel, probe, shown, tabs>>

Target(r) == <<r.vm.rg, r.vm.name>>
Probed == {r \in rows : r.up /\ r.vm.name \notin Colliding(rows)}
ByBastion == {r \in Probed : r.kind # "public" /\ bastion[r.vm.rg] = "found"}

\* Altered: nobody counts the VMs past the cap.
Plan_Uncounted ==
    /\ at = "lookup" /\ \A r \in Private : bastion[r.vm.rg] # "unasked"
    /\ \E plans \in SUBSET {Target(r) : r \in ByBastion} :
         /\ Cardinality(plans) = IF Cardinality(ByBastion) < MaxTunnels
                                 THEN Cardinality(ByBastion) ELSE MaxTunnels
         /\ tunnel' = [t \in Rid |-> IF t \in plans THEN "planned" ELSE "none"]
    /\ at' = "tunnels"
    /\ UNCHANGED <<job, sub, cli, moved, i, cache, rows, queried, warned, bastion, probe, shown,
                   tabs>>

Plan ==
    /\ at = "lookup" /\ \A r \in Private : bastion[r.vm.rg] # "unasked"
    /\ \E plans \in SUBSET {Target(r) : r \in ByBastion} :
         /\ Cardinality(plans) = IF Cardinality(ByBastion) < MaxTunnels
                                 THEN Cardinality(ByBastion) ELSE MaxTunnels
         /\ tunnel' = [t \in Rid |-> IF t \in plans THEN "planned" ELSE "none"]
    /\ warned' = IF Cardinality(ByBastion) > MaxTunnels
                 THEN warned \cup {<<"skipped">>} ELSE warned
    /\ at' = "tunnels"
    /\ UNCHANGED <<job, sub, cli, moved, i, cache, rows, queried, bastion, probe, shown, tabs>>

(* A tunnel is opened to a resource id, made with the manager's            *)
(* subscription.                                                           *)
VmOf(t) == [sub |-> sub, rg |-> t[1], name |-> t[2]]

OpenTunnel(t) ==
    /\ at = "tunnels" /\ tunnel[t] = "planned"
    /\ \/ VmOf(t) \in Vms /\ tunnel' = [tunnel EXCEPT ![t] = "open"] /\ UNCHANGED warned
       \/ /\ tunnel' = [tunnel EXCEPT ![t] = "failed"]
          /\ warned' = warned \cup {<<"tunnel", t[2]>>}
    /\ UNCHANGED <<job, sub, cli, moved, at, i, cache, rows, queried, bastion, probe, shown, tabs>>

-----------------------------------------------------------------------------
(* Probes.                                                                 *)

(* The machine a probe of r gets to: through the tunnel if there is one,   *)
(* by an address otherwise.                                                *)
Reached(r) ==
    IF tunnel[Target(r)] = "open" THEN VmOf(Target(r))
    ELSE IF r.kind = "hidden" THEN None ELSE r.vm

StartProbes ==
    /\ at = "tunnels" /\ \A t \in Rid : tunnel[t] # "planned"
    /\ probe' = [n \in Names |-> IF \E r \in Probed : r.vm.name = n /\ Reached(r) # None
                                 THEN "waiting" ELSE "none"]
    /\ at' = "probes"
    /\ UNCHANGED <<job, sub, cli, moved, i, cache, rows, queried, warned, bastion, tunnel,
                   shown, tabs>>

Ssh(n) ==
    /\ at = "probes" /\ probe[n] = "waiting"
    /\ Cardinality({m \in Names : probe[m] = "running"}) < MaxProbes
    /\ probe' = [probe EXCEPT ![n] = "running"]
    /\ UNCHANGED <<job, sub, cli, moved, at, i, cache, rows, queried, warned, bastion, tunnel,
                   shown, tabs>>

(* tmux list-sessions answers, and what exceeds the limit is dropped with  *)
(* a warning.                                                              *)
Answer(n) ==
    /\ at = "probes" /\ probe[n] = "running"
    /\ \E r \in Same(Probed, n), all \in SUBSET Sessions : \E tmux \in SUBSET all :
         /\ Cardinality(tmux) = IF Cardinality(all) < MaxSessions
                                THEN Cardinality(all) ELSE MaxSessions
         /\ shown' = IF tmux = {} THEN shown
                     ELSE [shown EXCEPT ![n] = [of |-> Reached(r), tmux |-> tmux]]
         /\ warned' = IF all = tmux THEN warned ELSE warned \cup {<<"more", n>>}
    /\ probe' = [probe EXCEPT ![n] = "answered"]
    /\ UNCHANGED <<job, sub, cli, moved, at, i, cache, rows, queried, bastion, tunnel, tabs>>

(* The ssh fails; only --verbose says so.                                  *)
NoAnswer(n) ==
    /\ at = "probes" /\ probe[n] = "running"
    /\ probe' = [probe EXCEPT ![n] = "unanswered"]
    /\ UNCHANGED <<job, sub, cli, moved, at, i, cache, rows, queried, warned, bastion, tunnel,
                   shown, tabs>>

Collected == at = "probes" /\ \A n \in Names : probe[n] \notin {"waiting", "running"}

Show ==
    /\ Collected
    /\ \/ job.mode # "connect" /\ at' = "restore"   \* for a list: with --restore
       \/ job.mode \notin {"connect", "restore"} /\ at' = "done"
       \/ job.mode = "connect" /\ at' = "resolve"
    /\ UNCHANGED <<job, sub, cli, moved, i, cache, rows, queried, warned, bastion, tunnel,
                   probe, shown, tabs>>

-----------------------------------------------------------------------------
(* azlin connect g/n, in a process whose VmManager has subscription s:     *)
(* the VM is looked up where the CLI is, and reached by its public address *)
(* or by a tunnel to its resource id.                                      *)
Connections(s, g, n) ==
    IF [sub |-> cli, rg |-> g, name |-> n] \notin Vms THEN {None}
    ELSE {None} \cup {v \in Vms : v.sub \in {cli, s} /\ v.rg = g /\ v.name = n}

Owners == {n \in Names : shown[n] # None /\ job.find \in shown[n].tmux}

(* azlin connect s, if the lookup of a VM s fails.                         *)
Resolve ==
    /\ at = "resolve"
    /\ \/ \E n \in Names, to \in Vms :
            /\ Owners = {n} /\ to \in Connections(sub, job.rg, n)
            /\ tabs' = {[of |-> shown[n].of, session |-> job.find, to |-> to]}
            /\ at' = "done"
       \/ at' = "failed" /\ UNCHANGED tabs
    /\ UNCHANGED <<job, sub, cli, moved, i, cache, rows, queried, warned, bastion, tunnel,
                   probe, shown>>

(* A terminal runs azlin connect n --tmux-session s: no more is on its     *)
(* command line, so the group is the one of the context or config.         *)
OpenTab(n, s) ==
    /\ at = "restore" /\ shown[n] # None /\ s \in shown[n].tmux
    /\ ~ \E t \in tabs : t.of = shown[n].of /\ t.session = s
    /\ \E to \in Connections(cli, job.home, n) :
         tabs' = tabs \cup {[of |-> shown[n].of, session |-> s, to |-> to]}
    /\ UNCHANGED <<job, sub, cli, moved, at, i, cache, rows, queried, warned, bastion, tunnel,
                   probe, shown>>

Restored ==
    /\ at = "restore"
    /\ \A n \in Names : shown[n] # None =>
         \A s \in shown[n].tmux : \E t \in tabs : t.of = shown[n].of /\ t.session = s
    /\ at' = "done"
    /\ UNCHANGED <<job, sub, cli, moved, i, cache, rows, queried, warned, bastion, tunnel,
                   probe, shown, tabs>>

-----------------------------------------------------------------------------
(* az account set, by another program.  Bound: once.                       *)
Elsewhere ==
    /\ ~ moved /\ at \notin {"done", "failed"}
    /\ cli' \in Subs \ {cli} /\ moved' = TRUE
    /\ UNCHANGED <<job, sub, at, i, cache, rows, queried, warned, bastion, tunnel, probe, shown,
                   tabs>>

ListNext ==
    \/ FetchGroup \/ FetchAll \/ ReadContext \/ ContextsRead \/ Decide
    \/ \E g \in Groups : LookUp(g)
    \/ Plan \/ StartProbes \/ Show \/ Resolve \/ Restored
    \/ \E t \in Rid : OpenTunnel(t)
    \/ \E n \in Names : Ssh(n) \/ Answer(n) \/ NoAnswer(n)
    \/ \E n \in Names, s \in Sessions : OpenTab(n, s)
    \/ Elsewhere

ListSpec == ListInit /\ [][ListNext]_listVars

-----------------------------------------------------------------------------
ListTypeOK ==
    /\ job \in Jobs /\ {sub, cli} \subseteq Subs /\ moved \in BOOLEAN
    /\ at \in {"fetch", "fetched", "lookup", "tunnels", "probes", "restore", "resolve",
               "done", "failed"}
    /\ i \in Nat
    /\ \A k \in Subs \X Groups : cache[k] = None \/ cache[k] \subseteq Row
    /\ rows \subseteq Row /\ queried \subseteq Subs
    /\ bastion \in [Groups -> {"unasked", "found", "none", "failed"}]
    /\ tunnel \in [Rid -> {"none", "planned", "open", "failed"}]
    /\ probe \in [Names -> {"none", "waiting", "running", "answered", "unanswered"}]
    /\ shown \in [Names -> Shown \cup {None}]
    /\ tabs \subseteq Tab

(* The rows under the header of a context are of the subscription and the  *)
(* group it names, whatever was fetched before; those of a group are of    *)
(* the manager's subscription, wherever the CLI has gone.  (vm.rs: "a      *)
(* dev-rg listed in one subscription would be served from cache for a      *)
(* dev-rg in another".)                                                    *)
RowsAreTheContexts ==
    \A r \in rows :
        /\ job.mode = "contexts" => /\ r.vm.rg = job.ctx[r.by].rg
                                    /\ r.vm.sub = Pinned(job.ctx[r.by])
        /\ job.mode \in {"group", "restore", "connect"} =>
              r.vm.rg = job.rg /\ r.vm.sub = sub

(* What is shown in a row was read off the machine of that row, though it  *)
(* is kept by name and VMs of other groups and subscriptions have the same *)
(* name, unless the CLI was moved under a list of a whole subscription;    *)
(* and azlin connect goes by a session's name only if one of the VMs that  *)
(* answered has it, and then to the machine it was found on.               *)
(* (cmd_list_data.rs: "Rendering one VM's sessions against a same-named    *)
(* VM's row is worse than a blank cell"; SessionLookup.)                   *)
DataIsTheRows ==
    /\ \A r \in rows :
        shown[r.vm.name] # None /\ ~ (job.mode = "all" /\ moved) => shown[r.vm.name].of = r.vm
    /\ job.mode = "connect" => \A t \in tabs :
        /\ moved \/ t.to = t.of
        /\ \A n \in Names : shown[n] # None /\ t.session \in shown[n].tmux => shown[n].of = t.of

(* A row of a running VM that shows no session has either been answered    *)
(* for by its VM or by a failed ssh, or a warning says why, or there is no *)
(* way to the VM.  (cmd_list_data.rs: VMs "are counted, never silently     *)
(* dropped", and a swallowed failure "reports zero sessions as if it had   *)
(* none".)                                                                 *)
BlankIsExplained ==
    at = "done" => \A r \in rows : r.up /\ shown[r.vm.name] = None =>
        \/ probe[r.vm.name] \in {"answered", "unanswered"}
        \/ warned \cap {<<"withheld">>, <<"skipped">>, <<"same name", r.vm.name>>,
                        <<"lookup", r.vm.rg>>, <<"tunnel", r.vm.name>>} # {}
        \/ r.kind = "hidden" /\ bastion[r.vm.rg] = "none"

=============================================================================
