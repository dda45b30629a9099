------------------------------ MODULE Contexts ------------------------------
(***************************************************************************)
(* Contexts and auth profiles: which subscription and resource group a     *)
(* command acts on (crate azlin: cmd_context.rs, contexts.rs,              *)
(* active_context.rs, dispatch_helpers.rs, cmd_auth.rs; crate azlin-azure: *)
(* auth.rs).                                                               *)
(*                                                                         *)
(* A context is a file; the marker names the one in use; the Azure CLI has *)
(* a subscription of its own, common to all its callers, onto which a      *)
(* command moves it before it acts.  Each user runs one command.  A file   *)
(* is written by truncating it and then filling it, and an empty one is a  *)
(* context that pins nothing.                                              *)
(***************************************************************************)
CONSTANTS
    Users,       \* processes of azlin
    CtxJobs,     \* the commands they may be given
    Names,       \* names of contexts
    Subs,        \* subscriptions
    Groups,      \* resource groups
    Default,     \* the name azlin context migrate gives its context
    None, Absent, Broken

Pins == [sub : Subs \cup {None}, rg : Groups \cup {None}]
NoPins == [sub |-> None, rg |-> None]

Job == [op : {"use", "create", "delete", "rename", "migrate", "run", "test", "none"},
        name : Names, to : Names, pins : Pins, flag : Groups \cup {None},
        profile : Subs \cup {None}, force : BOOLEAN]

ContextsAssumption ==
    /\ CtxJobs \subseteq Job /\ Default \in Names
    /\ \A j \in CtxJobs : (j.op = "test" => j.profile # None)
                       /\ (j.profile # None => j.op \in {"run", "test"})
    /\ None \notin Subs \cup Groups \cup Names /\ Absent \notin Pins

VARIABLES
    file,    \* file[n]: contexts/n.toml
    marker,  \* the file active-context; None if it is missing or empty
    cli,     \* the subscription of the Azure CLI
    config,  \* the default group of config.toml; None, or Broken if it does not parse
    cmd      \* cmd[u]: the progress of the command of u

ctxVars == <<file, marker, cli, config, cmd>>

Switching == {"account", "set", "readback"}
Running == Switching \cup
    {"open", "write", "writing", "exists", "confirm", "remove", "marker", "clear",
     "mark", "marking", "current", "group", "reopen", "act"}
Ended == {"ok", "failed", "killed"}

(* found is the name read from the marker, pins what the command goes by,  *)
(* conf what the config said.  The history: moved says that somebody else moved   *)
(* the CLI since the command verified it, stale that somebody else wrote a *)
(* context or the marker since it began.                                   *)
Cmd == [at : Running \cup Ended \cup {"idle"}, job : CtxJobs, found : Names \cup {None},
        pins : Pins, rg : Groups \cup {None}, conf : Groups \cup {None},
        moved : BOOLEAN, stale : BOOLEAN]

First(op) ==
    CASE op \in {"use", "rename"} -> "open"
      [] op = "create" -> "write"
      [] op = "delete" -> "exists"
      [] op = "migrate" -> "current"
      [] op = "run" -> "marker"
      [] op = "test" -> "account"

Idle(j) ==
    [at |-> "idle", job |-> j, found |-> None,
     pins |-> IF j.op = "create" THEN j.pins ELSE [NoPins EXCEPT !.sub = j.profile],
     rg |-> None, conf |-> None, moved |-> FALSE, stale |-> FALSE]

CtxUsers ==
    \E job \in [Users -> CtxJobs] : cmd = [u \in Users |-> Idle(job[u])]

CtxFiles ==
    /\ file \in [Names -> {Absent} \cup {j.pins : j \in CtxJobs}]
    /\ marker \in {None} \cup {n \in Names : file[n] # Absent}
    /\ cli \in Subs
    /\ config \in Groups \cup {None, Broken}

CtxInit == CtxUsers /\ CtxFiles

-----------------------------------------------------------------------------
At(u, l) == cmd[u].at = l
Op(u) == cmd[u].job.op
Goto(u, l) == cmd' = [cmd EXCEPT ![u].at = l]

(* A step of u that writes a context or the marker, or that moves the CLI. *)
Writes(u, l) ==
    cmd' = [v \in Users |-> IF v = u THEN [cmd[u] EXCEPT !.at = l]
                                     ELSE [cmd[v] EXCEPT !.stale = cmd[v].at # "idle"]]
Moves(u, l) ==
    cmd' = [v \in Users |-> IF v = u THEN [cmd[u] EXCEPT !.at = l]
                                     ELSE [cmd[v] EXCEPT !.moved = cmd[v].at \in Running]]

Fails(u) == Goto(u, "failed")

Start(u) ==
    /\ At(u, "idle") /\ Op(u) # "none" /\ Goto(u, First(Op(u)))
    /\ UNCHANGED <<file, marker, cli, config>>

-----------------------------------------------------------------------------
(* AzureAuth::for_subscription: read the account, move it, read it again.  *)
(* The caller goes on only with a CLI that says it is where it should be.  *)

AfterSwitch(u) ==
    CASE Op(u) = "use" -> "mark" [] Op(u) = "run" -> "group" [] Op(u) = "test" -> "ok"

Confirmed(u) == cmd' = [cmd EXCEPT ![u].at = AfterSwitch(u), ![u].moved = FALSE]

(* An answer in another tenant than the pinned one is a failure as well.   *)
ReadAccount(u) ==
    /\ At(u, "account")
    /\ \/ cli = cmd[u].pins.sub /\ Confirmed(u)
       \/ cli # cmd[u].pins.sub /\ Goto(u, "set")
       \/ Fails(u)
    /\ UNCHANGED <<file, marker, cli, config>>

(* az account set may succeed and change nothing.                          *)
SetAccount(u) ==
    /\ At(u, "set")
    /\ \/ cli' = cmd[u].pins.sub /\ Moves(u, "readback")
       \/ UNCHANGED cli /\ Goto(u, "readback")
       \/ UNCHANGED cli /\ Fails(u)
    /\ UNCHANGED <<file, marker, config>>

\* Altered: the switch is assumed to have worked.
ReadBack_Assumed(u) ==
    /\ At(u, "readback")
    /\ Confirmed(u) \/ Fails(u)
    /\ UNCHANGED <<file, marker, cli, config>>

ReadBack(u) ==
    /\ At(u, "readback")
    /\ \/ cli = cmd[u].pins.sub /\ Confirmed(u)
       \/ Fails(u)
    /\ UNCHANGED <<file, marker, cli, config>>

-----------------------------------------------------------------------------
(* Reading: the marker, and a context by its name.                         *)

(* What active_context_in has found so far decides what create_auth does:  *)
(* move to the subscription pinned, or take the account as it is.          *)
Authenticate(pins) == IF pins.sub # None THEN "account" ELSE "current"

Named(u) == IF Op(u) = "run" THEN cmd[u].found ELSE cmd[u].job.name

(* --auth-profile wins over the context, which is read all the same.       *)
Pinned(u, n) ==
    IF Op(u) = "run" /\ cmd[u].job.profile # None THEN cmd[u].pins ELSE file[n]

AfterOpen(u, pins) ==
    CASE Op(u) = "rename" -> "write"
      [] Op(u) = "use" -> IF pins.sub # None THEN "account" ELSE "mark"
      [] Op(u) = "run" -> Authenticate(pins)

\* Altered: a rename removes the old file when it has read it.
Open_Removes(u) ==
    /\ At(u, "open")
    /\ LET n == Named(u) IN
         /\ file[n] # Absent
         /\ cmd' = [cmd EXCEPT ![u].pins = Pinned(u, n),
                               ![u].at = AfterOpen(u, Pinned(u, n))]
         /\ file' = IF Op(u) = "rename" THEN [file EXCEPT ![n] = Absent] ELSE file
    /\ UNCHANGED <<marker, cli, config>>

Open(u) ==
    /\ At(u, "open")
    /\ LET n == Named(u) IN
         \/ /\ file[n] # Absent
            /\ cmd' = [cmd EXCEPT ![u].pins = Pinned(u, n),
                                  ![u].at = AfterOpen(u, Pinned(u, n))]
         \/ file[n] = Absent /\ Fails(u)
    /\ UNCHANGED <<file, marker, cli, config>>

(* load_active in create_auth, and the look of delete and rename at the    *)
(* marker once they have removed the file.                                 *)
ReadMarker(u) ==
    /\ At(u, "marker")
    /\ LET selected == marker = cmd[u].job.name
           next ==
             CASE Op(u) = "run" -> IF marker # None THEN "open" ELSE Authenticate(cmd[u].pins)
               [] Op(u) = "delete" -> IF selected THEN "clear" ELSE "ok"
               [] Op(u) = "rename" -> IF selected THEN "mark" ELSE "ok"
       IN  cmd' = [cmd EXCEPT ![u].found = marker, ![u].at = next]
    /\ UNCHANGED <<file, marker, cli, config>>

(* The account as it is: for a run without a pinned subscription, and for  *)
(* migrate, which asks for it only if the config has a default group.      *)
ReadCurrent(u) ==
    /\ At(u, "current")
    /\ \/ Op(u) = "run" /\ Goto(u, "group")
       \/ Op(u) = "run" /\ Fails(u)
       \/ /\ Op(u) = "migrate" /\ config \in Groups
          /\ file[Default] = Absent \/ cmd[u].job.force
          /\ cmd' = [cmd EXCEPT ![u].at = "write",
                                ![u].pins = [sub |-> cli, rg |-> config]]
       \/ Op(u) = "migrate" /\ config # Broken /\ Goto(u, "ok")
       \/ Op(u) = "migrate" /\ config = Broken /\ Fails(u)
    /\ UNCHANGED <<file, marker, cli, config>>

-----------------------------------------------------------------------------
(* resolve_resource_group reads marker and file once more, and the config, *)
(* which must parse even if it does not decide.                            *)

TakeGroup(u, rg) ==
    IF config # Broken /\ rg # None
    THEN cmd' = [cmd EXCEPT ![u].at = "act", ![u].rg = rg, ![u].conf = config]
    ELSE Fails(u)

ReadGroup(u) ==
    /\ At(u, "group")
    /\ \/ /\ cmd[u].job.flag # None
          /\ cmd' = [cmd EXCEPT ![u].at = "act", ![u].rg = cmd[u].job.flag]
       \/ /\ cmd[u].job.flag = None /\ marker # None
          /\ cmd' = [cmd EXCEPT ![u].at = "reopen", ![u].found = marker]
       \/ cmd[u].job.flag = None /\ marker = None /\ TakeGroup(u, config)
    /\ UNCHANGED <<file, marker, cli, config>>

Reopen(u) ==
    /\ At(u, "reopen")
    /\ LET n == cmd[u].found IN
         \/ file[n] # Absent /\ TakeGroup(u, IF file[n].rg # None THEN file[n].rg ELSE config)
         \/ file[n] = Absent /\ Fails(u)
    /\ UNCHANGED <<file, marker, cli, config>>

(* The command runs az, time and again, on the CLI's subscription and rg.  *)
Act(u) ==
    /\ At(u, "act") /\ Goto(u, "ok")
    /\ UNCHANGED <<file, marker, cli, config>>

-----------------------------------------------------------------------------
(* Writing: a context, and the marker.                                     *)

Target(u) == CASE Op(u) = "create" -> cmd[u].job.name
               [] Op(u) = "rename" -> cmd[u].job.to
               [] Op(u) = "migrate" -> Default

Selected(u) == CASE Op(u) = "use" -> cmd[u].job.name [] OTHER -> Target(u)

Truncate(u) ==
    /\ At(u, "write")
    /\ file' = [file EXCEPT ![Target(u)] = NoPins]
    /\ Writes(u, "writing")
    /\ UNCHANGED <<marker, cli, config>>

AfterFill(u) ==
    CASE Op(u) = "create" -> "ok" [] Op(u) = "rename" -> "remove" [] Op(u) = "migrate" -> "mark"

Fill(u) ==
    /\ At(u, "writing")
    /\ IF file[Target(u)] # Absent
       THEN file' = [file EXCEPT ![Target(u)] = cmd[u].pins]
       ELSE UNCHANGED file
    /\ Writes(u, AfterFill(u))
    /\ UNCHANGED <<marker, cli, config>>

TruncateMarker(u) ==
    /\ At(u, "mark")
    /\ marker' = None
    /\ Writes(u, "marking")
    /\ UNCHANGED <<file, cli, config>>

FillMarker(u) ==
    /\ At(u, "marking")
    /\ marker' = Selected(u)
    /\ Writes(u, "ok")
    /\ UNCHANGED <<file, cli, config>>

-----------------------------------------------------------------------------
(* Deleting, which asks first.                                             *)

Exists(u) ==
    /\ At(u, "exists")
    /\ IF file[cmd[u].job.name] = Absent THEN Fails(u)
       ELSE Goto(u, IF cmd[u].job.force THEN "remove" ELSE "confirm")
    /\ UNCHANGED <<file, marker, cli, config>>

Confirm(u) ==
    /\ At(u, "confirm")
    /\ \E l \in {"remove", "ok", "failed"} : Goto(u, l)
    /\ UNCHANGED <<file, marker, cli, config>>

(* For delete and rename: the second remover of a file fails.              *)
Remove(u) ==
    /\ At(u, "remove")
    /\ IF file[cmd[u].job.name] = Absent
       THEN Fails(u) /\ UNCHANGED file
       ELSE Writes(u, "marker") /\ file' = [file EXCEPT ![cmd[u].job.name] = Absent]
    /\ UNCHANGED <<marker, cli, config>>

Clear(u) ==
    /\ At(u, "clear")
    /\ marker' = None
    /\ Writes(u, "ok")
    /\ UNCHANGED <<file, cli, config>>

-----------------------------------------------------------------------------
Kill(u) ==
    /\ cmd[u].at \in Running
    /\ Goto(u, "killed")
    /\ UNCHANGED <<file, marker, cli, config>>

(* The user's own az account set, or another program's.  Bound: while some *)
(* command minds.                                                          *)
Elsewhere ==
    /\ \E u \in Users : cmd[u].at \in
         Switching \cup {"current", "group", "reopen", "act"}
         \cup (IF Op(u) = "use" THEN {"mark", "marking"} ELSE {})
    /\ \E s \in Subs \ {cli} : cli' = s
    /\ cmd' = [u \in Users |-> [cmd[u] EXCEPT !.moved = cmd[u].at \in Running]]
    /\ UNCHANGED <<file, marker, config>>

CtxStep(u) ==
    \/ Start(u) \/ ReadAccount(u) \/ SetAccount(u) \/ ReadBack(u)
    \/ Open(u) \/ ReadMarker(u) \/ ReadCurrent(u) \/ ReadGroup(u) \/ Reopen(u) \/ Act(u)
    \/ Truncate(u) \/ Fill(u) \/ TruncateMarker(u) \/ FillMarker(u)
    \/ Exists(u) \/ Confirm(u) \/ Remove(u) \/ Clear(u) \/ Kill(u)

CtxNext == (\E u \in Users : CtxStep(u)) \/ Elsewhere

CtxSpec == CtxInit /\ [][CtxNext]_ctxVars

-----------------------------------------------------------------------------
CtxTypeOK ==
    /\ file \in [Names -> Pins \cup {Absent}]
    /\ marker \in Names \cup {None}
    /\ cli \in Subs
    /\ cmd \in [Users -> Cmd]

(* Whatever else runs, a command that goes by a pinned subscription acts,  *)
(* and azlin context use records its choice, only while the Azure CLI is   *)
(* on it, unless somebody else moved the CLI after it had been verified.   *)
(* (auth.rs: the switch "is never assumed to have worked"; cmd_context.rs: *)
(* "Perform the switch before recording it".)                              *)
Verified ==
    \A u \in Users :
        \/ cmd[u].at \in {"group", "reopen", "act"}
        \/ Op(u) = "use" /\ cmd[u].at \in {"mark", "marking"}
        =>
        cmd[u].pins.sub = None \/ cmd[u].moved \/ cli = cmd[u].pins.sub

(* A command acts on what its flags, the selected context and the config,  *)
(* in this order, say, and never falls back on less because the context    *)
(* cannot be read.  (active_context.rs: "azlin must not quietly run        *)
(* against something else".)                                               *)
ActsOnSelected ==
    \A u \in Users : At(u, "act") /\ ~ cmd[u].stale =>
        LET chosen == IF marker = None THEN NoPins ELSE file[marker]
            orElse(x, y) == IF x # None THEN x ELSE y
        IN  /\ chosen # Absent
            /\ cmd[u].pins.sub = orElse(cmd[u].job.profile, chosen.sub)
            /\ cmd[u].rg = orElse(cmd[u].job.flag, orElse(chosen.rg, cmd[u].conf))

(* To another name: azlin context rename a a deletes the context.          *)
Renames(u) == Op(u) = "rename" /\ cmd[u].job.name # cmd[u].job.to

(* Killed at any moment, a rename leaves the context under its old name or *)
(* its new one.  (contexts.rs: the new file is written first.)             *)
RenameKeeps ==
    \A u \in Users : Renames(u) /\ ~ cmd[u].stale /\ cmd[u].pins # NoPins =>
        \E n \in {cmd[u].job.name, cmd[u].job.to} : file[n] = cmd[u].pins

(* A context that was deleted or renamed is not selected any more.         *)
(* (cmd_context.rs: "Clear active context if it was the deleted one".)     *)
RemovedIsNotSelected ==
    \A u \in Users :
        (Op(u) = "delete" \/ Renames(u)) /\ At(u, "ok") /\ ~ cmd[u].stale =>
        marker # cmd[u].job.name \/ file[cmd[u].job.name] # Absent

=============================================================================
