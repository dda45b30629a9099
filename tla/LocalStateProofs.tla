-------------------------- MODULE LocalStateProofs --------------------------
(***************************************************************************)
(* Proofs about LocalState, for any number of users, contexts, settings,   *)
(* tunnels and files.                                                      *)
(***************************************************************************)
EXTENDS LocalState, TLAPS

-----------------------------------------------------------------------------
(* Contexts: where the command of a user is tells what he runs, *)

Switched == {"mark", "marking"}
Acting == {"group", "reopen", "act"}
Runs(u, ops) == cmd[u].job.op \in ops

Asked(u) == [Ctx!NoPins EXCEPT !.sub = cmd[u].job.profile]

Place(u) ==
    /\ cmd[u].at \in Ctx!Switching => Runs(u, {"use", "run", "test"})
    /\ cmd[u].at = "open" => Runs(u, {"use", "rename", "run"})
    /\ cmd[u].at \in {"write", "writing"} => Runs(u, {"create", "rename", "migrate"})
    /\ cmd[u].at \in {"exists", "confirm", "clear"} => Runs(u, {"delete"})
    /\ cmd[u].at = "remove" => Runs(u, {"delete", "rename"})
    /\ cmd[u].at = "marker" => Runs(u, {"run", "delete", "rename"})
    /\ cmd[u].at \in Switched => Runs(u, {"use", "rename", "migrate"})
    /\ cmd[u].at = "current" => Runs(u, {"run", "migrate"})
    /\ cmd[u].at \in Acting => Runs(u, {"run"})
    /\ cmd[u].at = "idle" => cmd[u] = Ctx!Idle(cmd[u].job)
    /\ cmd[u].at \in Ctx!Switching => cmd[u].pins.sub # None
    /\ cmd[u].at = "current" /\ cmd[u].job.op = "run" => cmd[u].pins.sub = None
    /\ cmd[u].at = "reopen" => cmd[u].job.flag = None
    /\ cmd[u].at = "reopen" \/ (cmd[u].at = "open" /\ cmd[u].job.op = "run") => cmd[u].found # None

(* what the CLI is on, *)
Secure(u) ==
    cmd[u].at \in Acting \/ (cmd[u].job.op = "use" /\ cmd[u].at \in Switched) =>
        cmd[u].pins.sub = None \/ cmd[u].moved \/ cli = cmd[u].pins.sub

(* what he goes by while nobody else writes a context or the marker, *)
Chosen(u) ==
    IF marker = None THEN cmd[u].pins = Asked(u)
    ELSE /\ file[marker] # Absent
         /\ cmd[u].pins = IF cmd[u].job.profile # None THEN Asked(u) ELSE file[marker]

RgChosen(u) ==
    LET pinned == IF marker = None THEN None ELSE file[marker].rg IN
    cmd[u].rg = IF cmd[u].job.flag # None THEN cmd[u].job.flag
                ELSE IF pinned # None THEN pinned ELSE cmd[u].conf

Select(u) ==
    cmd[u].job.op = "run" /\ ~ cmd[u].stale =>
        /\ cmd[u].at \in {"marker", "open"} => cmd[u].pins = Asked(u)
        /\ cmd[u].at = "open" => marker # None
        /\ cmd[u].at \in {"open", "reopen"} => cmd[u].found = marker
        /\ cmd[u].at \in Ctx!Switching \cup Acting \cup {"current"} => Chosen(u)
        /\ cmd[u].at = "act" => RgChosen(u)

(* where the context is that he renames, *)
Old(u) == file[cmd[u].job.name] = cmd[u].pins
New(u) == file[cmd[u].job.to] = cmd[u].pins

Rename(u) ==
    Ctx!Renames(u) /\ ~ cmd[u].stale =>
        /\ cmd[u].at \in {"idle", "open"} => cmd[u].pins = Ctx!NoPins
        /\ cmd[u].at \in {"write", "writing"} => Old(u)
        /\ cmd[u].at = "writing" => file[cmd[u].job.to] # Absent
        /\ cmd[u].at \in {"remove", "marker", "ok"} \cup Switched => New(u)
        /\ cmd[u].at \in {"failed", "killed"} => cmd[u].pins = Ctx!NoPins \/ Old(u) \/ New(u)

(* and whether a context he removes is selected.                           *)
Remove(u) ==
    (cmd[u].job.op = "delete" \/ Ctx!Renames(u)) /\ ~ cmd[u].stale =>
        /\ cmd[u].at = "confirm" => file[cmd[u].job.name] # Absent
        /\ cmd[u].at = "ok" => marker # cmd[u].job.name \/ file[cmd[u].job.name] # Absent

CtxInv == \A u \in Users : Place(u) /\ Secure(u) /\ Select(u) /\ Rename(u) /\ Remove(u)

-----------------------------------------------------------------------------
(* config.toml: the temporary file is never the config; a saver has it to  *)
(* himself and, until another touches the files, knows what both hold.     *)

Filling == {"fill", "chmod", "rename"}

Ready == {"open"} \cup Filling

(* What a saver of a setting makes of what he has loaded.                  *)
Base(u) == IF saver[u].was = Blank THEN Defaults ELSE saver[u].was
Sets(u) == Base(u) \in Cfg!Config /\ saver[u].mine = Cfg!Changed(u, Base(u))

Stage(u) ==
    /\ saver[u].job.op = "none" => saver[u].at = "idle"
    /\ saver[u].at = "answer" => saver[u].job.op = "init"
    /\ saver[u].at = "load" => saver[u].job.op = "set"
    /\ saver[u].at \in {"idle", "load", "answer"} => saver[u].mine = Blank
    /\ saver[u].at \in Ready => saver[u].mine \in Cfg!Config
    /\ saver[u].at \in Ready /\ saver[u].job.op = "set" => Sets(u)
    /\ saver[u].at = "ok" /\ saver[u].job.op = "set" => saver[u].mine # Blank

Known(u) ==
    /\ saver[u].at \in Ready => Cfg!Content = saver[u].was
    /\ saver[u].at \in Filling => saver[u].fd = tmp /\ tmp # None
    /\ saver[u].at = "fill" => text[tmp] = Blank
    /\ saver[u].at \in {"chmod", "rename"} => text[tmp] = saver[u].mine
    /\ saver[u].at # "sweep"

(* The field of u is of no concern to the others.                          *)
Private(u) ==
    /\ \A v \in Users \ {u} : saver[v].job.op = "set" => saver[v].job.key # saver[u].job.key
    /\ \A v \in Users : saver[v].job.op # "init"

Wins(u) ==
    saver[u].job.op = "set" /\ saver[u].at = "ok" /\ Private(u) =>
        Cfg!Content[saver[u].job.key] = saver[u].job.val

Whole ==
    (\E u \in Users : saver[u].at = "ok" /\ saver[u].mine # Blank) => Cfg!Content \in Cfg!Config

CfgInv ==
    /\ tmp # None => tmp # conf
    /\ \A u \in Users : Stage(u)
    /\ Cfg!Uncrossed =>
         /\ Cfg!Content # Blank
         /\ \A u, v \in Users : saver[u].at \in Filling /\ saver[v].at \in Filling => u = v
         /\ \A u \in Users : Known(u) /\ Wins(u)
         /\ Whole

-----------------------------------------------------------------------------
(* tunnels.json *)

Loaded == {"spawn", "save", "saving", "wait", "kill", "retain", "resave", "resaving"}
Early == {"idle", "lookup", "load"}
Writing(v) == tun[v].at \in {"saving", "resaving"}
Owns(u, p) == proc[p].is = "ssh" /\ proc[p].of = u
Safe(u) == tun[u].saved /\ ~ tun[u].lost

Duty(u) ==
    /\ tun[u].job.op = "none" => tun[u].at = "idle"
    /\ tun[u].at = "kill" => tun[u].job.op \in {"open", "close"}
    /\ tun[u].at \in {"spawn", "wait", "retain", "resave", "resaving"} => tun[u].job.op = "open"
    /\ tun[u].job.op = "close" => tun[u].at # "lookup"

(* An open has its tunnels in its own copy.                                *)
OwnCopy(u) ==
    /\ \A p \in Pids : Owns(u, p) =>
         tun[u].at \notin Early /\ tun[u].job.op = "open" /\ Tun!Tunnel(p) \in tun[u].entries
    /\ tun[u].at \in Early \cup {"spawn", "save", "saving"} => ~ tun[u].saved
    /\ tun[u].at = "kill" /\ tun[u].job.op = "close" => ~ tun[u].saved

(* So has the list, once it has been written to it,                        *)
Recorded(u) ==
    \A p \in Pids : Safe(u) /\ Owns(u, p) => Tun!Tunnel(p) \in list \/ Tun!BeingWritten

(* and whoever has read the list since and not been overtaken by a write.  *)
Current(v) ==
    /\ tun[v].at \in Loaded /\ ~ tun[v].behind
    /\ \A w \in Users \ {v} : ~ Writing(w)
    => \A u \in Users \ {v}, p \in Pids :
         Safe(u) /\ Owns(u, p) => Tun!Tunnel(p) \in tun[v].entries

Asks(u, e) == e.vm = tun[u].job.vm \/ tun[u].job.all

Closing(u) ==
    tun[u].job.op = "close" =>
        /\ tun[u].at = "kill" => tun[u].found \subseteq tun[u].entries
        /\ tun[u].at \in {"save", "saving", "ok"} =>
             \A e \in tun[u].found : Asks(u, e) => proc[e.pid].is # "ssh"

TunInv ==
    \A u \in Users : Duty(u) /\ OwnCopy(u) /\ Recorded(u) /\ Current(u) /\ Closing(u)

IInv == LocalTypeOK /\ CtxInv /\ CfgInv /\ TunInv

-----------------------------------------------------------------------------
(* Contexts.  First the types, *)

LEMMA CmdIsTyped ==
    ASSUME Ctx!CtxTypeOK, NEW u \in Users
    PROVE  /\ cmd[u] \in Ctx!Cmd /\ cmd[u].job \in CtxJobs /\ cmd[u].job \in Ctx!Job
           /\ cmd[u].at \in Ctx!Running \cup Ctx!Ended \cup {"idle"}
           /\ cmd[u].found \in Names \cup {None} /\ cmd[u].pins \in Ctx!Pins
           /\ cmd[u].rg \in Groups \cup {None} /\ cmd[u].conf \in Groups \cup {None}
           /\ cmd[u].moved \in BOOLEAN /\ cmd[u].stale \in BOOLEAN
           /\ cmd[u].job.op \in {"use", "create", "delete", "rename", "migrate", "run", "test", "none"}
           /\ cmd[u].job.name \in Names /\ cmd[u].job.to \in Names /\ cmd[u].job.pins \in Ctx!Pins
           /\ cmd[u].job.flag \in Groups \cup {None} /\ cmd[u].job.profile \in Subs \cup {None}
           /\ cmd[u].job.force \in BOOLEAN
           /\ cmd[u].job.op = "test" => cmd[u].job.profile # None
           /\ cmd[u].job.profile # None => cmd[u].job.op \in {"run", "test"}
  <1>1. cmd[u] \in Ctx!Cmd
    BY DEF Ctx!CtxTypeOK
  <1>2. cmd[u].job \in CtxJobs
    BY <1>1 DEF Ctx!Cmd
  <1>3. cmd[u].job \in Ctx!Job
    BY <1>2, LocalAssumption DEF LocalAssumption, Ctx!ContextsAssumption
  <1>. QED
    BY <1>1, <1>2, <1>3, LocalAssumption
       DEF LocalAssumption, Ctx!ContextsAssumption, Ctx!Cmd, Ctx!Job

LEMMA NoPinsIsTyped == Ctx!NoPins \in Ctx!Pins /\ \A p \in Ctx!Pins : p.sub \in Subs \cup {None}
                                                  /\ p.rg \in Groups \cup {None}
  BY DEF Ctx!NoPins, Ctx!Pins

LEMMA ConfigIsTyped ==
    ASSUME Cfg!CfgTypeOK
    PROVE  /\ Cfg!Content \in Cfg!Config \cup {Blank, Garbled}
           /\ GroupOf(Cfg!Content) \in Groups \cup {None, Broken}
  <1>1. Defaults \in Cfg!Config /\ GroupKey \in Keys
    BY LocalAssumption DEF LocalAssumption, Cfg!ConfigAssumption
  <1>2. Cfg!Content \in Cfg!Config \cup {Blank, Garbled}
    BY <1>1 DEF Cfg!CfgTypeOK, Cfg!Content
  <1>3. \A c \in Cfg!Config : c[GroupKey] \in Groups \cup {None}
    BY <1>1 DEF Cfg!Config
  <1>. QED  BY <1>1, <1>2, <1>3 DEF GroupOf

Places == Ctx!Running \cup Ctx!Ended \cup {"idle"}

LEMMA WritesDoes ==
    ASSUME Ctx!CtxTypeOK, NEW u \in Users, NEW l \in Places, Ctx!Writes(u, l)
    PROVE  /\ cmd' \in [Users -> Ctx!Cmd] /\ cmd'[u] = [cmd[u] EXCEPT !.at = l]
           /\ \A v \in Users \ {u} :
                cmd'[v] = [cmd[v] EXCEPT !.stale = cmd[v].at # "idle"]
  <1>1. cmd' = [v \in Users |-> IF v = u THEN [cmd[u] EXCEPT !.at = l]
                                ELSE [cmd[v] EXCEPT !.stale = cmd[v].at # "idle"]]
    BY DEF Ctx!Writes
  <1>2. \A v \in Users : cmd[v] \in Ctx!Cmd
    BY DEF Ctx!CtxTypeOK
  <1>3. [cmd[u] EXCEPT !.at = l] \in Ctx!Cmd
    BY <1>2 DEF Ctx!Cmd, Places
  <1>4. \A v \in Users : [cmd[v] EXCEPT !.stale = cmd[v].at # "idle"] \in Ctx!Cmd
    BY <1>2 DEF Ctx!Cmd
  <1>. QED  BY <1>1, <1>3, <1>4

LEMMA MovesDoes ==
    ASSUME Ctx!CtxTypeOK, NEW u \in Users, NEW l \in Places, Ctx!Moves(u, l)
    PROVE  /\ cmd' \in [Users -> Ctx!Cmd] /\ cmd'[u] = [cmd[u] EXCEPT !.at = l]
           /\ \A v \in Users \ {u} :
                cmd'[v] = [cmd[v] EXCEPT !.moved = cmd[v].at \in Ctx!Running]
  <1>1. cmd' = [v \in Users |-> IF v = u THEN [cmd[u] EXCEPT !.at = l]
                                ELSE [cmd[v] EXCEPT !.moved = cmd[v].at \in Ctx!Running]]
    BY DEF Ctx!Moves
  <1>2. \A v \in Users : cmd[v] \in Ctx!Cmd
    BY DEF Ctx!CtxTypeOK
  <1>3. [cmd[u] EXCEPT !.at = l] \in Ctx!Cmd
    BY <1>2 DEF Ctx!Cmd, Places
  <1>4. \A v \in Users : [cmd[v] EXCEPT !.moved = cmd[v].at \in Ctx!Running] \in Ctx!Cmd
    <2>. SUFFICES ASSUME NEW v \in Users
                  PROVE  [cmd[v] EXCEPT !.moved = cmd[v].at \in Ctx!Running] \in Ctx!Cmd
      OBVIOUS
    <2>1. [cmd[v] EXCEPT !.moved = TRUE] \in Ctx!Cmd /\ [cmd[v] EXCEPT !.moved = FALSE] \in Ctx!Cmd
      BY <1>2 DEF Ctx!Cmd
    <2>2. CASE cmd[v].at \in Ctx!Running
      BY <2>1, <2>2
    <2>3. CASE cmd[v].at \notin Ctx!Running
      <3>1. (cmd[v].at \in Ctx!Running) = FALSE
        BY <2>3
      <3>. QED  BY <2>1, <3>1, Zenon
    <2>. QED  BY <2>2, <2>3
  <1>. QED  BY <1>1, <1>3, <1>4

LEMMA CtxTypeStep ==
    ASSUME Ctx!CtxTypeOK, Cfg!CfgTypeOK, CtxInv, NEW u \in Users, Ctx!CtxStep(u)
    PROVE  Ctx!CtxTypeOK'
  <1>1. /\ cmd \in [Users -> Ctx!Cmd] /\ file \in [Names -> Ctx!Pins \cup {Absent}]
        /\ marker \in Names \cup {None} /\ cli \in Subs /\ Default \in Names
        /\ None \notin Names
    BY LocalAssumption DEF Ctx!CtxTypeOK, LocalAssumption, Ctx!ContextsAssumption
  <1>2. GroupOf(Cfg!Content) \in Groups \cup {None, Broken}
    BY ConfigIsTyped
  <1>3. Place(u)
    BY DEF CtxInv
  <1>. USE <1>1, CmdIsTyped, NoPinsIsTyped
       DEF Ctx!CtxTypeOK, Ctx!Cmd, Ctx!Running, Ctx!Switching, Ctx!Ended, Ctx!At, Ctx!Op,
           Ctx!Goto, Ctx!Fails, Runs
  <1>4. CASE Ctx!Start(u)
    BY <1>4 DEF Ctx!Start, Ctx!First
  <1>5. CASE Ctx!ReadAccount(u)
    <2>1. Runs(u, {"use", "run", "test"})
      BY <1>3, <1>5 DEF Place, Ctx!ReadAccount
    <2>. QED  BY <1>5, <2>1 DEF Ctx!ReadAccount, Ctx!Confirmed, Ctx!AfterSwitch
  <1>6. CASE Ctx!SetAccount(u)
    <2>1. Runs(u, {"use", "run", "test"})
      BY <1>3, <1>6 DEF Place, Ctx!SetAccount
    <2>2. cmd[u].pins.sub \in Subs
      BY <1>3, <1>6 DEF Place, Ctx!SetAccount
    <2>3. CASE cli' = cmd[u].pins.sub /\ Ctx!Moves(u, "readback")
      <3>1. cmd' \in [Users -> Ctx!Cmd]
        BY <2>3, MovesDoes DEF Places
      <3>. QED  BY <1>6, <2>2, <2>3, <3>1 DEF Ctx!SetAccount
    <2>4. CASE UNCHANGED cli /\ (Ctx!Goto(u, "readback") \/ Ctx!Fails(u))
      BY <1>6, <2>4 DEF Ctx!SetAccount
    <2>. QED  BY <1>6, <2>3, <2>4 DEF Ctx!SetAccount
  <1>7. CASE Ctx!ReadBack(u)
    <2>1. Runs(u, {"use", "run", "test"})
      BY <1>3, <1>7 DEF Place, Ctx!ReadBack
    <2>. QED  BY <1>7, <2>1 DEF Ctx!ReadBack, Ctx!Confirmed, Ctx!AfterSwitch
  <1>8. CASE Ctx!Open(u)
    <2>1. Runs(u, {"use", "rename", "run"})
      BY <1>3, <1>8 DEF Place, Ctx!Open
    <2>2. Ctx!Named(u) \in Names
      BY <1>3, <1>8 DEF Place, Ctx!Open, Ctx!Named
    <2>3. CASE Ctx!Fails(u)
      BY <1>8, <2>3 DEF Ctx!Open
    <2>4. CASE file[Ctx!Named(u)] # Absent
      <3>. DEFINE pins == Ctx!Pinned(u, Ctx!Named(u))
      <3>1. pins \in Ctx!Pins
        BY <2>2, <2>4 DEF Ctx!Pinned
      <3>2. Ctx!AfterOpen(u, pins) \in Ctx!Running
        BY <2>1, <3>1 DEF Ctx!AfterOpen, Ctx!Authenticate
      <3>3. \/ cmd' = [cmd EXCEPT ![u].pins = pins, ![u].at = Ctx!AfterOpen(u, pins)]
            \/ Ctx!Fails(u)
        BY <1>8 DEF Ctx!Open
      <3>. HIDE DEF pins
      <3>. QED  BY <1>8, <2>3, <3>1, <3>2, <3>3 DEF Ctx!Open
    <2>. QED  BY <1>8, <2>3, <2>4 DEF Ctx!Open
  <1>9. CASE Ctx!ReadMarker(u)
    <2>1. Runs(u, {"run", "delete", "rename"})
      BY <1>3, <1>9 DEF Place, Ctx!ReadMarker
    <2>. QED  BY <1>9, <2>1 DEF Ctx!ReadMarker, Ctx!Authenticate
  <1>10. CASE Ctx!ReadCurrent(u)
    <2>1. Runs(u, {"run", "migrate"})
      BY <1>3, <1>10 DEF Place, Ctx!ReadCurrent
    <2>. QED  BY <1>10, <1>2, <2>1 DEF Ctx!ReadCurrent
  <1>11. CASE Ctx!ReadGroup(u)
    BY <1>11, <1>2 DEF Ctx!ReadGroup, Ctx!TakeGroup
  <1>12. CASE Ctx!Reopen(u)
    BY <1>3, <1>12, <1>2 DEF Place, Ctx!Reopen, Ctx!TakeGroup
  <1>13. CASE Ctx!Act(u)
    BY <1>13 DEF Ctx!Act
  <1>14. CASE Ctx!Truncate(u)
    <2>1. Runs(u, {"create", "rename", "migrate"})
      BY <1>3, <1>14 DEF Place, Ctx!Truncate
    <2>. QED  BY <1>14, <2>1, WritesDoes DEF Ctx!Truncate, Ctx!Target, Places
  <1>15. CASE Ctx!Fill(u)
    <2>1. Runs(u, {"create", "rename", "migrate"})
      BY <1>3, <1>15 DEF Place, Ctx!Fill
    <2>. QED  BY <1>15, <2>1, WritesDoes DEF Ctx!Fill, Ctx!Target, Ctx!AfterFill, Places
  <1>16. CASE Ctx!TruncateMarker(u)
    BY <1>16, WritesDoes DEF Ctx!TruncateMarker, Places
  <1>17. CASE Ctx!FillMarker(u)
    <2>1. Runs(u, {"use", "rename", "migrate"})
      BY <1>3, <1>17 DEF Place, Ctx!FillMarker, Switched
    <2>. QED  BY <1>17, <2>1, WritesDoes DEF Ctx!FillMarker, Ctx!Selected, Ctx!Target, Places
  <1>18. CASE Ctx!Exists(u)
    BY <1>18 DEF Ctx!Exists
  <1>19. CASE Ctx!Confirm(u)
    BY <1>19 DEF Ctx!Confirm
  <1>20. CASE Ctx!Remove(u)
    <2>1. CASE Ctx!Writes(u, "marker") /\ file' = [file EXCEPT ![cmd[u].job.name] = Absent]
      <3>1. cmd' \in [Users -> Ctx!Cmd]
        BY <2>1, WritesDoes DEF Places
      <3>. QED  BY <1>20, <2>1, <3>1 DEF Ctx!Remove
    <2>2. CASE Ctx!Fails(u) /\ UNCHANGED file
      BY <1>20, <2>2 DEF Ctx!Remove
    <2>. QED  BY <1>20, <2>1, <2>2 DEF Ctx!Remove
  <1>21. CASE Ctx!Clear(u)
    BY <1>21, WritesDoes DEF Ctx!Clear, Places
  <1>22. CASE Ctx!Kill(u)
    BY <1>22 DEF Ctx!Kill
  <1>. QED  BY <1>4, <1>5, <1>6, <1>7, <1>8, <1>9, <1>10, <1>11, <1>12, <1>13, <1>14, <1>15, <1>16,
               <1>17, <1>18, <1>19, <1>20, <1>21, <1>22 DEF Ctx!CtxStep

(* then what a step leaves of the commands of the others, *)

Undisturbed(v) ==
    /\ cmd[v].at = "idle" /\ ~ cmd[v].stale /\ ~ cmd[v].moved => cmd'[v] = cmd[v]
    /\ cmd'[v].at = cmd[v].at /\ cmd'[v].job = cmd[v].job /\ cmd'[v].found = cmd[v].found
    /\ cmd'[v].pins = cmd[v].pins /\ cmd'[v].rg = cmd[v].rg /\ cmd'[v].conf = cmd[v].conf
    /\ cmd[v].at # "idle" /\ ~ cmd'[v].stale => ~ cmd[v].stale /\ UNCHANGED <<file, marker>>
    /\ cmd[v].at \in Ctx!Running => cmd'[v].moved \/ (~ cmd[v].moved /\ UNCHANGED cli)

LEMMA SameCmd ==
    ASSUME NEW c \in Ctx!Cmd
    PROVE  /\ ~ c.stale => [c EXCEPT !.stale = FALSE] = c
           /\ ~ c.moved => [c EXCEPT !.moved = FALSE] = c
  <1>1. c.stale \in BOOLEAN /\ c.moved \in BOOLEAN
    BY DEF Ctx!Cmd
  <1>2. (~ c.stale => c.stale = FALSE) /\ (~ c.moved => c.moved = FALSE)
    BY <1>1
  <1>3. /\ c.stale = FALSE => [c EXCEPT !.stale = FALSE] = c
        /\ c.moved = FALSE => [c EXCEPT !.moved = FALSE] = c
    BY DEF Ctx!Cmd
  <1>. QED  BY <1>2, <1>3

LEMMA CtxStepShape ==
    ASSUME Ctx!CtxTypeOK, CtxInv, NEW u \in Users, Ctx!CtxStep(u)
    PROVE  \/ UNCHANGED cli /\ \E l \in Places : Ctx!Writes(u, l)
           \/ UNCHANGED <<file, marker>> /\ \E l \in Places : Ctx!Moves(u, l)
           \/ UNCHANGED <<file, marker, cli>> /\ \A v \in Users \ {u} : cmd'[v] = cmd[v]
  <1>1. cmd \in [Users -> Ctx!Cmd] /\ Place(u)
    BY DEF Ctx!CtxTypeOK, CtxInv
  <1>. USE DEF Ctx!Goto, Ctx!Fails, Ctx!At, Ctx!Op
  <1>2. CASE Ctx!Truncate(u)
    BY <1>2 DEF Ctx!Truncate, Places, Ctx!Running
  <1>3. CASE Ctx!Fill(u)
    <2>1. Runs(u, {"create", "rename", "migrate"})
      BY <1>1, <1>3 DEF Place, Ctx!Fill
    <2>2. Ctx!AfterFill(u) \in Places
      BY <2>1 DEF Runs, Ctx!AfterFill, Places, Ctx!Running, Ctx!Ended
    <2>. QED  BY <1>3, <2>2 DEF Ctx!Fill
  <1>4. CASE Ctx!TruncateMarker(u) \/ Ctx!FillMarker(u) \/ Ctx!Clear(u)
    BY <1>4 DEF Ctx!TruncateMarker, Ctx!FillMarker, Ctx!Clear, Places, Ctx!Running, Ctx!Ended
  <1>5. CASE Ctx!Remove(u)
    <2>1. CASE Ctx!Writes(u, "marker")
      BY <1>5, <2>1 DEF Ctx!Remove, Places, Ctx!Running
    <2>2. CASE Ctx!Fails(u) /\ UNCHANGED file
      BY <1>1, <1>5, <2>2 DEF Ctx!Remove
    <2>. QED  BY <1>5, <2>1, <2>2 DEF Ctx!Remove
  <1>6. CASE Ctx!SetAccount(u)
    <2>1. CASE Ctx!Moves(u, "readback")
      BY <1>6, <2>1 DEF Ctx!SetAccount, Places, Ctx!Running, Ctx!Switching
    <2>2. CASE UNCHANGED cli /\ (Ctx!Goto(u, "readback") \/ Ctx!Fails(u))
      BY <1>1, <1>6, <2>2 DEF Ctx!SetAccount
    <2>. QED  BY <1>6, <2>1, <2>2 DEF Ctx!SetAccount
  <1>7. CASE Ctx!Start(u) \/ Ctx!Exists(u) \/ Ctx!Confirm(u) \/ Ctx!Act(u) \/ Ctx!Kill(u)
    BY <1>1, <1>7 DEF Ctx!Start, Ctx!Exists, Ctx!Confirm, Ctx!Act, Ctx!Kill
  <1>8. CASE Ctx!ReadAccount(u) \/ Ctx!ReadBack(u) \/ Ctx!Open(u) \/ Ctx!ReadMarker(u)
    BY <1>1, <1>8 DEF Ctx!ReadAccount, Ctx!ReadBack, Ctx!Open, Ctx!ReadMarker, Ctx!Confirmed
  <1>9. CASE Ctx!ReadCurrent(u) \/ Ctx!ReadGroup(u) \/ Ctx!Reopen(u)
    BY <1>1, <1>9 DEF Ctx!ReadCurrent, Ctx!ReadGroup, Ctx!Reopen, Ctx!TakeGroup
  <1>. QED
    BY <1>2, <1>3, <1>4, <1>5, <1>6, <1>7, <1>8, <1>9 DEF Ctx!CtxStep

LEMMA MovedIsUndisturbed ==
    ASSUME NEW v \in Users, cmd[v] \in Ctx!Cmd, UNCHANGED <<file, marker>>,
           cmd'[v] = [cmd[v] EXCEPT !.moved = cmd[v].at \in Ctx!Running]
    PROVE  cmd'[v] \in Ctx!Cmd /\ Undisturbed(v)
  <1>1. CASE cmd[v].at \in Ctx!Running
    <2>1. cmd'[v] = [cmd[v] EXCEPT !.moved = TRUE]
      BY <1>1
    <2>. QED  BY <1>1, <2>1 DEF Undisturbed, Ctx!Cmd, Ctx!Running, Ctx!Switching
  <1>2. CASE cmd[v].at \notin Ctx!Running
    <2>1. (cmd[v].at \in Ctx!Running) = FALSE
      BY <1>2
    <2>2. cmd'[v] = [cmd[v] EXCEPT !.moved = FALSE]
      BY <2>1, Zenon
    <2>3. cmd'[v] \in Ctx!Cmd /\ (~ cmd[v].moved => cmd'[v] = cmd[v])
      BY <2>2, SameCmd DEF Ctx!Cmd
    <2>4. /\ cmd'[v].at = cmd[v].at /\ cmd'[v].job = cmd[v].job /\ cmd'[v].found = cmd[v].found
          /\ cmd'[v].pins = cmd[v].pins /\ cmd'[v].rg = cmd[v].rg
          /\ cmd'[v].conf = cmd[v].conf /\ cmd'[v].stale = cmd[v].stale
      BY <2>2 DEF Ctx!Cmd
    <2>. QED  BY <1>2, <2>3, <2>4 DEF Undisturbed
  <1>. QED  BY <1>1, <1>2

LEMMA OthersAreUndisturbed ==
    ASSUME Ctx!CtxTypeOK, CtxInv, NEW u \in Users, Ctx!CtxStep(u), NEW v \in Users \ {u}
    PROVE  Undisturbed(v)
  <1>1. cmd[v] \in Ctx!Cmd
    BY DEF Ctx!CtxTypeOK
  <1>2. ASSUME UNCHANGED cli, NEW l \in Places, Ctx!Writes(u, l)
        PROVE  Undisturbed(v)
    <2>1. cmd'[v] = [cmd[v] EXCEPT !.stale = cmd[v].at # "idle"]
      BY <1>2, WritesDoes
    <2>2. CASE cmd[v].at = "idle"
      <3>1. cmd'[v] = [cmd[v] EXCEPT !.stale = FALSE]
        BY <2>1, <2>2
      <3>. QED  BY <1>1, <1>2, <2>2, <3>1, SameCmd DEF Undisturbed, Ctx!Cmd, Ctx!Running,
                   Ctx!Switching
    <2>3. CASE cmd[v].at # "idle"
      <3>1. cmd'[v] = [cmd[v] EXCEPT !.stale = TRUE]
        BY <2>1, <2>3
      <3>. QED  BY <1>1, <1>2, <2>3, <3>1 DEF Undisturbed, Ctx!Cmd
    <2>. QED  BY <2>2, <2>3
  <1>3. ASSUME UNCHANGED <<file, marker>>, NEW l \in Places, Ctx!Moves(u, l)
        PROVE  Undisturbed(v)
    <2>1. cmd'[v] = [cmd[v] EXCEPT !.moved = cmd[v].at \in Ctx!Running]
      BY <1>3, MovesDoes
    <2>. QED  BY <1>1, <1>3, <2>1, MovedIsUndisturbed
  <1>4. ASSUME UNCHANGED <<file, marker, cli>>, cmd'[v] = cmd[v]
        PROVE  Undisturbed(v)
    BY <1>1, <1>4 DEF Undisturbed, Ctx!Cmd
  <1>. QED  BY <1>2, <1>3, <1>4, CtxStepShape

LEMMA UndisturbedKeeps ==
    ASSUME Ctx!CtxTypeOK, NEW v \in Users, Undisturbed(v),
           Place(v), Secure(v), Select(v), Rename(v), Remove(v)
    PROVE  Place(v)' /\ Secure(v)' /\ Select(v)' /\ Rename(v)' /\ Remove(v)'
  <1>. USE CmdIsTyped
  <1>1. Place(v)'
    BY DEF Undisturbed, Place, Runs, Ctx!Idle
  <1>2. Secure(v)'
    BY DEF Undisturbed, Secure, Acting, Switched, Ctx!Running, Ctx!Switching
  <1>3. Select(v)'
    <2>. SUFFICES ASSUME cmd[v].at # "idle", ~ cmd'[v].stale
                  PROVE  Select(v)'
      BY DEF Undisturbed, Select, Ctx!Switching, Acting
    <2>. QED  BY DEF Undisturbed, Select, Chosen, RgChosen, Asked
  <1>4. Rename(v)'
    <2>1. cmd[v].at = "idle" => ~ cmd[v].stale /\ ~ cmd[v].moved
      BY DEF Place, Ctx!Idle
    <2>2. CASE cmd[v].at = "idle"
      BY <2>1, <2>2 DEF Undisturbed, Rename, Ctx!Renames, Ctx!Op, Switched
    <2>3. CASE cmd[v].at # "idle"
      BY <2>3 DEF Undisturbed, Rename, Old, New, Ctx!Renames, Ctx!Op
    <2>. QED  BY <2>2, <2>3
  <1>5. Remove(v)'
    BY DEF Undisturbed, Remove, Ctx!Renames, Ctx!Op
  <1>. QED  BY <1>1, <1>2, <1>3, <1>4, <1>5

(* and what it does to the command itself.                                 *)

Keeps(u) ==
    /\ cmd'[u].job = cmd[u].job /\ cmd'[u].found = cmd[u].found /\ cmd'[u].pins = cmd[u].pins
    /\ cmd'[u].rg = cmd[u].rg /\ cmd'[u].conf = cmd[u].conf /\ cmd'[u].stale = cmd[u].stale
Goes(u, l) == cmd'[u].at = l /\ cmd'[u].moved = cmd[u].moved /\ Keeps(u)
Reads == UNCHANGED <<file, marker, cli>>

LEMMA GotoGoes ==
    ASSUME Ctx!CtxTypeOK, NEW u \in Users
    PROVE  /\ \A l : Ctx!Goto(u, l) => Goes(u, l)
           /\ Ctx!Fails(u) => Goes(u, "failed")
           /\ \A l \in Places : Ctx!Writes(u, l) \/ Ctx!Moves(u, l) => Goes(u, l)
  <1>1. cmd \in [Users -> Ctx!Cmd] /\ cmd[u] \in Ctx!Cmd
    BY DEF Ctx!CtxTypeOK
  <1>2. \A l : cmd'[u] = [cmd[u] EXCEPT !.at = l] => Goes(u, l)
    BY <1>1 DEF Ctx!Cmd, Goes, Keeps
  <1>3. \A l : Ctx!Goto(u, l) => cmd'[u] = [cmd[u] EXCEPT !.at = l]
    BY <1>1 DEF Ctx!Goto
  <1>4. \A l \in Places : Ctx!Writes(u, l) \/ Ctx!Moves(u, l) => cmd'[u] = [cmd[u] EXCEPT !.at = l]
    BY WritesDoes, MovesDoes
  <1>. QED  BY <1>2, <1>3, <1>4 DEF Ctx!Fails

Parts(u) == Place(u) /\ Secure(u) /\ Select(u) /\ Rename(u) /\ Remove(u)

LEMMA CtxConstants ==
    /\ Default \in Names /\ None \notin Names /\ None \notin Subs /\ None \notin Groups
    /\ Ctx!NoPins # Absent /\ Ctx!NoPins \in Ctx!Pins
  BY LocalAssumption, NoPinsIsTyped DEF LocalAssumption, Ctx!ContextsAssumption

(* A command that ends in an error, or is killed. *)
LEMMA FailingKeeps ==
    ASSUME Ctx!CtxTypeOK, NEW u \in Users, Parts(u), Reads, cmd[u].at \in Ctx!Running,
           Goes(u, "failed") \/ Goes(u, "killed")
    PROVE  Parts(u)'
  <1>1. Place(u)' /\ Secure(u)' /\ Select(u)' /\ Remove(u)'
    BY DEF Goes, Place, Secure, Select, Remove, Ctx!Switching, Acting, Switched
  <1>2. Rename(u)'
    <2>1. Ctx!Renames(u) =>
            cmd[u].at \in {"open", "write", "writing", "remove", "marker"} \cup Switched
      BY DEF Parts, Place, Runs, Ctx!Renames, Ctx!Op, Ctx!Running, Switched, Acting
    <2>2. Ctx!Renames(u) /\ ~ cmd[u].stale => cmd[u].pins = Ctx!NoPins \/ Old(u) \/ New(u)
      BY <2>1 DEF Parts, Rename
    <2>. QED
      BY <2>2 DEF Goes, Keeps, Reads, Rename, Old, New, Ctx!Renames, Ctx!Op, Switched
  <1>. QED  BY <1>1, <1>2 DEF Parts

LEMMA SwitchingKeeps ==
    ASSUME Ctx!CtxTypeOK, NEW u \in Users, Parts(u),
           Ctx!ReadAccount(u) \/ Ctx!SetAccount(u) \/ Ctx!ReadBack(u)
    PROVE  Parts(u)'
  <1>1. cmd[u].at \in Ctx!Switching /\ Runs(u, {"use", "run", "test"})
    BY DEF Parts, Place, Ctx!ReadAccount, Ctx!SetAccount, Ctx!ReadBack, Ctx!At, Ctx!Switching
  <1>2. UNCHANGED <<file, marker>>
    BY DEF Ctx!ReadAccount, Ctx!SetAccount, Ctx!ReadBack
  <1>3. \/ cmd[u].pins.sub = cli /\ Ctx!Confirmed(u) /\ UNCHANGED cli
        \/ Goes(u, "set") \/ Goes(u, "readback")
        \/ Goes(u, "failed") /\ UNCHANGED cli
    BY GotoGoes DEF Ctx!ReadAccount, Ctx!SetAccount, Ctx!ReadBack, Places, Ctx!Running,
       Ctx!Switching
  <1>4. CASE Goes(u, "failed") /\ UNCHANGED cli
    BY <1>1, <1>2, <1>4, FailingKeeps DEF Reads, Ctx!Running
  <1>5. CASE Goes(u, "set") \/ Goes(u, "readback")
    BY <1>1, <1>2, <1>5 DEF Parts, Goes, Keeps, Place, Runs, Secure, Select, Chosen, Asked, Rename,
       Remove,
       Ctx!Renames, Ctx!Op, Ctx!Switching, Acting, Switched
  <1>6. CASE cmd[u].pins.sub = cli /\ Ctx!Confirmed(u) /\ UNCHANGED cli
    <2>1. cmd'[u] = [cmd[u] EXCEPT !.at = Ctx!AfterSwitch(u), !.moved = FALSE] /\ cmd[u] \in Ctx!Cmd
      BY <1>6 DEF Ctx!Confirmed, Ctx!CtxTypeOK
    <2>2. Keeps(u) /\ cmd'[u].at = Ctx!AfterSwitch(u)
      BY <2>1 DEF Ctx!Cmd, Keeps
    <2>3. \/ cmd[u].job.op = "use" /\ cmd'[u].at = "mark"
          \/ cmd[u].job.op = "run" /\ cmd'[u].at = "group"
          \/ cmd[u].job.op = "test" /\ cmd'[u].at = "ok"
      BY <1>1, <2>2 DEF Runs, Ctx!AfterSwitch, Ctx!Op
    <2>. QED
      BY <1>1, <1>2, <1>6, <2>2, <2>3 DEF Parts, Keeps, Place, Runs, Secure, Select, Chosen, Asked,
         Rename, Remove, Ctx!Renames, Ctx!Op, Ctx!Switching, Acting, Switched
  <1>. QED  BY <1>3, <1>4, <1>5, <1>6

LEMMA OpenKeeps ==
    ASSUME Ctx!CtxTypeOK, NEW u \in Users, Parts(u), Ctx!Open(u)
    PROVE  Parts(u)'
  <1>. DEFINE n == Ctx!Named(u)
              pins == Ctx!Pinned(u, n)
              next == Ctx!AfterOpen(u, pins)
  <1>1. cmd[u].at = "open" /\ Runs(u, {"use", "rename", "run"}) /\ Reads /\ cmd[u] \in Ctx!Cmd
    BY DEF Parts, Place, Ctx!Open, Ctx!At, Reads, Ctx!CtxTypeOK
  <1>2. \/ file[n] # Absent /\ cmd' = [cmd EXCEPT ![u].pins = pins, ![u].at = next]
        \/ Goes(u, "failed")
    BY GotoGoes DEF Ctx!Open
  <1>3. CASE Goes(u, "failed")
    BY <1>1, <1>3, FailingKeeps DEF Ctx!Running
  <1>4. CASE file[n] # Absent /\ cmd' = [cmd EXCEPT ![u].pins = pins, ![u].at = next]
    <2>1. /\ cmd'[u].pins = pins /\ cmd'[u].at = next /\ cmd'[u].job = cmd[u].job
          /\ cmd'[u].found = cmd[u].found /\ cmd'[u].stale = cmd[u].stale
      <3>. HIDE DEF pins, next
      <3>. QED  BY <1>1, <1>4 DEF Ctx!CtxTypeOK, Ctx!Cmd
    <2>2. CASE cmd[u].job.op = "rename"
      <3>1. next = "write" /\ pins = file[cmd[u].job.name]
        BY <2>2 DEF Ctx!AfterOpen, Ctx!Pinned, Ctx!Named, Ctx!Op
      <3>. HIDE DEF pins, next, n
      <3>. QED
        BY <1>1, <2>1, <2>2, <3>1 DEF Parts, Reads, Place, Runs, Secure, Select, Rename, Old,
           Remove,
           Ctx!Renames, Ctx!Op, Ctx!Switching, Acting, Switched
    <2>3. CASE cmd[u].job.op = "use"
      <3>1. next = IF pins.sub # None THEN "account" ELSE "mark"
        BY <2>3 DEF Ctx!AfterOpen, Ctx!Op
      <3>. HIDE DEF pins, next, n
      <3>. QED
        BY <1>1, <2>1, <2>3, <3>1 DEF Parts, Reads, Place, Runs, Secure, Select, Rename, Remove,
           Ctx!Renames, Ctx!Op, Ctx!Switching, Acting, Switched
    <2>4. CASE cmd[u].job.op = "run"
      <3>1. next = IF pins.sub # None THEN "account" ELSE "current"
        BY <2>4 DEF Ctx!AfterOpen, Ctx!Authenticate, Ctx!Op
      <3>2. n = cmd[u].found
        BY <2>4 DEF Ctx!Named, Ctx!Op
      <3>3. pins = IF cmd[u].job.profile # None THEN cmd[u].pins ELSE file[n]
        BY <2>4 DEF Ctx!Pinned, Ctx!Op
      <3>. HIDE DEF pins, next, n
      <3>4. ~ cmd[u].stale => Chosen(u)'
        BY <1>1, <1>4, <2>1, <2>4, <3>2, <3>3 DEF Parts, Reads, Select, Chosen, Asked
      <3>. QED
        BY <1>1, <2>1, <2>4, <3>1, <3>4 DEF Parts, Reads, Place, Runs, Secure, Select, Rename,
           Remove,
           Ctx!Renames, Ctx!Op, Ctx!Switching, Acting, Switched
    <2>. QED  BY <1>1, <2>2, <2>3, <2>4 DEF Runs
  <1>. QED  BY <1>2, <1>3, <1>4

LEMMA ReadMarkerKeeps ==
    ASSUME Ctx!CtxTypeOK, NEW u \in Users, Parts(u), Ctx!ReadMarker(u)
    PROVE  Parts(u)'
  <1>1. cmd[u].at = "marker" /\ Runs(u, {"run", "delete", "rename"}) /\ Reads /\ cmd[u] \in Ctx!Cmd
    BY DEF Parts, Place, Ctx!ReadMarker, Ctx!At, Reads, Ctx!CtxTypeOK
  <1>2. PICK next : cmd' = [cmd EXCEPT ![u].found = marker, ![u].at = next]
                    /\ \/ /\ cmd[u].job.op = "run"
                          /\ next = IF marker # None THEN "open"
                                    ELSE IF cmd[u].pins.sub # None THEN "account" ELSE "current"
                       \/ cmd[u].job.op = "delete" /\ next = IF marker = cmd[u].job.name THEN "clear" ELSE "ok"
                       \/ cmd[u].job.op = "rename" /\ next = IF marker = cmd[u].job.name THEN "mark" ELSE "ok"
    BY <1>1 DEF Ctx!ReadMarker, Ctx!Op, Ctx!Authenticate, Runs
  <1>3. /\ cmd'[u].pins = cmd[u].pins /\ cmd'[u].at = next /\ cmd'[u].job = cmd[u].job
        /\ cmd'[u].found = marker /\ cmd'[u].stale = cmd[u].stale
    BY <1>1, <1>2 DEF Ctx!CtxTypeOK, Ctx!Cmd
  <1>4. Place(u)' /\ Secure(u)'
    BY <1>1, <1>2, <1>3, CmdIsTyped DEF Parts, Place, Runs, Secure, Ctx!Switching, Acting, Switched
  <1>5. Select(u)'
    BY <1>1, <1>2, <1>3 DEF Parts, Reads, Select, Chosen, Asked, Ctx!Switching, Acting
  <1>6. Rename(u)' /\ Remove(u)'
    BY <1>1, <1>2, <1>3 DEF Parts, Reads, Rename, New, Remove, Ctx!Renames, Ctx!Op, Switched
  <1>. QED  BY <1>4, <1>5, <1>6 DEF Parts

LEMMA ReadCurrentKeeps ==
    ASSUME Ctx!CtxTypeOK, NEW u \in Users, Parts(u), Ctx!ReadCurrent(u)
    PROVE  Parts(u)'
  <1>1. cmd[u].at = "current" /\ Runs(u, {"run", "migrate"}) /\ Reads /\ cmd[u] \in Ctx!Cmd
    BY DEF Parts, Place, Ctx!ReadCurrent, Ctx!At, Reads, Ctx!CtxTypeOK
  <1>2. \/ cmd[u].job.op = "run" /\ Goes(u, "group")
        \/ Goes(u, "failed")
        \/ cmd[u].job.op = "migrate" /\ Goes(u, "ok")
        \/ /\ cmd[u].job.op = "migrate"
           /\ cmd' = [cmd EXCEPT ![u].at = "write",
                                 ![u].pins = [sub |-> cli, rg |-> GroupOf(Cfg!Content)]]
    BY GotoGoes DEF Ctx!ReadCurrent, Ctx!Op
  <1>3. CASE cmd[u].job.op = "run" /\ Goes(u, "group")
    BY <1>1, <1>3 DEF Parts, Goes, Keeps, Reads, Place, Runs, Secure, Select, Chosen, Asked, Rename,
       Remove, Ctx!Renames, Ctx!Op, Ctx!Switching, Acting, Switched
  <1>4. CASE Goes(u, "failed")
    BY <1>1, <1>4, FailingKeeps DEF Ctx!Running
  <1>5. CASE cmd[u].job.op = "migrate" /\ Goes(u, "ok")
    BY <1>1, <1>5 DEF Parts, Goes, Keeps, Place, Runs, Secure, Select, Rename, Remove, Ctx!Renames,
       Ctx!Op, Ctx!Switching, Acting, Switched
  <1>6. CASE /\ cmd[u].job.op = "migrate"
             /\ cmd' = [cmd EXCEPT ![u].at = "write",
                                   ![u].pins = [sub |-> cli, rg |-> GroupOf(Cfg!Content)]]
    <2>1. cmd'[u].at = "write" /\ cmd'[u].job = cmd[u].job
      BY <1>1, <1>6 DEF Ctx!CtxTypeOK, Ctx!Cmd
    <2>. QED
      BY <1>1, <1>6, <2>1 DEF Place, Runs, Secure, Select, Rename, Remove, Parts, Ctx!Renames,
         Ctx!Op,
         Ctx!Switching, Acting, Switched
  <1>. QED  BY <1>2, <1>3, <1>4, <1>5, <1>6

(* TakeGroup, when the selected context and the flag do not say rg. *)
LEMMA TakeGroupKeeps ==
    ASSUME Ctx!CtxTypeOK, NEW u \in Users, Parts(u), Reads, cmd[u].at \in {"group", "reopen"},
           NEW rg, Ctx!TakeGroup(u, rg), cmd[u].job.flag = None,
           ~ cmd[u].stale => LET pinned == IF marker = None THEN None ELSE file[marker].rg IN
                             rg = IF pinned # None THEN pinned ELSE GroupOf(Cfg!Content)
    PROVE  Parts(u)'
  <1>1. cmd[u] \in Ctx!Cmd /\ cmd[u].job.op = "run"
    BY DEF Parts, Place, Runs, Acting, Ctx!CtxTypeOK
  <1>2. CASE Ctx!Fails(u)
    BY <1>2, FailingKeeps, GotoGoes DEF Ctx!Running
  <1>3. CASE cmd' = [cmd EXCEPT ![u].at = "act", ![u].rg = rg, ![u].conf = GroupOf(Cfg!Content)]
    <2>1. /\ cmd'[u].at = "act" /\ cmd'[u].job = cmd[u].job /\ cmd'[u].pins = cmd[u].pins
          /\ cmd'[u].rg = rg /\ cmd'[u].conf = GroupOf(Cfg!Content)
          /\ cmd'[u].stale = cmd[u].stale /\ cmd'[u].moved = cmd[u].moved
      BY <1>1, <1>3 DEF Ctx!CtxTypeOK, Ctx!Cmd
    <2>2. ~ cmd[u].stale => RgChosen(u)'
      BY <2>1 DEF Reads, RgChosen
    <2>. QED
      BY <1>1, <2>1, <2>2 DEF Parts, Reads, Place, Runs, Secure, Select, Chosen, Asked, Rename,
         Remove,
         Ctx!Renames, Ctx!Op, Ctx!Switching, Acting, Switched
  <1>. QED  BY <1>2, <1>3 DEF Ctx!TakeGroup

LEMMA ReadGroupKeeps ==
    ASSUME Ctx!CtxTypeOK, NEW u \in Users, Parts(u), Ctx!ReadGroup(u)
    PROVE  Parts(u)'
  <1>1. cmd[u].at = "group" /\ cmd[u].job.op = "run" /\ Reads /\ cmd[u] \in Ctx!Cmd
    BY DEF Parts, Place, Runs, Ctx!ReadGroup, Ctx!At, Reads, Acting, Ctx!CtxTypeOK
  <1>2. CASE cmd[u].job.flag # None
             /\ cmd' = [cmd EXCEPT ![u].at = "act", ![u].rg = cmd[u].job.flag]
    <2>1. /\ cmd'[u].at = "act" /\ cmd'[u].job = cmd[u].job /\ cmd'[u].pins = cmd[u].pins
          /\ cmd'[u].rg = cmd[u].job.flag
          /\ cmd'[u].stale = cmd[u].stale /\ cmd'[u].moved = cmd[u].moved
      BY <1>1, <1>2 DEF Ctx!CtxTypeOK, Ctx!Cmd
    <2>2. Place(u)' /\ Secure(u)'
      BY <1>1, <1>2, <2>1 DEF Parts, Reads, Place, Runs, Secure, Ctx!Switching, Acting, Switched
    <2>3. Select(u)'
      BY <1>1, <1>2, <2>1 DEF Parts, Reads, Select, Chosen, Asked, RgChosen, Ctx!Switching, Acting
    <2>4. Rename(u)' /\ Remove(u)'
      BY <1>1, <2>1 DEF Rename, Remove, Ctx!Renames, Ctx!Op
    <2>. QED  BY <2>2, <2>3, <2>4 DEF Parts
  <1>3. CASE cmd[u].job.flag = None /\ marker # None
             /\ cmd' = [cmd EXCEPT ![u].at = "reopen", ![u].found = marker]
    <2>1. /\ cmd'[u].at = "reopen" /\ cmd'[u].job = cmd[u].job /\ cmd'[u].pins = cmd[u].pins
          /\ cmd'[u].found = marker
          /\ cmd'[u].stale = cmd[u].stale /\ cmd'[u].moved = cmd[u].moved
      BY <1>1, <1>3 DEF Ctx!CtxTypeOK, Ctx!Cmd
    <2>2. Place(u)' /\ Secure(u)'
      BY <1>1, <1>3, <2>1 DEF Parts, Reads, Place, Runs, Secure, Ctx!Switching, Acting, Switched
    <2>3. Select(u)'
      <3>1. ~ cmd[u].stale => Chosen(u)
        BY <1>1 DEF Parts, Select, Acting
      <3>2. Chosen(u) => Chosen(u)'
        BY <1>1, <2>1 DEF Reads, Chosen, Asked
      <3>. QED  BY <1>1, <2>1, <3>1, <3>2 DEF Select, Reads
    <2>4. Rename(u)' /\ Remove(u)'
      BY <1>1, <2>1 DEF Rename, Remove, Ctx!Renames, Ctx!Op
    <2>. QED  BY <2>2, <2>3, <2>4 DEF Parts
  <1>4. CASE cmd[u].job.flag = None /\ marker = None /\ Ctx!TakeGroup(u, GroupOf(Cfg!Content))
    BY <1>1, <1>4, TakeGroupKeeps
  <1>. QED  BY <1>2, <1>3, <1>4 DEF Ctx!ReadGroup

LEMMA ReopenKeeps ==
    ASSUME Ctx!CtxTypeOK, NEW u \in Users, Parts(u), Ctx!Reopen(u)
    PROVE  Parts(u)'
  <1>1. /\ cmd[u].at = "reopen" /\ cmd[u].job.op = "run" /\ Reads
        /\ cmd[u].job.flag = None /\ cmd[u].found # None
    BY DEF Parts, Place, Runs, Ctx!Reopen, Ctx!At, Reads, Acting
  <1>2. CASE Ctx!Fails(u)
    BY <1>1, <1>2, FailingKeeps, GotoGoes DEF Ctx!Running
  <1>3. CASE Ctx!TakeGroup(u, IF file[cmd[u].found].rg # None THEN file[cmd[u].found].rg
                              ELSE GroupOf(Cfg!Content))
    <2>1. ~ cmd[u].stale => cmd[u].found = marker
      BY <1>1 DEF Parts, Select
    <2>. DEFINE rg == IF file[cmd[u].found].rg # None THEN file[cmd[u].found].rg
                      ELSE GroupOf(Cfg!Content)
    <2>2. ~ cmd[u].stale =>
            LET pinned == IF marker = None THEN None ELSE file[marker].rg IN
            rg = IF pinned # None THEN pinned ELSE GroupOf(Cfg!Content)
      BY <1>1, <2>1
    <2>3. Ctx!TakeGroup(u, rg)
      BY <1>3
    <2>. HIDE DEF rg
    <2>. QED  BY <1>1, <2>2, <2>3, TakeGroupKeeps
  <1>. QED  BY <1>2, <1>3 DEF Ctx!Reopen

LEMMA AskingKeeps ==
    ASSUME Ctx!CtxTypeOK, NEW u \in Users, Parts(u),
           Ctx!Start(u) \/ Ctx!Exists(u) \/ Ctx!Confirm(u) \/ Ctx!Act(u) \/ Ctx!Kill(u)
    PROVE  Parts(u)'
  <1>1. Reads /\ cmd[u] \in Ctx!Cmd
    BY DEF Ctx!Start, Ctx!Exists, Ctx!Confirm, Ctx!Act, Ctx!Kill, Reads, Ctx!CtxTypeOK
  <1>2. CASE Ctx!Start(u)
    <2>1. cmd[u].at = "idle" /\ cmd[u].job.op # "none" /\ Goes(u, Ctx!First(cmd[u].job.op))
      BY <1>2, GotoGoes DEF Ctx!Start, Ctx!At, Ctx!Op
    <2>2. \/ cmd[u].job.op \in {"use", "rename"} /\ cmd'[u].at = "open"
          \/ cmd[u].job.op = "create" /\ cmd'[u].at = "write"
          \/ cmd[u].job.op = "delete" /\ cmd'[u].at = "exists"
          \/ cmd[u].job.op = "migrate" /\ cmd'[u].at = "current"
          \/ cmd[u].job.op = "run" /\ cmd'[u].at = "marker"
          \/ cmd[u].job.op = "test" /\ cmd'[u].at = "account"
      BY <2>1, CmdIsTyped DEF Goes, Ctx!First
    <2>3. cmd[u].job.op # "create" => cmd[u].pins = Asked(u)
      BY <2>1 DEF Parts, Place, Ctx!Idle, Asked
    <2>4. cmd[u].job.op = "rename" => cmd[u].job.profile = None
      BY CmdIsTyped
    <2>5. cmd[u].job.op = "rename" => cmd[u].pins = Ctx!NoPins
      BY <2>3, <2>4 DEF Asked, Ctx!NoPins
    <2>6. cmd[u].job.op = "test" => cmd[u].pins.sub # None
      BY <2>3, CmdIsTyped DEF Asked, Ctx!NoPins
    <2>7. Place(u)' /\ Secure(u)'
      BY <1>1, <2>1, <2>2, <2>6 DEF Place, Secure, Goes, Keeps, Runs, Ctx!Switching, Acting,
         Switched
    <2>8. Select(u)'
      BY <1>1, <2>1, <2>2, <2>3 DEF Select, Goes, Keeps, Asked, Ctx!Switching, Acting
    <2>9. Rename(u)' /\ Remove(u)'
      BY <1>1, <2>1, <2>2, <2>5 DEF Rename, Remove, Goes, Keeps, Ctx!Renames, Ctx!Op, Switched
    <2>. QED  BY <2>7, <2>8, <2>9 DEF Parts
  <1>3. CASE Ctx!Exists(u)
    <2>1. /\ cmd[u].at = "exists" /\ cmd[u].job.op = "delete"
          /\ \/ Goes(u, "failed")
             \/ file[cmd[u].job.name] # Absent /\ (Goes(u, "remove") \/ Goes(u, "confirm"))
      BY <1>3, GotoGoes DEF Parts, Place, Runs, Ctx!Exists, Ctx!At
    <2>. QED
      BY <1>1, <2>1 DEF Parts, Goes, Keeps, Reads, Place, Runs, Secure, Select, Rename, Remove,
         Ctx!Renames, Ctx!Op, Ctx!Switching, Acting, Switched
  <1>4. CASE Ctx!Confirm(u)
    <2>1. /\ cmd[u].at = "confirm" /\ cmd[u].job.op = "delete"
          /\ Goes(u, "remove") \/ Goes(u, "ok") \/ Goes(u, "failed")
      BY <1>4, GotoGoes DEF Parts, Place, Runs, Ctx!Confirm, Ctx!At
    <2>. QED
      BY <1>1, <2>1 DEF Parts, Goes, Keeps, Reads, Place, Runs, Secure, Select, Rename, Remove,
         Ctx!Renames, Ctx!Op, Ctx!Switching, Acting, Switched
  <1>5. CASE Ctx!Act(u)
    <2>1. cmd[u].at = "act" /\ cmd[u].job.op = "run" /\ Goes(u, "ok")
      BY <1>5, GotoGoes DEF Parts, Place, Runs, Acting, Ctx!Act, Ctx!At
    <2>. QED
      BY <1>1, <2>1 DEF Parts, Goes, Keeps, Reads, Place, Runs, Secure, Select, Rename, Remove,
         Ctx!Renames, Ctx!Op, Ctx!Switching, Acting, Switched
  <1>6. CASE Ctx!Kill(u)
    BY <1>1, <1>6, FailingKeeps, GotoGoes DEF Ctx!Kill
  <1>. QED  BY <1>2, <1>3, <1>4, <1>5, <1>6

LEMMA WritingKeeps ==
    ASSUME Ctx!CtxTypeOK, NEW u \in Users, Parts(u), Ctx!Truncate(u) \/ Ctx!Fill(u)
    PROVE  Parts(u)'
  <1>1. /\ cmd[u].at \in {"write", "writing"} /\ Runs(u, {"create", "rename", "migrate"})
        /\ file \in [Names -> Ctx!Pins \cup {Absent}]
    BY DEF Parts, Place, Ctx!Truncate, Ctx!Fill, Ctx!At, Ctx!CtxTypeOK
  <1>2. /\ cmd[u].job.op = "rename" => Ctx!Target(u) = cmd[u].job.to
        /\ cmd[u].job.op = "rename" => Ctx!AfterFill(u) = "remove"
        /\ Ctx!AfterFill(u) \in {"ok", "remove", "mark"}
        /\ Ctx!AfterFill(u) = "remove" => cmd[u].job.op = "rename"
        /\ Ctx!AfterFill(u) = "mark" => cmd[u].job.op = "migrate"
    BY <1>1 DEF Runs, Ctx!Target, Ctx!AfterFill, Ctx!Op
  <1>3. \/ /\ cmd[u].at = "write" /\ Goes(u, "writing")
           /\ file' = [file EXCEPT ![Ctx!Target(u)] = Ctx!NoPins]
        \/ /\ cmd[u].at = "writing" /\ Goes(u, Ctx!AfterFill(u))
           /\ file' = IF file[Ctx!Target(u)] # Absent
                      THEN [file EXCEPT ![Ctx!Target(u)] = cmd[u].pins] ELSE file
    BY <1>2, GotoGoes DEF Ctx!Truncate, Ctx!Fill, Ctx!At, Places, Ctx!Running, Ctx!Ended
  <1>4. Place(u)' /\ Secure(u)' /\ Select(u)' /\ Remove(u)'
    BY <1>1, <1>2, <1>3 DEF Goes, Keeps, Place, Runs, Secure, Select, Remove, Ctx!Renames, Ctx!Op,
       Ctx!Switching, Acting, Switched
  <1>5. Rename(u)'
    <2>. SUFFICES ASSUME Ctx!Renames(u), ~ cmd[u].stale
                  PROVE  Rename(u)'
      BY <1>3 DEF Rename, Ctx!Renames, Ctx!Op, Goes, Keeps
    <2>1. cmd[u].job.to \in Names /\ cmd[u].job.name \in Names
          /\ cmd[u].job.to # cmd[u].job.name /\ cmd[u].job.op = "rename"
      BY CmdIsTyped DEF Ctx!Renames, Ctx!Op
    <2>2. Old(u) /\ (cmd[u].at = "writing" => file[cmd[u].job.to] # Absent)
      BY <1>1 DEF Parts, Rename
    <2>3. CASE cmd[u].at = "write"
      BY <1>1, <1>2, <1>3, <2>1, <2>2, <2>3, CtxConstants DEF Rename, Goes, Keeps, Old, Switched
    <2>4. CASE cmd[u].at = "writing"
      BY <1>1, <1>2, <1>3, <2>1, <2>2, <2>4 DEF Rename, Goes, Keeps, New, Switched
    <2>. QED  BY <1>1, <2>3, <2>4
  <1>. QED  BY <1>4, <1>5 DEF Parts

LEMMA MarkingKeeps ==
    ASSUME Ctx!CtxTypeOK, NEW u \in Users, Parts(u),
           Ctx!TruncateMarker(u) \/ Ctx!FillMarker(u) \/ Ctx!Clear(u)
    PROVE  Parts(u)'
  <1>1. UNCHANGED <<file, cli>>
    BY DEF Ctx!TruncateMarker, Ctx!FillMarker, Ctx!Clear
  <1>2. \/ cmd[u].at = "mark" /\ Goes(u, "marking") /\ Runs(u, {"use", "rename", "migrate"})
        \/ /\ cmd[u].at = "marking" /\ Goes(u, "ok") /\ Runs(u, {"use", "rename", "migrate"})
           /\ marker' = Ctx!Selected(u)
        \/ /\ cmd[u].at = "clear" /\ Goes(u, "ok") /\ cmd[u].job.op = "delete" /\ marker' = None
    BY GotoGoes DEF Ctx!TruncateMarker, Ctx!FillMarker, Ctx!Clear, Ctx!At, Parts, Place, Runs,
       Switched,
       Places, Ctx!Running, Ctx!Ended
  <1>3. cmd[u].job.op = "rename" => Ctx!Selected(u) = cmd[u].job.to
    BY DEF Ctx!Selected, Ctx!Target, Ctx!Op
  <1>4. cmd[u].job.name \in Names /\ None \notin Names
    BY CmdIsTyped, CtxConstants
  <1>5. Place(u)' /\ Secure(u)' /\ Select(u)' /\ Rename(u)'
    BY <1>1, <1>2 DEF Parts, Goes, Keeps, Place, Runs, Secure, Select, Rename, New, Ctx!Renames,
       Ctx!Op,
       Ctx!Switching, Acting, Switched
  <1>6. Remove(u)'
    BY <1>1, <1>2, <1>3, <1>4 DEF Goes, Keeps, Runs, Remove, Ctx!Renames, Ctx!Op
  <1>. QED  BY <1>5, <1>6 DEF Parts

LEMMA RemovingKeeps ==
    ASSUME Ctx!CtxTypeOK, NEW u \in Users, Parts(u), Ctx!Remove(u)
    PROVE  Parts(u)'
  <1>1. cmd[u].at = "remove" /\ Runs(u, {"delete", "rename"})
    BY DEF Parts, Place, Ctx!Remove, Ctx!At
  <1>2. CASE Ctx!Fails(u) /\ UNCHANGED file
    BY <1>1, <1>2, FailingKeeps, GotoGoes DEF Ctx!Remove, Reads, Ctx!Running
  <1>3. CASE Ctx!Writes(u, "marker") /\ file' = [file EXCEPT ![cmd[u].job.name] = Absent]
    <2>1. Goes(u, "marker") /\ file \in [Names -> Ctx!Pins \cup {Absent}]
      BY <1>3, GotoGoes DEF Places, Ctx!Running, Ctx!CtxTypeOK
    <2>2. Ctx!Renames(u) => cmd[u].job.name # cmd[u].job.to
      BY DEF Ctx!Renames
    <2>3. cmd[u].job.op = "run" => FALSE
      BY <1>1 DEF Runs
    <2>4. Rename(u)'
      BY <1>1, <1>3, <2>1, <2>2, CmdIsTyped
         DEF Parts, Goes, Keeps, Rename, New, Ctx!Renames, Ctx!Op, Switched
    <2>. QED
      BY <1>1, <2>1, <2>3, <2>4 DEF Parts, Goes, Keeps, Place, Runs, Secure, Select, Remove,
         Ctx!Renames, Ctx!Op, Ctx!Switching, Acting, Switched
  <1>. QED  BY <1>2, <1>3 DEF Ctx!Remove

LEMMA CtxNextKeeps ==
    ASSUME Ctx!CtxTypeOK, Cfg!CfgTypeOK, CtxInv, Ctx!CtxNext
    PROVE  Ctx!CtxTypeOK' /\ CtxInv'
  <1>1. ASSUME NEW u \in Users, Ctx!CtxStep(u)
        PROVE  Ctx!CtxTypeOK' /\ CtxInv'
    <2>1. Ctx!CtxTypeOK'
      BY <1>1, CtxTypeStep
    <2>2. Parts(u)'
      <3>1. Parts(u)
        BY DEF CtxInv, Parts
      <3>. QED
        BY <1>1, <3>1, SwitchingKeeps, OpenKeeps, ReadMarkerKeeps, ReadCurrentKeeps, ReadGroupKeeps,
           ReopenKeeps, AskingKeeps, WritingKeeps, MarkingKeeps, RemovingKeeps DEF Ctx!CtxStep
    <2>3. ASSUME NEW v \in Users \ {u}
          PROVE  Place(v)' /\ Secure(v)' /\ Select(v)' /\ Rename(v)' /\ Remove(v)'
      <3>1. Undisturbed(v)
        BY <1>1, <2>3, OthersAreUndisturbed
      <3>. QED  BY <3>1, UndisturbedKeeps DEF CtxInv
    <2>. QED  BY <2>1, <2>2, <2>3 DEF CtxInv, Parts
  <1>2. CASE Ctx!Elsewhere
    <2>1. /\ \E s \in Subs : cli' = s
          /\ cmd' = [u \in Users |-> [cmd[u] EXCEPT !.moved = cmd[u].at \in Ctx!Running]]
          /\ UNCHANGED <<file, marker>>
      BY <1>2 DEF Ctx!Elsewhere
    <2>2. ASSUME NEW v \in Users
          PROVE  cmd'[v] \in Ctx!Cmd /\ Undisturbed(v)
      <3>1. cmd'[v] = [cmd[v] EXCEPT !.moved = cmd[v].at \in Ctx!Running] /\ cmd[v] \in Ctx!Cmd
        BY <2>1 DEF Ctx!CtxTypeOK
      <3>. QED  BY <2>1, <3>1, MovedIsUndisturbed
    <2>3. Ctx!CtxTypeOK'
      BY <2>1, <2>2 DEF Ctx!CtxTypeOK
    <2>. QED  BY <2>2, <2>3, UndisturbedKeeps DEF CtxInv
  <1>. QED  BY <1>1, <1>2 DEF Ctx!CtxNext

-----------------------------------------------------------------------------
(* config.toml. *)

LEMMA CfgConstants ==
    /\ Defaults \in Cfg!Config /\ Own \in Cfg!Config /\ None \notin Inodes
    /\ Blank \notin Cfg!Config /\ Garbled \notin Cfg!Config /\ Blank # Garbled
  BY LocalAssumption DEF LocalAssumption, Cfg!ConfigAssumption

LEMMA SaverIsTyped ==
    ASSUME Cfg!CfgTypeOK, NEW u \in Users
    PROVE  /\ saver[u] \in Cfg!Saver /\ saver[u].job \in CfgJobs
           /\ saver[u].job.op \in {"set", "init", "none"} /\ saver[u].job.key \in Keys
           /\ saver[u].job.val \in Groups \cup {None}
  <1>1. saver[u] \in Cfg!Saver
    BY DEF Cfg!CfgTypeOK
  <1>2. saver[u].job \in CfgJobs
    BY <1>1 DEF Cfg!Saver
  <1>. QED
    BY <1>1, <1>2, LocalAssumption DEF LocalAssumption, Cfg!ConfigAssumption

Others(u) ==
    \A v \in Users \ {u} :
        /\ saver'[v].at = saver[v].at /\ saver'[v].job = saver[v].job /\ saver'[v].was = saver[v].was
        /\ saver'[v].mine = saver[v].mine /\ saver'[v].fd = saver[v].fd

(* A step the others do not notice, and one they do. *)
Quiet(u) ==
    /\ UNCHANGED <<conf, tmp, text>> /\ Others(u)
    /\ Cfg!Uncrossed' => Cfg!Uncrossed

Loud(u) ==
    /\ Others(u)
    /\ Cfg!Uncrossed' => Cfg!Uncrossed /\ \A v \in Users \ {u} : saver[v].at \notin Cfg!Saving

LEMMA StepIsQuiet ==
    ASSUME Cfg!CfgTypeOK, NEW u \in Users, NEW s \in Cfg!Saver, Cfg!Step(u, s),
           s.crossed = saver[u].crossed
    PROVE  /\ saver' \in [Users -> Cfg!Saver] /\ saver'[u] = s /\ Others(u)
           /\ Cfg!Uncrossed' => Cfg!Uncrossed
  <1>1. saver' = [saver EXCEPT ![u] = s] /\ saver \in [Users -> Cfg!Saver]
    BY DEF Cfg!Step, Cfg!CfgTypeOK
  <1>. QED  BY <1>1 DEF Others, Cfg!Uncrossed

LEMMA TouchesIsLoud ==
    ASSUME Cfg!CfgTypeOK, NEW u \in Users, NEW s \in Cfg!Saver, Cfg!Touches(u, s),
           s.crossed = saver[u].crossed
    PROVE  saver' \in [Users -> Cfg!Saver] /\ saver'[u] = s /\ Loud(u)
  <1>1. saver' = [v \in Users |-> IF v = u THEN s
                     ELSE [saver[v] EXCEPT !.crossed = saver[v].crossed \/ saver[v].at \in Cfg!Saving]]
    BY DEF Cfg!Touches
  <1>2. ASSUME NEW v \in Users \ {u}
        PROVE  /\ saver'[v] \in Cfg!Saver
               /\ saver'[v].at = saver[v].at /\ saver'[v].job = saver[v].job
               /\ saver'[v].was = saver[v].was /\ saver'[v].mine = saver[v].mine
               /\ saver'[v].fd = saver[v].fd
               /\ saver[v].crossed \/ saver[v].at \in Cfg!Saving => saver'[v].crossed
    <2>1. saver[v] \in Cfg!Saver
      BY DEF Cfg!CfgTypeOK
    <2>2. CASE saver[v].crossed \/ saver[v].at \in Cfg!Saving
      <3>1. saver'[v] = [saver[v] EXCEPT !.crossed = TRUE]
        BY <1>1, <2>2
      <3>. QED  BY <2>1, <3>1 DEF Cfg!Saver
    <2>3. CASE ~ (saver[v].crossed \/ saver[v].at \in Cfg!Saving)
      <3>1. (saver[v].crossed \/ saver[v].at \in Cfg!Saving) = FALSE
        BY <2>3
      <3>2. saver'[v] = [saver[v] EXCEPT !.crossed = FALSE]
        BY <1>1, <3>1, Zenon
      <3>. QED  BY <2>1, <2>3, <3>2 DEF Cfg!Saver
    <2>. QED  BY <2>2, <2>3
  <1>3. saver'[u] = s /\ DOMAIN saver' = Users
    BY <1>1
  <1>4. saver' \in [Users -> Cfg!Saver]
    BY <1>1, <1>2, <1>3
  <1>. QED  BY <1>2, <1>3, <1>4 DEF Loud, Others, Cfg!Uncrossed

LEMMA QuietKeeps ==
    ASSUME CfgInv, NEW u \in Users, Quiet(u), Stage(u)', saver'[u].job = saver[u].job,
           Cfg!Uncrossed =>
             /\ Known(u)' /\ Wins(u)'
             /\ saver'[u].at \in Filling => saver[u].at \in Filling
             /\ saver'[u].at = "ok" /\ saver'[u].mine # Blank => Cfg!Content \in Cfg!Config
    PROVE  CfgInv'
  <1>1. Cfg!Content' = Cfg!Content
    BY DEF Quiet, Cfg!Content
  <1>2. \A v \in Users \ {u} : Stage(v)'
    BY DEF CfgInv, Quiet, Others, Stage, Sets, Base, Cfg!Changed
  <1>3. ASSUME Cfg!Uncrossed'
        PROVE  \A v \in Users \ {u} : Known(v)' /\ Wins(v)'
    <2>. SUFFICES ASSUME NEW v \in Users \ {u}
                  PROVE  Known(v)' /\ Wins(v)'
      OBVIOUS
    <2>1. Known(v) /\ Wins(v)
      BY <1>3 DEF CfgInv, Quiet
    <2>2. \A w \in Users : saver'[w].job = saver[w].job
      BY DEF Quiet, Others
    <2>3. Known(v)'
      BY <1>1, <2>1 DEF Quiet, Others, Known
    <2>4. Private(v)' = Private(v)
      BY <2>2 DEF Private
    <2>5. Wins(v)'
      BY <1>1, <2>1, <2>2, <2>4 DEF Quiet, Others, Wins
    <2>. QED  BY <2>3, <2>5
  <1>4. ASSUME Cfg!Uncrossed'
        PROVE  \A v, w \in Users : saver'[v].at \in Filling /\ saver'[w].at \in Filling => v = w
    BY <1>4 DEF CfgInv, Quiet, Others
  <1>5. ASSUME Cfg!Uncrossed'
        PROVE  Whole'
    BY <1>1, <1>5 DEF CfgInv, Quiet, Others, Whole
  <1>. QED  BY <1>1, <1>2, <1>3, <1>4, <1>5 DEF CfgInv, Quiet

LEMMA LoudKeeps ==
    ASSUME CfgInv, NEW u \in Users, Loud(u), Stage(u)', tmp' # None => tmp' # conf',
           Cfg!Uncrossed /\ (\A v \in Users \ {u} : saver[v].at \notin Cfg!Saving) =>
             /\ Cfg!Content' # Blank /\ Known(u)' /\ Whole'
             /\ \A v \in Users : Wins(v)'
    PROVE  CfgInv'
  <1>1. \A v \in Users \ {u} : Stage(v)'
    BY DEF CfgInv, Loud, Others, Stage, Sets, Base, Cfg!Changed
  <1>2. ASSUME Cfg!Uncrossed', NEW v \in Users \ {u}
        PROVE  saver'[v].at \notin Filling /\ Known(v)'
    BY <1>2 DEF Loud, Others, Known, Ready, Filling, Cfg!Saving
  <1>. QED  BY <1>1, <1>2 DEF CfgInv, Loud

(* Wins and Whole while config.toml is left alone. *)
LEMMA SameContent ==
    ASSUME CfgInv, NEW u \in Users, Others(u), Cfg!Uncrossed, saver'[u].job = saver[u].job,
           Cfg!Content' = Cfg!Content, saver'[u].at # "ok"
    PROVE  Cfg!Content' # Blank /\ Whole' /\ \A v \in Users : Wins(v)'
  <1>1. \A w \in Users : saver'[w].job = saver[w].job
    BY DEF Others
  <1>2. ASSUME NEW v \in Users
        PROVE  Wins(v)'
    <2>1. Private(v)' = Private(v)
      BY <1>1 DEF Private
    <2>. QED  BY <1>1, <2>1 DEF CfgInv, Others, Wins
  <1>. QED  BY <1>2 DEF CfgInv, Others, Whole

LEMMA StartingSaver ==
    ASSUME Cfg!CfgTypeOK, CfgInv, NEW u \in Users,
           Cfg!Begin(u) \/ Cfg!Load(u) \/ Cfg!Answer(u) \/ Cfg!Chmod(u) \/ Cfg!KillSaver(u)
    PROVE  Cfg!CfgTypeOK' /\ CfgInv'
  <1>1. saver[u] \in Cfg!Saver /\ Stage(u) /\ UNCHANGED <<conf, tmp, text>>
    BY DEF Cfg!CfgTypeOK, CfgInv, Cfg!Begin, Cfg!Load, Cfg!Answer, Cfg!Chmod, Cfg!KillSaver
  <1>2. ASSUME NEW s \in Cfg!Saver, Cfg!Step(u, s), s.crossed = saver[u].crossed
        PROVE  Quiet(u) /\ saver'[u] = s /\ Cfg!CfgTypeOK'
    BY <1>1, <1>2, StepIsQuiet DEF Quiet, Cfg!CfgTypeOK
  <1>3. \A l \in Cfg!Saving \cup {"ok", "failed"} :
          /\ Cfg!To(u, l) \in Cfg!Saver /\ Cfg!To(u, l).crossed = saver[u].crossed
          /\ Cfg!To(u, l).at = l /\ Cfg!To(u, l).job = saver[u].job
          /\ Cfg!To(u, l).mine = saver[u].mine /\ Cfg!To(u, l).was = saver[u].was
          /\ Cfg!To(u, l).fd = saver[u].fd
    BY <1>1 DEF Cfg!To, Cfg!Saver
  <1>4. CASE Cfg!Begin(u)
    <2>1. PICK l \in {"answer", "load"} : Cfg!Step(u, Cfg!To(u, l))
                /\ (l = "answer" <=> saver[u].job.op = "init")
      BY <1>4 DEF Cfg!Begin
    <2>2. Quiet(u) /\ saver'[u] = Cfg!To(u, l) /\ Cfg!CfgTypeOK'
      BY <1>2, <1>3, <2>1 DEF Cfg!Saving
    <2>3. saver[u].at = "idle" /\ saver[u].job.op # "none"
      BY <1>4 DEF Cfg!Begin, Cfg!InState
    <2>4. saver[u].job.op \in {"set", "init"}
      BY <2>3, SaverIsTyped
    <2>5. Stage(u)' /\ Known(u)' /\ Wins(u)'
      BY <1>1, <1>3, <2>1, <2>2, <2>3, <2>4
         DEF Stage, Known, Wins, Ready, Filling, Cfg!Saving
    <2>. QED  BY <1>3, <2>1, <2>2, <2>5, QuietKeeps DEF Filling, Cfg!Saving
  <1>5. CASE Cfg!KillSaver(u)
    <2>1. [Cfg!To(u, "killed") EXCEPT !.fd = None] \in Cfg!Saver
      BY <1>1 DEF Cfg!To, Cfg!Saver
    <2>2. /\ [Cfg!To(u, "killed") EXCEPT !.fd = None].crossed = saver[u].crossed
          /\ [Cfg!To(u, "killed") EXCEPT !.fd = None].at = "killed"
          /\ [Cfg!To(u, "killed") EXCEPT !.fd = None].job = saver[u].job
      BY <1>1 DEF Cfg!To, Cfg!Saver
    <2>3. Quiet(u) /\ Cfg!CfgTypeOK' /\ saver'[u].at = "killed" /\ saver'[u].job = saver[u].job
      BY <1>2, <1>5, <2>1, <2>2 DEF Cfg!KillSaver
    <2>4. Stage(u)' /\ Known(u)' /\ Wins(u)'
      BY <1>1, <1>5, <2>3 DEF Cfg!KillSaver, Stage, Known, Wins, Ready, Filling, Cfg!Saving
    <2>. QED  BY <2>3, <2>4, QuietKeeps DEF Filling
  <1>6. CASE Cfg!Chmod(u)
    <2>1. PICK l \in {"rename", "sweep"} : Cfg!Step(u, Cfg!To(u, l)) /\ (tmp # None => l = "rename")
      BY <1>6 DEF Cfg!Chmod
    <2>2. Quiet(u) /\ saver'[u] = Cfg!To(u, l) /\ Cfg!CfgTypeOK'
      BY <1>2, <1>3, <2>1 DEF Cfg!Saving
    <2>3. saver[u].at = "chmod"
      BY <1>6 DEF Cfg!Chmod, Cfg!InState
    <2>4. /\ saver'[u].at = l /\ saver'[u].job = saver[u].job /\ saver'[u].mine = saver[u].mine
          /\ saver'[u].was = saver[u].was /\ saver'[u].fd = saver[u].fd
      BY <1>3, <2>2 DEF Cfg!Saving
    <2>5. Stage(u)' /\ Wins(u)'
      BY <1>1, <2>3, <2>4 DEF Stage, Sets, Base, Cfg!Changed, Wins, Ready, Filling
    <2>6. Cfg!Uncrossed => Known(u)'
      <3>1. Cfg!Content' = Cfg!Content
        BY <1>1 DEF Cfg!Content
      <3>2. Cfg!Uncrossed => Known(u)
        BY DEF CfgInv
      <3>. QED  BY <1>1, <2>1, <2>3, <2>4, <3>1, <3>2 DEF Known, Ready, Filling
    <2>. QED  BY <2>2, <2>3, <2>4, <2>5, <2>6, QuietKeeps DEF Filling
  <1>7. CASE Cfg!Load(u)
    <2>. DEFINE c == IF Cfg!Content = Blank THEN Defaults ELSE Cfg!Content
    <2>1. saver[u].at = "load" /\ saver[u].job.op = "set"
      BY <1>1, <1>7 DEF Cfg!Load, Cfg!InState, Stage
    <2>2. CASE Cfg!Step(u, Cfg!To(u, "failed"))
      <3>1. Quiet(u) /\ saver'[u] = Cfg!To(u, "failed") /\ Cfg!CfgTypeOK'
        BY <1>2, <1>3, <2>2
      <3>2. Stage(u)' /\ Known(u)' /\ Wins(u)'
        BY <1>1, <1>3, <2>1, <3>1 DEF Stage, Known, Wins, Ready, Filling
      <3>. QED  BY <1>3, <3>1, <3>2, QuietKeeps DEF Filling
    <2>3. CASE /\ c # Garbled
               /\ Cfg!Step(u, [Cfg!To(u, "open") EXCEPT !.was = Cfg!Content, !.mine = Cfg!Changed(u, c)])
      <3>1. c \in Cfg!Config /\ Cfg!Content \in Cfg!Config \cup {Blank, Garbled}
        BY <2>3, ConfigIsTyped, CfgConstants
      <3>2. Cfg!Changed(u, c) \in Cfg!Config
        BY <3>1, SaverIsTyped DEF Cfg!Changed, Cfg!Config
      <3>. DEFINE s == [Cfg!To(u, "open") EXCEPT !.was = Cfg!Content, !.mine = Cfg!Changed(u, c)]
      <3>3. /\ s \in Cfg!Saver /\ s.crossed = saver[u].crossed /\ s.at = "open"
            /\ s.job = saver[u].job /\ s.was = Cfg!Content /\ s.mine = Cfg!Changed(u, c)
        <4>. HIDE DEF c
        <4>. QED  BY <1>1, <3>1, <3>2 DEF Cfg!To, Cfg!Saver, Cfg!Saving
      <3>4. Quiet(u) /\ saver'[u] = s /\ Cfg!CfgTypeOK'
        BY <1>2, <2>3, <3>3
      <3>5. Cfg!Content' = Cfg!Content
        BY <1>1 DEF Cfg!Content
      <3>6. Sets(u)'
        BY <3>1, <3>3, <3>4 DEF Sets, Base, Cfg!Changed
      <3>. HIDE DEF s, c
      <3>7. Stage(u)' /\ Known(u)' /\ Wins(u)'
        BY <1>1, <2>1, <3>2, <3>3, <3>4, <3>5, <3>6 DEF Stage, Known, Wins, Ready, Filling
      <3>. QED  BY <3>3, <3>4, <3>7, QuietKeeps DEF Filling
    <2>. QED  BY <1>7, <2>2, <2>3 DEF Cfg!Load
  <1>8. CASE Cfg!Answer(u)
    <2>1. saver[u].at = "answer" /\ saver[u].job.op = "init"
      BY <1>1, <1>8 DEF Cfg!Answer, Cfg!InState, Stage
    <2>2. ASSUME NEW l \in {"ok", "failed"}, Cfg!Step(u, Cfg!To(u, l))
          PROVE  Cfg!CfgTypeOK' /\ CfgInv'
      <3>1. Quiet(u) /\ saver'[u] = Cfg!To(u, l) /\ Cfg!CfgTypeOK'
        BY <1>2, <1>3, <2>2
      <3>2. saver'[u].at = l /\ saver'[u].job = saver[u].job /\ saver'[u].mine = saver[u].mine
        BY <1>3, <3>1
      <3>3. saver[u].mine = Blank
        BY <1>1, <2>1 DEF Stage
      <3>4. Stage(u)' /\ Known(u)' /\ Wins(u)'
        BY <1>1, <2>1, <3>2 DEF Stage, Known, Wins, Ready, Filling
      <3>. QED  BY <3>1, <3>2, <3>3, <3>4, QuietKeeps DEF Filling
    <2>3. CASE Cfg!Step(u, [Cfg!To(u, "open") EXCEPT !.was = Cfg!Content,
                                                      !.mine = Cfg!Changed(u, Defaults)])
      <3>1. Cfg!Content \in Cfg!Config \cup {Blank, Garbled}
        BY ConfigIsTyped
      <3>2. Cfg!Changed(u, Defaults) \in Cfg!Config
        BY CfgConstants, SaverIsTyped DEF Cfg!Changed, Cfg!Config
      <3>. DEFINE s == [Cfg!To(u, "open") EXCEPT !.was = Cfg!Content,
                                                 !.mine = Cfg!Changed(u, Defaults)]
      <3>3. /\ s \in Cfg!Saver /\ s.crossed = saver[u].crossed /\ s.at = "open"
            /\ s.job = saver[u].job /\ s.was = Cfg!Content /\ s.mine = Cfg!Changed(u, Defaults)
        BY <1>1, <3>1, <3>2 DEF Cfg!To, Cfg!Saver, Cfg!Saving
      <3>4. Quiet(u) /\ saver'[u] = s /\ Cfg!CfgTypeOK'
        BY <1>2, <2>3, <3>3
      <3>5. Cfg!Content' = Cfg!Content
        BY <1>1 DEF Cfg!Content
      <3>. HIDE DEF s
      <3>6. Stage(u)' /\ Known(u)' /\ Wins(u)'
        BY <1>1, <2>1, <3>2, <3>3, <3>4, <3>5 DEF Stage, Known, Wins, Ready, Filling
      <3>. QED  BY <3>3, <3>4, <3>6, QuietKeeps DEF Filling
    <2>. QED  BY <1>8, <2>2, <2>3 DEF Cfg!Answer
  <1>. QED  BY <1>4, <1>5, <1>6, <1>7, <1>8

LEMMA OpeningTmp ==
    ASSUME Cfg!CfgTypeOK, CfgInv, NEW u \in Users, Cfg!OpenTmp(u)
    PROVE  Cfg!CfgTypeOK' /\ CfgInv'
  <1>. DEFINE i == IF tmp = None THEN CHOOSE f \in Cfg!Free : TRUE ELSE tmp
              s == [Cfg!To(u, "fill") EXCEPT !.fd = i]
  <1>1. /\ saver[u].at = "open" /\ (tmp = None => Cfg!Free # {}) /\ UNCHANGED conf
        /\ tmp' = i /\ text' = [text EXCEPT ![i] = Blank] /\ Cfg!Touches(u, s)
    BY DEF Cfg!OpenTmp, Cfg!InState
  <1>2. saver[u] \in Cfg!Saver /\ Stage(u)
    BY DEF Cfg!CfgTypeOK, CfgInv
  <1>3. i \in Inodes /\ i # conf /\ i # None
    <2>1. CASE tmp = None
      <3>1. i \in Cfg!Free
        BY <1>1, <2>1
      <3>. QED  BY <3>1, CfgConstants DEF Cfg!Free
    <2>2. CASE tmp # None
      BY <2>2, CfgConstants DEF CfgInv, Cfg!CfgTypeOK
    <2>. QED  BY <2>1, <2>2
  <1>. HIDE DEF i
  <1>4. /\ s \in Cfg!Saver /\ s.crossed = saver[u].crossed /\ s.at = "fill" /\ s.fd = i
        /\ s.job = saver[u].job /\ s.mine = saver[u].mine /\ s.was = saver[u].was
    BY <1>2, <1>3 DEF Cfg!To, Cfg!Saver, Cfg!Saving
  <1>. HIDE DEF s
  <1>5. saver' \in [Users -> Cfg!Saver] /\ saver'[u] = s /\ Loud(u)
    BY <1>1, <1>4, TouchesIsLoud
  <1>6. Cfg!CfgTypeOK'
    BY <1>1, <1>3, <1>5 DEF Cfg!CfgTypeOK
  <1>7. Cfg!Content' = Cfg!Content
    BY <1>1, <1>3 DEF Cfg!Content, Cfg!CfgTypeOK
  <1>8. Stage(u)'
    BY <1>1, <1>2, <1>4, <1>5 DEF Stage, Sets, Base, Cfg!Changed, Ready, Filling
  <1>9. ASSUME Cfg!Uncrossed
        PROVE  Cfg!Content' # Blank /\ Known(u)' /\ Whole' /\ \A v \in Users : Wins(v)'
    <2>1. Known(u)'
      <3>1. Cfg!Content = saver[u].was
        BY <1>1, <1>9 DEF CfgInv, Known, Ready
      <3>2. text'[i] = Blank
        BY <1>1, <1>3 DEF Cfg!CfgTypeOK
      <3>. QED  BY <1>1, <1>3, <1>4, <1>5, <1>7, <3>1, <3>2 DEF Known
    <2>. QED  BY <1>4, <1>5, <1>7, <1>9, <2>1, SameContent DEF Loud
  <1>. QED  BY <1>1, <1>3, <1>5, <1>6, <1>8, <1>9, LoudKeeps

LEMMA FillingTmp ==
    ASSUME Cfg!CfgTypeOK, CfgInv, NEW u \in Users, Cfg!FillTmp(u)
    PROVE  Cfg!CfgTypeOK' /\ CfgInv'
  <1>. DEFINE i == saver[u].fd
              s == Cfg!To(u, "chmod")
  <1>1. /\ saver[u].at = "fill" /\ Cfg!Touches(u, s) /\ UNCHANGED <<conf, tmp>>
        /\ \E t \in {saver[u].mine} \cup (IF text[i] \in {Blank, saver[u].mine} THEN {} ELSE {Garbled}) :
             text' = [text EXCEPT ![i] = t]
    BY DEF Cfg!FillTmp, Cfg!InState
  <1>2. saver[u] \in Cfg!Saver /\ Stage(u)
    BY DEF Cfg!CfgTypeOK, CfgInv
  <1>3. /\ s \in Cfg!Saver /\ s.crossed = saver[u].crossed /\ s.at = "chmod" /\ s.fd = i
        /\ s.job = saver[u].job /\ s.mine = saver[u].mine /\ s.was = saver[u].was
    BY <1>2 DEF Cfg!To, Cfg!Saver, Cfg!Saving
  <1>. HIDE DEF s
  <1>4. saver' \in [Users -> Cfg!Saver] /\ saver'[u] = s /\ Loud(u)
    BY <1>1, <1>3, TouchesIsLoud
  <1>5. Cfg!CfgTypeOK'
    <2>1. PICK t \in {saver[u].mine, Garbled} : text' = [text EXCEPT ![i] = t]
      BY <1>1
    <2>2. t \in Cfg!Config \cup {Blank, Garbled}
      BY <1>2, <2>1 DEF Cfg!Saver
    <2>. QED  BY <1>1, <1>4, <2>1, <2>2 DEF Cfg!CfgTypeOK
  <1>6. Stage(u)'
    BY <1>1, <1>2, <1>3, <1>4 DEF Stage, Sets, Base, Cfg!Changed, Ready, Filling
  <1>7. ASSUME Cfg!Uncrossed
        PROVE  Cfg!Content' # Blank /\ Known(u)' /\ Whole' /\ \A v \in Users : Wins(v)'
    <2>1. i = tmp /\ tmp # None /\ text[tmp] = Blank /\ Cfg!Content = saver[u].was /\ tmp # conf
      BY <1>1, <1>7 DEF CfgInv, Known, Ready, Filling
    <2>2. text' = [text EXCEPT ![tmp] = saver[u].mine] /\ tmp \in Inodes
      BY <1>1, <2>1 DEF Cfg!CfgTypeOK
    <2>3. Cfg!Content' = Cfg!Content
      BY <1>1, <2>1, <2>2 DEF Cfg!Content, Cfg!CfgTypeOK
    <2>4. Known(u)'
      <3>1. text'[tmp] = saver[u].mine
        BY <2>2 DEF Cfg!CfgTypeOK
      <3>. QED  BY <1>1, <1>3, <1>4, <2>1, <2>3, <3>1 DEF Known
    <2>. QED  BY <1>3, <1>4, <1>7, <2>3, <2>4, SameContent DEF Loud
  <1>. QED  BY <1>1, <1>4, <1>5, <1>6, <1>7, LoudKeeps DEF CfgInv

LEMMA RenamingTmp ==
    ASSUME Cfg!CfgTypeOK, CfgInv, NEW u \in Users, Cfg!RenameTmp(u)
    PROVE  Cfg!CfgTypeOK' /\ CfgInv'
  <1>1. saver[u].at = "rename" /\ saver[u] \in Cfg!Saver /\ Stage(u) /\ UNCHANGED text
    BY DEF Cfg!RenameTmp, Cfg!InState, Cfg!CfgTypeOK, CfgInv
  <1>2. CASE tmp = None
    <2>1. Cfg!Step(u, Cfg!To(u, "sweep")) /\ UNCHANGED <<conf, tmp, text>>
      BY <1>2 DEF Cfg!RenameTmp
    <2>2. /\ Cfg!To(u, "sweep") \in Cfg!Saver /\ Cfg!To(u, "sweep").crossed = saver[u].crossed
          /\ Cfg!To(u, "sweep").at = "sweep" /\ Cfg!To(u, "sweep").job = saver[u].job
      BY <1>1 DEF Cfg!To, Cfg!Saver, Cfg!Saving
    <2>3. /\ Quiet(u) /\ saver'[u].at = "sweep" /\ saver'[u].job = saver[u].job
          /\ Cfg!CfgTypeOK'
      BY <2>1, <2>2, StepIsQuiet DEF Quiet, Cfg!CfgTypeOK
    <2>4. Stage(u)'
      BY <1>1, <2>3 DEF Stage, Ready, Filling
    <2>5. ~ Cfg!Uncrossed
      BY <1>1, <1>2 DEF CfgInv, Known, Filling
    <2>. QED  BY <2>3, <2>4, <2>5, QuietKeeps
  <1>3. CASE tmp # None
    <2>. DEFINE s == [Cfg!To(u, "ok") EXCEPT !.fd = None]
    <2>1. conf' = tmp /\ tmp' = None /\ Cfg!Touches(u, s)
      BY <1>3 DEF Cfg!RenameTmp
    <2>2. /\ s \in Cfg!Saver /\ s.crossed = saver[u].crossed /\ s.at = "ok"
          /\ s.job = saver[u].job /\ s.mine = saver[u].mine
      BY <1>1 DEF Cfg!To, Cfg!Saver
    <2>. HIDE DEF s
    <2>3. saver' \in [Users -> Cfg!Saver] /\ saver'[u] = s /\ Loud(u)
      BY <2>1, <2>2, TouchesIsLoud
    <2>4. Cfg!CfgTypeOK'
      BY <1>1, <2>1, <2>3 DEF Cfg!CfgTypeOK
    <2>5. saver[u].mine \in Cfg!Config /\ (saver[u].job.op = "set" => Sets(u))
      BY <1>1 DEF Stage, Ready, Filling
    <2>6. Stage(u)'
      BY <1>1, <2>2, <2>3, <2>5, CfgConstants DEF Stage, Ready, Filling
    <2>7. ASSUME Cfg!Uncrossed
          PROVE  Cfg!Content' # Blank /\ Known(u)' /\ Whole' /\ \A v \in Users : Wins(v)'
      <3>1. text[tmp] = saver[u].mine /\ Cfg!Content = saver[u].was /\ Cfg!Content # Blank
        BY <1>1, <2>7 DEF CfgInv, Known, Ready, Filling
      <3>2. Cfg!Content' = saver[u].mine
        BY <1>1, <1>3, <2>1, <3>1 DEF Cfg!Content
      <3>3. Known(u)'
        BY <2>2, <2>3 DEF Known, Ready, Filling
      <3>4. ASSUME NEW v \in Users, saver'[v].job.op = "set", saver'[v].at = "ok", Private(v)'
            PROVE  Cfg!Content'[saver'[v].job.key] = saver'[v].job.val
        <4>1. \A w \in Users : saver'[w].job = saver[w].job
          BY <2>2, <2>3 DEF Loud, Others
        <4>2. Private(v) /\ saver[v].job.op = "set"
          BY <3>4, <4>1 DEF Private
        <4>3. saver[u].job.op = "set"
          BY <1>1, <4>2, SaverIsTyped DEF Private, Stage
        <4>4. /\ Base(u) = Cfg!Content /\ Cfg!Content \in Cfg!Config
              /\ saver[u].mine = [Cfg!Content EXCEPT ![saver[u].job.key] = saver[u].job.val]
          BY <2>5, <3>1, <4>3 DEF Sets, Base, Cfg!Changed
        <4>5. saver[u].job.key \in Keys /\ saver[v].job.key \in Keys
          BY SaverIsTyped
        <4>6. CASE v = u
          BY <3>2, <4>1, <4>4, <4>5, <4>6 DEF Cfg!Config
        <4>7. CASE v # u
          <5>1. Cfg!Content[saver[v].job.key] = saver[v].job.val
            <6>1. saver[v].at = "ok" /\ Wins(v)
              BY <2>3, <2>7, <3>4, <4>7 DEF CfgInv, Loud, Others
            <6>. QED  BY <4>2, <6>1 DEF Wins
          <5>2. saver[u].job.key # saver[v].job.key
            BY <4>2, <4>3, <4>7 DEF Private
          <5>. QED  BY <3>2, <4>1, <4>4, <4>5, <5>1, <5>2 DEF Cfg!Config
        <4>. QED  BY <4>6, <4>7
      <3>5. \A v \in Users : Wins(v)'
        BY <3>4 DEF Wins
      <3>. QED  BY <2>5, <3>2, <3>3, <3>5, CfgConstants DEF Whole
    <2>. QED  BY <2>1, <2>3, <2>4, <2>6, <2>7, LoudKeeps
  <1>. QED  BY <1>2, <1>3

LEMMA SweepingTmp ==
    ASSUME Cfg!CfgTypeOK, CfgInv, NEW u \in Users, Cfg!Sweep(u)
    PROVE  Cfg!CfgTypeOK' /\ CfgInv'
  <1>. DEFINE s == [Cfg!To(u, "failed") EXCEPT !.fd = None]
  <1>1. /\ saver[u].at = "sweep" /\ tmp' = None /\ Cfg!Touches(u, s) /\ UNCHANGED <<conf, text>>
        /\ saver[u] \in Cfg!Saver /\ Stage(u)
    BY DEF Cfg!Sweep, Cfg!InState, Cfg!CfgTypeOK, CfgInv
  <1>2. s \in Cfg!Saver /\ s.crossed = saver[u].crossed /\ s.at = "failed" /\ s.job = saver[u].job
    BY <1>1 DEF Cfg!To, Cfg!Saver
  <1>. HIDE DEF s
  <1>3. saver' \in [Users -> Cfg!Saver] /\ saver'[u] = s /\ Loud(u)
    BY <1>1, <1>2, TouchesIsLoud
  <1>4. Cfg!CfgTypeOK'
    BY <1>1, <1>3 DEF Cfg!CfgTypeOK
  <1>5. Stage(u)'
    BY <1>1, <1>2, <1>3 DEF Stage, Ready, Filling
  <1>6. ~ Cfg!Uncrossed
    BY <1>1 DEF CfgInv, Known
  <1>. QED  BY <1>1, <1>3, <1>4, <1>5, <1>6, LoudKeeps

LEMMA CfgNextKeeps ==
    ASSUME Cfg!CfgTypeOK, CfgInv, Cfg!CfgNext
    PROVE  Cfg!CfgTypeOK' /\ CfgInv'
  BY StartingSaver, OpeningTmp, FillingTmp, RenamingTmp, SweepingTmp DEF Cfg!CfgNext, Cfg!CfgStep

-----------------------------------------------------------------------------
(* tunnels.json. *)

LEMMA TunConstants == MaxPorts \in Nat /\ None \notin Users
  BY LocalAssumption DEF LocalAssumption, Tun!TunnelAssumption

LEMMA TunIsTyped ==
    ASSUME Tun!TunTypeOK, NEW u \in Users
    PROVE  /\ tun[u] \in Tun!Tun /\ tun[u].job \in TunJobs
           /\ tun[u].job.op \in {"open", "list", "close", "none"} /\ tun[u].job.vm \in Vms
           /\ tun[u].job.all \in BOOLEAN /\ tun[u].job.ports \in 0..MaxPorts
           /\ tun[u].entries \subseteq Tun!Entry /\ tun[u].found \subseteq Tun!Entry
           /\ tun[u].left \in 0..MaxPorts
           /\ tun[u].saved \in BOOLEAN /\ tun[u].behind \in BOOLEAN /\ tun[u].lost \in BOOLEAN
  <1>1. tun[u] \in Tun!Tun
    BY DEF Tun!TunTypeOK
  <1>2. tun[u].job \in TunJobs
    BY <1>1 DEF Tun!Tun
  <1>3. tun[u].job \in [op : {"open", "list", "close", "none"}, vm : Vms, all : BOOLEAN,
                        ports : 0..MaxPorts]
    BY <1>2, LocalAssumption DEF LocalAssumption, Tun!TunnelAssumption
  <1>. QED  BY <1>1, <1>2, <1>3 DEF Tun!Tun

TunPlaces == Tun!Working \cup {"idle", "ok", "failed", "killed"}

(* A step of u that only takes it to l. *)
Passes(u, l) ==
    /\ tun' \in [Users -> Tun!Tun]
    /\ tun'[u].at = l /\ tun'[u].job = tun[u].job /\ tun'[u].entries = tun[u].entries
    /\ tun'[u].found = tun[u].found /\ tun'[u].saved = tun[u].saved
    /\ tun'[u].behind = tun[u].behind /\ tun'[u].lost = tun[u].lost
    /\ \A v \in Users \ {u} : tun'[v] = tun[v]

LEMMA GoPasses ==
    ASSUME Tun!TunTypeOK, NEW u \in Users, NEW l \in TunPlaces, Tun!Go(u, l)
    PROVE  Passes(u, l)
  <1>1. tun \in [Users -> Tun!Tun] /\ tun' = [tun EXCEPT ![u].at = l]
    BY DEF Tun!TunTypeOK, Tun!Go
  <1>. QED  BY <1>1 DEF Passes, Tun!Tun, TunPlaces

(* A step of u that writes the list: the others' copies are behind, and    *)
(* what was recorded is lost if u's own was.                               *)
Written(u, l) ==
    /\ tun' \in [Users -> Tun!Tun]
    /\ tun'[u].at = l /\ tun'[u].job = tun[u].job /\ tun'[u].entries = tun[u].entries
    /\ tun'[u].found = tun[u].found /\ (tun'[u].saved <=> l # "saving")
    /\ tun'[u].behind = tun[u].behind /\ tun'[u].lost = tun[u].lost
    /\ \A v \in Users \ {u} :
         /\ tun'[v].at = tun[v].at /\ tun'[v].job = tun[v].job /\ tun'[v].entries = tun[v].entries
         /\ tun'[v].found = tun[v].found /\ tun'[v].saved = tun[v].saved /\ tun'[v].behind
         /\ tun[v].lost \/ tun[u].behind => tun'[v].lost

LEMMA SavesWrites ==
    ASSUME Tun!TunTypeOK, NEW u \in Users, NEW l \in TunPlaces, NEW E, Tun!Saves(u, E, l)
    PROVE  list' = E /\ Written(u, l)
  <1>1. tun' = [v \in Users |->
                  IF v = u THEN [tun[u] EXCEPT !.at = l, !.saved = l # "saving"]
                  ELSE [tun[v] EXCEPT !.behind = TRUE, !.lost = tun[v].lost \/ tun[u].behind]]
    BY DEF Tun!Saves
  <1>2. /\ tun'[u] \in Tun!Tun
        /\ tun'[u].at = l /\ tun'[u].job = tun[u].job /\ tun'[u].entries = tun[u].entries
        /\ tun'[u].found = tun[u].found /\ (tun'[u].saved <=> l # "saving")
        /\ tun'[u].behind = tun[u].behind /\ tun'[u].lost = tun[u].lost
    <2>1. tun[u] \in Tun!Tun
      BY TunIsTyped
    <2>2. CASE l = "saving"
      <3>1. tun'[u] = [tun[u] EXCEPT !.at = l, !.saved = FALSE]
        BY <1>1, <2>2
      <3>. QED  BY <2>1, <2>2, <3>1 DEF Tun!Tun, TunPlaces
    <2>3. CASE l # "saving"
      <3>1. tun'[u] = [tun[u] EXCEPT !.at = l, !.saved = TRUE]
        BY <1>1, <2>3
      <3>. QED  BY <2>1, <2>3, <3>1 DEF Tun!Tun, TunPlaces
    <2>. QED  BY <2>2, <2>3
  <1>3. ASSUME NEW v \in Users \ {u}
        PROVE  /\ tun'[v] \in Tun!Tun
               /\ tun'[v].at = tun[v].at /\ tun'[v].job = tun[v].job /\ tun'[v].entries = tun[v].entries
               /\ tun'[v].found = tun[v].found /\ tun'[v].saved = tun[v].saved /\ tun'[v].behind
               /\ tun[v].lost \/ tun[u].behind => tun'[v].lost
    <2>1. tun[v] \in Tun!Tun
      BY TunIsTyped
    <2>2. CASE tun[v].lost \/ tun[u].behind
      <3>1. tun'[v] = [tun[v] EXCEPT !.behind = TRUE, !.lost = TRUE]
        BY <1>1, <2>2
      <3>. QED  BY <2>1, <3>1 DEF Tun!Tun
    <2>3. CASE ~ (tun[v].lost \/ tun[u].behind)
      <3>1. (tun[v].lost \/ tun[u].behind) = FALSE
        BY <2>3
      <3>2. tun'[v] = [tun[v] EXCEPT !.behind = TRUE, !.lost = FALSE]
        BY <1>1, <3>1, Zenon
      <3>. QED  BY <2>1, <2>3, <3>2 DEF Tun!Tun
    <2>. QED  BY <2>2, <2>3
  <1>4. tun' \in [Users -> Tun!Tun]
    BY <1>1, <1>2, <1>3
  <1>. QED  BY <1>2, <1>3, <1>4 DEF Written, Tun!Saves

(* The processes: an open's own have been started by it. *)
LEMMA ProcIsTyped ==
    ASSUME Tun!TunTypeOK, NEW p \in Pids
    PROVE  /\ proc[p] \in Tun!Proc /\ Tun!Ends(p) \in Tun!Proc /\ Tun!Ends(p).is \in {"ended", "free"}
           /\ Tun!Free \in Tun!Proc /\ Tun!Free.is = "free"
  <1>1. proc[p] \in Tun!Proc
    BY DEF Tun!TunTypeOK
  <1>2. Tun!Free \in Tun!Proc /\ Tun!Free.is = "free"
    BY DEF Tun!Free, Tun!Proc
  <1>3. [proc[p] EXCEPT !.is = "ended"] \in Tun!Proc /\ [proc[p] EXCEPT !.is = "ended"].is = "ended"
    BY <1>1 DEF Tun!Proc
  <1>. QED  BY <1>1, <1>2, <1>3 DEF Tun!Ends

(* No tunnel is new. *)
Fewer == \A p \in Pids : proc'[p].is = "ssh" => proc'[p] = proc[p]

LEMMA FewerOwned ==
    ASSUME Fewer
    PROVE  \A u, p : p \in Pids /\ Owns(u, p)' => Owns(u, p) /\ Tun!Tunnel(p)' = Tun!Tunnel(p)
  BY DEF Fewer, Owns, Tun!Tunnel

(* A step of u that leaves the list and the others' commands alone. *)
LEMMA TunFrame ==
    ASSUME Tun!TunTypeOK, TunInv, NEW u \in Users, Fewer, list' = list,
           \A v \in Users \ {u} : tun'[v] = tun[v],
           Writing(u)' <=> Writing(u), Safe(u)' => Safe(u),
           Duty(u)', OwnCopy(u)', Current(u)', Closing(u)'
    PROVE  TunInv'
  <1>1. Tun!BeingWritten' <=> Tun!BeingWritten
    BY DEF Tun!BeingWritten, Tun!On, Writing
  <1>2. \A v \in Users : (Safe(v)' => Safe(v)) /\ (Writing(v)' <=> Writing(v))
    BY DEF Safe, Writing
  <1>3. ASSUME NEW v \in Users
        PROVE  Recorded(v)'
    BY <1>1, <1>2, FewerOwned DEF TunInv, Recorded
  <1>4. ASSUME NEW v \in Users \ {u}
        PROVE  Duty(v)' /\ OwnCopy(v)' /\ Closing(v)'
    <2>1. Duty(v) /\ OwnCopy(v) /\ Closing(v) /\ tun'[v] = tun[v]
      BY DEF TunInv
    <2>2. Duty(v)'
      BY <2>1 DEF Duty
    <2>3. OwnCopy(v)'
      BY <2>1, FewerOwned DEF OwnCopy
    <2>4. Closing(v)'
      <3>. SUFFICES ASSUME tun[v].job.op = "close", tun[v].at \in {"save", "saving", "ok"},
                           NEW e \in tun[v].found, Asks(v, e)
                    PROVE  proc'[e.pid].is # "ssh"
        BY <2>1 DEF Closing, Asks
      <3>1. proc[e.pid].is # "ssh"
        BY <2>1 DEF Closing
      <3>2. e.pid \in Pids
        BY TunIsTyped DEF Tun!Entry
      <3>. QED  BY <3>1, <3>2 DEF Fewer
    <2>. QED  BY <2>2, <2>3, <2>4
  <1>5. ASSUME NEW v \in Users \ {u}
        PROVE  Current(v)'
    BY <1>2, FewerOwned DEF TunInv, Current
  <1>. QED  BY <1>3, <1>4, <1>5 DEF TunInv

LEMMA Passing ==
    ASSUME Tun!TunTypeOK, TunInv, NEW u \in Users,
           Tun!Take(u) \/ Tun!Lookup(u) \/ Tun!CtrlC(u)
    PROVE  Tun!TunTypeOK' /\ TunInv'
  <1>1. UNCHANGED <<list, proc>> /\ Duty(u) /\ OwnCopy(u) /\ Current(u) /\ Closing(u)
    BY DEF Tun!Take, Tun!Lookup, Tun!CtrlC, TunInv
  <1>2. PICK l \in TunPlaces :
          /\ Tun!Go(u, l)
          /\ \/ tun[u].at = "idle" /\ tun[u].job.op = "open" /\ l = "lookup"
             \/ tun[u].at = "idle" /\ tun[u].job.op \notin {"open", "none"} /\ l = "load"
             \/ tun[u].at = "lookup" /\ l \in {"load", "failed"}
             \/ tun[u].at = "wait" /\ l = "kill"
    <2>1. /\ "lookup" \in TunPlaces /\ "load" \in TunPlaces /\ "failed" \in TunPlaces
          /\ "kill" \in TunPlaces
      BY DEF TunPlaces, Tun!Working
    <2>. QED  BY <2>1 DEF Tun!Take, Tun!Lookup, Tun!CtrlC, Tun!On
  <1>3. Passes(u, l)
    BY <1>2, GoPasses
  <1>4. Tun!TunTypeOK'
    BY <1>1, <1>3 DEF Tun!TunTypeOK, Passes
  <1>5. Duty(u)' /\ Closing(u)'
    BY <1>1, <1>2, <1>3 DEF Passes, Duty, Closing, Asks
  <1>6. OwnCopy(u)'
    BY <1>1, <1>2, <1>3 DEF Passes, OwnCopy, Owns, Early, Tun!Tunnel, Duty
  <1>7. Writing(u)' = Writing(u) /\ Safe(u)' = Safe(u)
    BY <1>2, <1>3 DEF Passes, Writing, Safe
  <1>8. Current(u)'
    <2>. SUFFICES ASSUME l = "kill"
                  PROVE  Current(u)'
      BY <1>2, <1>3 DEF Passes, Current, Loaded
    <2>1. tun[u].at = "wait"
      BY <1>2
    <2>. QED  BY <1>1, <1>3, <2>1 DEF Passes, Current, Loaded, Writing, Safe, Owns, Tun!Tunnel
  <1>. QED  BY <1>1, <1>3, <1>4, <1>5, <1>6, <1>7, <1>8, TunFrame DEF Fewer, Passes

LEMMA Loading ==
    ASSUME Tun!TunTypeOK, TunInv, NEW u \in Users, Tun!LoadTunnels(u)
    PROVE  Tun!TunTypeOK' /\ TunInv'
  <1>1. /\ UNCHANGED <<list, proc>> /\ tun[u].at = "load" /\ tun[u] \in Tun!Tun
        /\ Duty(u) /\ OwnCopy(u) /\ tun \in [Users -> Tun!Tun]
    BY DEF Tun!LoadTunnels, Tun!On, TunInv, Tun!TunTypeOK
  <1>2. PICK l : /\ tun' = [tun EXCEPT ![u].entries = Tun!Prune(list), ![u].found = Tun!Prune(list),
                                       ![u].behind = FALSE, ![u].at = l]
                 /\ \/ tun[u].job.op = "open" /\ l = "spawn"
                    \/ tun[u].job.op = "list" /\ l = "save"
                    \/ tun[u].job.op = "close" /\ l = "kill"
    <2>1. tun[u].job.op \in {"open", "list", "close"}
      BY <1>1, TunIsTyped DEF Duty
    <2>. QED  BY <2>1 DEF Tun!LoadTunnels
  <1>3. Tun!Prune(list) \subseteq Tun!Entry /\ Tun!Prune(list) \subseteq list
    BY DEF Tun!Prune, Tun!TunTypeOK
  <1>4. /\ tun' \in [Users -> Tun!Tun] /\ \A v \in Users \ {u} : tun'[v] = tun[v]
        /\ tun'[u].at = l /\ tun'[u].job = tun[u].job /\ tun'[u].entries = Tun!Prune(list)
        /\ tun'[u].found = Tun!Prune(list) /\ tun'[u].saved = tun[u].saved
        /\ tun'[u].lost = tun[u].lost
    BY <1>1, <1>2, <1>3 DEF Tun!Tun, Tun!Working
  <1>5. Tun!TunTypeOK'
    BY <1>1, <1>4 DEF Tun!TunTypeOK
  <1>6. Duty(u)' /\ Closing(u)'
    BY <1>2, <1>4 DEF Duty, Closing
  <1>7. OwnCopy(u)'
    BY <1>1, <1>2, <1>4 DEF OwnCopy, Owns, Early
  <1>8. Current(u)'
    <2>. SUFFICES ASSUME \A w \in Users \ {u} : ~ Writing(w)',
                         NEW v \in Users \ {u}, NEW p \in Pids, Safe(v)', Owns(v, p)'
                  PROVE  Tun!Tunnel(p)' \in tun'[u].entries
      BY DEF Current
    <2>1. ~ Tun!BeingWritten
      BY <1>1, <1>4 DEF Tun!BeingWritten, Tun!On, Writing
    <2>2. Safe(v) /\ Owns(v, p) /\ Tun!Tunnel(p)' = Tun!Tunnel(p)
      BY <1>1, <1>4 DEF Safe, Owns, Tun!Tunnel
    <2>3. Tun!Tunnel(p) \in list
      BY <2>1, <2>2 DEF TunInv, Recorded
    <2>4. Tun!Tunnel(p) \in Tun!Prune(list)
      BY <2>2, <2>3 DEF Tun!Prune, Tun!Runs, Tun!Tunnel, Owns
    <2>. QED  BY <1>4, <2>2, <2>4
  <1>9. (Writing(u)' <=> Writing(u)) /\ Safe(u)' = Safe(u)
    BY <1>1, <1>2, <1>4 DEF Writing, Safe
  <1>. QED  BY <1>1, <1>4, <1>5, <1>6, <1>7, <1>8, <1>9, TunFrame DEF Fewer

LEMMA Spawning ==
    ASSUME Tun!TunTypeOK, TunInv, NEW u \in Users, Tun!Spawn(u)
    PROVE  Tun!TunTypeOK' /\ TunInv'
  <1>1. /\ UNCHANGED list /\ tun[u].at = "spawn" /\ tun[u] \in Tun!Tun /\ tun[u].job.op = "open"
        /\ Duty(u) /\ OwnCopy(u) /\ Current(u) /\ ~ tun[u].saved /\ tun \in [Users -> Tun!Tun]
        /\ proc \in [Pids -> Tun!Proc]
    BY DEF Tun!Spawn, Tun!On, TunInv, Duty, OwnCopy, Tun!TunTypeOK
  <1>2. ASSUME NEW l \in {"failed", "save"}, Tun!Go(u, l), UNCHANGED proc
        PROVE  Tun!TunTypeOK' /\ TunInv'
    <2>1. Passes(u, l)
      BY <1>2, GoPasses DEF TunPlaces, Tun!Working
    <2>2. Tun!TunTypeOK'
      BY <1>1, <1>2, <2>1 DEF Passes, Tun!TunTypeOK
    <2>3. Duty(u)' /\ Closing(u)' /\ (Writing(u)' <=> Writing(u)) /\ Safe(u)' = Safe(u)
      BY <1>1, <2>1 DEF Passes, Duty, Closing, Writing, Safe
    <2>4. OwnCopy(u)'
      BY <1>1, <1>2, <2>1 DEF Passes, OwnCopy, Owns, Early, Tun!Tunnel
    <2>5. Current(u)'
      BY <1>1, <1>2, <2>1 DEF Passes, Current, Loaded, Writing, Safe, Owns, Tun!Tunnel
    <2>. QED  BY <1>1, <1>2, <2>1, <2>2, <2>3, <2>4, <2>5, TunFrame DEF Fewer, Passes
  <1>3. ASSUME NEW p \in Pids, proc[p].is = "free", tun[u].left > 0,
               proc' = [proc EXCEPT ![p] = [is |-> "ssh", of |-> u, vm |-> tun[u].job.vm]],
               tun' = [v \in Users |->
                        [tun[v] EXCEPT
                           !.found = {e \in tun[v].found : e.pid # p},
                           !.left = IF v = u THEN tun[v].left - 1 ELSE tun[v].left,
                           !.entries = IF v = u
                                       THEN tun[v].entries \cup {[pid |-> p, vm |-> tun[u].job.vm]}
                                       ELSE tun[v].entries]]
        PROVE  Tun!TunTypeOK' /\ TunInv'
    <2>. DEFINE new == [pid |-> p, vm |-> tun[u].job.vm]
    <2>1. new \in Tun!Entry
      BY TunIsTyped DEF Tun!Entry
    <2>2. ASSUME NEW v \in Users
          PROVE  /\ tun'[v] \in Tun!Tun /\ tun'[v].at = tun[v].at /\ tun'[v].job = tun[v].job
                 /\ tun'[v].found = {e \in tun[v].found : e.pid # p}
                 /\ tun'[v].entries = IF v = u THEN tun[v].entries \cup {new} ELSE tun[v].entries
                 /\ tun'[v].saved = tun[v].saved /\ tun'[v].behind = tun[v].behind
                 /\ tun'[v].lost = tun[v].lost
      <3>. DEFINE left == IF v = u THEN tun[v].left - 1 ELSE tun[v].left
                  entries == IF v = u THEN tun[v].entries \cup {new} ELSE tun[v].entries
                  found == {e \in tun[v].found : e.pid # p}
      <3>1. tun[v] \in Tun!Tun /\ tun[v].left \in 0..MaxPorts /\ MaxPorts \in Nat
        BY TunIsTyped, TunConstants
      <3>2. left \in 0..MaxPorts
        <4>1. CASE v = u
          <5>1. tun[v].left > 0 /\ left = tun[v].left - 1
            BY <1>3, <4>1
          <5>2. \A n \in 0..MaxPorts : n > 0 => n - 1 \in 0..MaxPorts
            BY <3>1
          <5>. QED  BY <3>1, <5>1, <5>2
        <4>2. CASE v # u
          BY <3>1, <4>2
        <4>. QED  BY <4>1, <4>2
      <3>3. entries \subseteq Tun!Entry /\ found \subseteq Tun!Entry
        BY <2>1, TunIsTyped
      <3>4. tun'[v] = [tun[v] EXCEPT !.found = found, !.left = left, !.entries = entries]
        BY <1>3
      <3>. HIDE DEF left, entries, found
      <3>5. /\ tun'[v] \in Tun!Tun /\ tun'[v].at = tun[v].at /\ tun'[v].job = tun[v].job
            /\ tun'[v].found = found /\ tun'[v].entries = entries
            /\ tun'[v].saved = tun[v].saved /\ tun'[v].behind = tun[v].behind
            /\ tun'[v].lost = tun[v].lost
        BY <3>1, <3>2, <3>3, <3>4 DEF Tun!Tun
      <3>. QED  BY <3>5 DEF entries, found
    <2>3. tun' \in [Users -> Tun!Tun]
      BY <1>3, <2>2
    <2>4. /\ proc' \in [Pids -> Tun!Proc] /\ proc'[p] = [is |-> "ssh", of |-> u, vm |-> tun[u].job.vm]
          /\ \A q \in Pids \ {p} : proc'[q] = proc[q]
      BY <1>1, <1>3, TunIsTyped DEF Tun!Proc
    <2>5. Tun!TunTypeOK'
      BY <1>1, <2>3, <2>4 DEF Tun!TunTypeOK
    <2>6. \A v \in Users, q \in Pids : Owns(v, q)' =>
            \/ Owns(v, q) /\ q # p /\ Tun!Tunnel(q)' = Tun!Tunnel(q)
            \/ v = u /\ q = p /\ Tun!Tunnel(q)' = new
      BY <1>3, <2>4 DEF Owns, Tun!Tunnel
    <2>7. \A v \in Users : (Safe(v)' <=> Safe(v)) /\ (Writing(v)' <=> Writing(v))
      BY <2>2 DEF Safe, Writing
    <2>8. Tun!BeingWritten' <=> Tun!BeingWritten
      BY <2>7 DEF Tun!BeingWritten, Tun!On, Writing
    <2>9. ~ Safe(u)
      BY <1>1 DEF Safe
    <2>. HIDE DEF new
    <2>10. ASSUME NEW v \in Users
           PROVE  Duty(v)' /\ OwnCopy(v)'
      <3>1. Duty(v) /\ OwnCopy(v)
        BY DEF TunInv
      <3>2. Duty(v)'
        BY <2>2, <3>1 DEF Duty
      <3>3. OwnCopy(v)'
        BY <1>1, <2>2, <2>6, <3>1 DEF OwnCopy, Early
      <3>. QED  BY <3>2, <3>3
    <2>11. ASSUME NEW v \in Users
           PROVE  Recorded(v)' /\ Current(v)'
      <3>1. Recorded(v)'
        BY <1>1, <2>6, <2>7, <2>8, <2>9 DEF TunInv, Recorded
      <3>2. Current(v)'
        BY <2>2, <2>6, <2>7, <2>9 DEF TunInv, Current
      <3>. QED  BY <3>1, <3>2
    <2>12. ASSUME NEW v \in Users
           PROVE  Closing(v)'
      <3>1. Closing(v) /\ tun[v].found \subseteq Tun!Entry
        BY TunIsTyped DEF TunInv
      <3>2. \A e \in tun'[v].found : e \in tun[v].found /\ proc'[e.pid] = proc[e.pid]
        <4>1. \A e \in tun'[v].found : e \in tun[v].found /\ e.pid # p
          BY <2>2
        <4>2. \A e \in tun[v].found : e.pid \in Pids
          BY <3>1 DEF Tun!Entry
        <4>. QED  BY <2>4, <4>1, <4>2
      <3>3. tun[v].entries \subseteq tun'[v].entries
        BY <2>2
      <3>. QED  BY <2>2, <3>1, <3>2, <3>3 DEF Closing, Asks
    <2>. QED  BY <2>5, <2>10, <2>11, <2>12 DEF TunInv
  <1>. QED
    <2>1. \/ \E l \in {"failed", "save"} : Tun!Go(u, l) /\ UNCHANGED proc
          \/ /\ tun[u].left > 0
             /\ \E p \in Pids :
                  /\ proc[p].is = "free"
                  /\ proc' = [proc EXCEPT ![p] = [is |-> "ssh", of |-> u, vm |-> tun[u].job.vm]]
                  /\ tun' = [v \in Users |->
                        [tun[v] EXCEPT
                           !.found = {e \in tun[v].found : e.pid # p},
                           !.left = IF v = u THEN tun[v].left - 1 ELSE tun[v].left,
                           !.entries = IF v = u
                                       THEN tun[v].entries \cup {[pid |-> p, vm |-> tun[u].job.vm]}
                                       ELSE tun[v].entries]]
      BY DEF Tun!Spawn
    <2>. QED  BY <1>2, <1>3, <2>1

LEMMA Killing ==
    ASSUME Tun!TunTypeOK, TunInv, NEW u \in Users, Tun!Kill(u)
    PROVE  Tun!TunTypeOK' /\ TunInv'
  <1>. DEFINE hit(p) == Tun!Runs(p) /\ \E e \in Tun!ToKill(u) : e.pid = p
  <1>1. /\ UNCHANGED list /\ tun[u].at = "kill" /\ tun[u] \in Tun!Tun
        /\ Duty(u) /\ OwnCopy(u) /\ Current(u) /\ Closing(u) /\ tun \in [Users -> Tun!Tun]
        /\ proc' = [p \in Pids |-> IF hit(p) THEN Tun!Ends(p) ELSE proc[p]]
    BY DEF Tun!Kill, Tun!On, TunInv, Tun!TunTypeOK
  <1>2. proc' \in [Pids -> Tun!Proc] /\ Fewer /\ \A p \in Pids : hit(p) => proc'[p].is # "ssh"
    BY <1>1, ProcIsTyped DEF Fewer
  <1>3. CASE tun[u].job.op = "open"
    <2>1. Tun!Go(u, "retain")
      BY <1>3 DEF Tun!Kill
    <2>2. Passes(u, "retain")
      BY <2>1, GoPasses DEF TunPlaces, Tun!Working
    <2>3. Tun!TunTypeOK'
      BY <1>1, <1>2, <2>2 DEF Passes, Tun!TunTypeOK
    <2>4. Duty(u)' /\ Closing(u)' /\ (Writing(u)' <=> Writing(u)) /\ Safe(u)' = Safe(u)
      BY <1>1, <1>3, <2>2 DEF Passes, Duty, Closing, Writing, Safe
    <2>5. OwnCopy(u)'
      BY <1>1, <1>2, <2>2, FewerOwned DEF Passes, OwnCopy, Early
    <2>6. Current(u)'
      BY <1>1, <1>2, <2>2, FewerOwned DEF Passes, Current, Loaded, Writing, Safe
    <2>. QED  BY <1>1, <1>2, <2>2, <2>3, <2>4, <2>5, <2>6, TunFrame DEF Passes
  <1>4. CASE tun[u].job.op = "close"
    <2>1. tun' = [tun EXCEPT ![u].at = "save", ![u].entries = tun[u].entries \ Tun!ToKill(u)]
      BY <1>1, <1>4 DEF Tun!Kill
    <2>2. /\ tun' \in [Users -> Tun!Tun] /\ \A v \in Users \ {u} : tun'[v] = tun[v]
          /\ tun'[u].at = "save" /\ tun'[u].job = tun[u].job /\ tun'[u].found = tun[u].found
          /\ tun'[u].entries = tun[u].entries \ Tun!ToKill(u) /\ tun'[u].saved = tun[u].saved
          /\ tun'[u].behind = tun[u].behind /\ tun'[u].lost = tun[u].lost
      <3>1. tun[u].entries \ Tun!ToKill(u) \subseteq Tun!Entry
        BY TunIsTyped
      <3>. QED  BY <1>1, <2>1, <3>1 DEF Tun!Tun, Tun!Working
    <2>3. Tun!TunTypeOK'
      BY <1>1, <1>2, <2>2 DEF Tun!TunTypeOK
    <2>4. Duty(u)' /\ (Writing(u)' <=> Writing(u)) /\ Safe(u)' = Safe(u)
      BY <1>1, <1>4, <2>2 DEF Duty, Writing, Safe
    <2>5. OwnCopy(u)'
      BY <1>1, <1>2, <1>4, <2>2, FewerOwned DEF OwnCopy, Early
    <2>6. Current(u)'
      <3>. SUFFICES ASSUME \A w \in Users \ {u} : ~ Writing(w), ~ tun[u].behind,
                           NEW v \in Users \ {u}, NEW p \in Pids, Safe(v), Owns(v, p)'
                    PROVE  Tun!Tunnel(p)' \in tun'[u].entries
        BY <2>2 DEF Current, Writing, Safe
      <3>1. Owns(v, p) /\ Tun!Tunnel(p)' = Tun!Tunnel(p) /\ proc'[p].is = "ssh"
        BY <1>2, FewerOwned DEF Owns
      <3>2. Tun!Tunnel(p) \in tun[u].entries
        BY <1>1, <3>1 DEF Current, Loaded
      <3>3. ~ hit(p) /\ Tun!Runs(p)
        BY <1>2, <3>1 DEF Tun!Runs, Owns
      <3>4. Tun!Tunnel(p) \notin Tun!ToKill(u)
        BY <3>3 DEF Tun!Tunnel
      <3>. QED  BY <2>2, <3>1, <3>2, <3>4
    <2>7. Closing(u)'
      <3>. SUFFICES ASSUME NEW e \in tun[u].found, Asks(u, e)
                    PROVE  proc'[e.pid].is # "ssh"
        BY <2>2 DEF Closing, Asks
      <3>1. e \in tun[u].entries /\ e.pid \in Pids
        BY <1>1, <1>4, TunIsTyped DEF Closing, Tun!Entry
      <3>2. e \in Tun!ToKill(u)
        BY <3>1 DEF Tun!ToKill, Asks
      <3>3. CASE Tun!Runs(e.pid)
        BY <1>2, <3>1, <3>2, <3>3
      <3>4. CASE ~ Tun!Runs(e.pid)
        BY <1>1, <3>1, <3>4 DEF Tun!Runs
      <3>. QED  BY <3>3, <3>4
    <2>. QED  BY <1>1, <1>2, <2>2, <2>3, <2>4, <2>5, <2>6, <2>7, TunFrame
  <1>. QED  BY <1>1, <1>3, <1>4 DEF Duty


LEMMA Retaining ==
    ASSUME Tun!TunTypeOK, TunInv, NEW u \in Users, Tun!Retain(u)
    PROVE  Tun!TunTypeOK' /\ TunInv'
  <1>1. /\ UNCHANGED <<list, proc>> /\ tun[u].at = "retain" /\ tun[u] \in Tun!Tun
        /\ Duty(u) /\ OwnCopy(u) /\ Current(u) /\ tun \in [Users -> Tun!Tun]
        /\ tun[u].job.op = "open"
        /\ tun' = [tun EXCEPT ![u].entries = Tun!Prune(tun[u].entries), ![u].at = "resave"]
    BY DEF Tun!Retain, Tun!On, TunInv, Tun!TunTypeOK, Duty
  <1>2. Tun!Prune(tun[u].entries) \subseteq Tun!Entry
    BY TunIsTyped DEF Tun!Prune
  <1>3. /\ tun' \in [Users -> Tun!Tun] /\ \A v \in Users \ {u} : tun'[v] = tun[v]
        /\ tun'[u].at = "resave" /\ tun'[u].job = tun[u].job
        /\ tun'[u].entries = Tun!Prune(tun[u].entries) /\ tun'[u].found = tun[u].found
        /\ tun'[u].saved = tun[u].saved /\ tun'[u].behind = tun[u].behind
        /\ tun'[u].lost = tun[u].lost
    BY <1>1, <1>2 DEF Tun!Tun, Tun!Working
  <1>4. Tun!TunTypeOK'
    BY <1>1, <1>3 DEF Tun!TunTypeOK
  <1>5. Duty(u)' /\ Closing(u)' /\ (Writing(u)' <=> Writing(u)) /\ Safe(u)' = Safe(u)
    BY <1>1, <1>3 DEF Duty, Closing, Writing, Safe
  <1>6. \A v, p : p \in Pids /\ Owns(v, p)' =>
          Owns(v, p) /\ Tun!Tunnel(p)' = Tun!Tunnel(p) /\ Tun!Runs(Tun!Tunnel(p).pid)
    BY <1>1 DEF Owns, Tun!Tunnel, Tun!Runs
  <1>7. OwnCopy(u)'
    BY <1>1, <1>3, <1>6 DEF OwnCopy, Early, Tun!Prune
  <1>8. Current(u)'
    <2>1. \A v \in Users \ {u} : (Writing(v)' <=> Writing(v)) /\ (Safe(v)' <=> Safe(v))
      BY <1>3 DEF Writing, Safe
    <2>2. \A p \in Pids : Tun!Runs(Tun!Tunnel(p).pid) /\ Tun!Tunnel(p) \in tun[u].entries
                          => Tun!Tunnel(p) \in tun'[u].entries
      BY <1>3 DEF Tun!Prune
    <2>. QED  BY <1>1, <1>3, <1>6, <2>1, <2>2 DEF Current, Loaded
  <1>. QED  BY <1>1, <1>3, <1>4, <1>5, <1>7, <1>8, TunFrame DEF Fewer

(* A save: what the others have is behind until the list is read again.    *)
LEMMA Saving ==
    ASSUME Tun!TunTypeOK, TunInv, NEW u \in Users, NEW l \in TunPlaces, Written(u, l),
           list' \subseteq Tun!Entry, UNCHANGED proc,
           Duty(u)', OwnCopy(u)', Current(u)', Closing(u)',
           \A v \in Users : Recorded(v)'
    PROVE  Tun!TunTypeOK' /\ TunInv'
  <1>1. Tun!TunTypeOK'
    BY DEF Tun!TunTypeOK, Written
  <1>2. ASSUME NEW v \in Users \ {u}
        PROVE  Duty(v)' /\ OwnCopy(v)' /\ Current(v)' /\ Closing(v)'
    <2>1. /\ Duty(v) /\ OwnCopy(v) /\ Closing(v)
          /\ tun'[v].at = tun[v].at /\ tun'[v].job = tun[v].job /\ tun'[v].entries = tun[v].entries
          /\ tun'[v].found = tun[v].found /\ tun'[v].saved = tun[v].saved /\ tun'[v].behind
      BY DEF TunInv, Written
    <2>2. Duty(v)'
      BY <2>1 DEF Duty
    <2>3. OwnCopy(v)'
      BY <2>1 DEF OwnCopy, Owns, Tun!Tunnel
    <2>4. Current(v)'
      BY <2>1 DEF Current
    <2>5. Closing(v)'
      BY <2>1 DEF Closing, Asks
    <2>. QED  BY <2>2, <2>3, <2>4, <2>5
  <1>. QED  BY <1>1, <1>2 DEF TunInv

LEMMA Truncating ==
    ASSUME Tun!TunTypeOK, TunInv, NEW u \in Users, Tun!TruncateList(u)
    PROVE  Tun!TunTypeOK' /\ TunInv'
  <1>1. UNCHANGED proc /\ Duty(u) /\ OwnCopy(u) /\ Current(u) /\ Closing(u)
    BY DEF Tun!TruncateList, TunInv
  <1>2. CASE tun[u].at = "save" /\ tun[u].job.op # "list" /\ Tun!Go(u, "failed") /\ UNCHANGED list
    <2>1. Passes(u, "failed")
      BY <1>2, GoPasses DEF TunPlaces
    <2>2. Tun!TunTypeOK'
      BY <1>1, <1>2, <2>1 DEF Passes, Tun!TunTypeOK
    <2>3. Duty(u)' /\ Closing(u)' /\ (Writing(u)' <=> Writing(u)) /\ Safe(u)' = Safe(u)
      BY <1>1, <1>2, <2>1 DEF Passes, Duty, Closing, Writing, Safe
    <2>4. OwnCopy(u)'
      BY <1>1, <1>2, <2>1 DEF Passes, OwnCopy, Owns, Early, Tun!Tunnel
    <2>5. Current(u)'
      BY <1>1, <1>2, <2>1 DEF Passes, Current, Loaded
    <2>. QED  BY <1>1, <1>2, <2>1, <2>2, <2>3, <2>4, <2>5, TunFrame DEF Fewer, Passes
  <1>3. ASSUME NEW l \in {"saving", "resaving"}, Tun!Saves(u, {}, l),
               \/ tun[u].at = "save" /\ l = "saving"
               \/ tun[u].at = "resave" /\ l = "resaving"
        PROVE  Tun!TunTypeOK' /\ TunInv'
    <2>1. l \in TunPlaces
      BY DEF TunPlaces, Tun!Working
    <2>2. list' = {} /\ Written(u, l)
      BY <1>3, <2>1, SavesWrites
    <2>3. /\ tun'[u].at = l /\ tun'[u].job = tun[u].job /\ tun'[u].entries = tun[u].entries
          /\ tun'[u].found = tun[u].found /\ tun'[u].behind = tun[u].behind
          /\ (tun'[u].saved <=> l # "saving")
      BY <2>2 DEF Written
    <2>4. Tun!BeingWritten'
      BY <2>3 DEF Tun!BeingWritten, Tun!On
    <2>5. \A v \in Users : Recorded(v)'
      BY <2>4 DEF Recorded
    <2>6. Duty(u)' /\ Closing(u)'
      <3>1. l = "resaving" => tun[u].job.op = "open"
        BY <1>1, <1>3 DEF Duty
      <3>. QED  BY <1>1, <1>3, <2>3, <3>1 DEF Duty, Closing, Asks
    <2>7. OwnCopy(u)'
      BY <1>1, <1>3, <2>3 DEF OwnCopy, Owns, Early, Tun!Tunnel
    <2>8. Current(u)'
      <3>. SUFFICES ASSUME ~ tun[u].behind, \A w \in Users \ {u} : ~ Writing(w)',
                           NEW v \in Users \ {u}, NEW p \in Pids, Safe(v)', Owns(v, p)'
                    PROVE  Tun!Tunnel(p)' \in tun'[u].entries
        BY <2>3 DEF Current
      <3>1. /\ Safe(v) /\ Owns(v, p) /\ Tun!Tunnel(p)' = Tun!Tunnel(p)
            /\ \A w \in Users \ {u} : ~ Writing(w)
        BY <1>1, <2>2 DEF Written, Safe, Owns, Tun!Tunnel, Writing, Tun!TunTypeOK, Tun!Tun
      <3>. QED  BY <1>1, <1>3, <2>3, <3>1 DEF Current, Loaded
    <2>. QED  BY <1>1, <2>1, <2>2, <2>5, <2>6, <2>7, <2>8, Saving
  <1>. QED
    <2>1. \/ \E l \in {"saving", "resaving"} :
               /\ Tun!Saves(u, {}, l)
               /\ \/ tun[u].at = "save" /\ l = "saving"
                  \/ tun[u].at = "resave" /\ l = "resaving"
          \/ tun[u].at = "save" /\ tun[u].job.op # "list" /\ Tun!Go(u, "failed") /\ UNCHANGED list
      BY DEF Tun!TruncateList, Tun!On
    <2>. QED  BY <1>2, <1>3, <2>1

(* A copy that is whole again holds what the others have recorded, if it   *)
(* was not out of date: those it was behind of have lost theirs.           *)
LEMMA FillingList ==
    ASSUME Tun!TunTypeOK, TunInv, NEW u \in Users, Tun!FillList(u)
    PROVE  Tun!TunTypeOK' /\ TunInv'
  <1>1. UNCHANGED proc /\ Duty(u) /\ OwnCopy(u) /\ Current(u) /\ Closing(u) /\ Writing(u)
    BY DEF Tun!FillList, TunInv, Writing, Tun!On
  <1>2. PICK l \in {"wait", "ok"} :
          /\ Tun!Saves(u, tun[u].entries, l)
          /\ l = "wait" => tun[u].job.op = "open"
          /\ tun[u].at = "saving" \/ tun[u].job.op = "open"
    BY <1>1 DEF Tun!FillList, Tun!On, Duty
  <1>3. l \in TunPlaces
    BY DEF TunPlaces, Tun!Working
  <1>4. list' = tun[u].entries /\ Written(u, l)
    BY <1>2, <1>3, SavesWrites
  <1>5. /\ tun'[u].at = l /\ tun'[u].job = tun[u].job /\ tun'[u].entries = tun[u].entries
        /\ tun'[u].found = tun[u].found /\ tun'[u].behind = tun[u].behind
        /\ tun[u].entries \subseteq Tun!Entry
    BY <1>4, TunIsTyped DEF Written
  <1>6. \A v \in Users \ {u} : Safe(v)' => Safe(v) /\ ~ tun[u].behind
    BY <1>4 DEF Written, Safe
  <1>7. \A v, p : Owns(v, p)' <=> Owns(v, p)
    BY <1>1 DEF Owns
  <1>8. \A p : Tun!Tunnel(p)' = Tun!Tunnel(p)
    BY <1>1 DEF Tun!Tunnel
  <1>9. CASE \E w \in Users \ {u} : Writing(w)
    <2>1. PICK w \in Users \ {u} : Writing(w)
      BY <1>9
    <2>2. Writing(w)'
      BY <1>4, <2>1 DEF Written, Writing
    <2>3. Tun!BeingWritten'
      BY <2>2 DEF Tun!BeingWritten, Tun!On, Writing
    <2>4. \A v \in Users : Recorded(v)'
      BY <2>3 DEF Recorded
    <2>5. Current(u)'
      BY <2>2 DEF Current
    <2>. QED
      <3>1. Duty(u)' /\ Closing(u)'
        BY <1>1, <1>2, <1>5 DEF Duty, Closing, Asks, Writing
      <3>2. OwnCopy(u)'
        BY <1>1, <1>2, <1>5, <1>7, <1>8 DEF OwnCopy, Early, Writing
      <3>. QED  BY <1>1, <1>3, <1>4, <1>5, <2>4, <2>5, <3>1, <3>2, Saving
  <1>10. CASE \A w \in Users \ {u} : ~ Writing(w)
    <2>1. \A v \in Users \ {u}, p \in Pids :
            Safe(v)' /\ Owns(v, p)' => Tun!Tunnel(p)' \in tun[u].entries
      <3>1. ~ tun[u].behind => \A v \in Users \ {u}, p \in Pids :
              Safe(v) /\ Owns(v, p) => Tun!Tunnel(p) \in tun[u].entries
        BY <1>1, <1>10 DEF Current, Loaded, Writing
      <3>. QED  BY <1>6, <1>7, <1>8, <3>1
    <2>2. \A p \in Pids : Owns(u, p)' => Tun!Tunnel(p)' \in tun[u].entries
      BY <1>1, <1>7, <1>8 DEF OwnCopy
    <2>3. \A v \in Users : Recorded(v)'
      BY <1>4, <2>1, <2>2 DEF Recorded
    <2>4. Current(u)'
      BY <1>5, <2>1 DEF Current
    <2>. QED
      <3>1. Duty(u)' /\ Closing(u)'
        BY <1>1, <1>2, <1>5 DEF Duty, Closing, Asks, Writing
      <3>2. OwnCopy(u)'
        BY <1>1, <1>2, <1>5, <1>7, <1>8 DEF OwnCopy, Early, Writing
      <3>. QED  BY <1>1, <1>3, <1>4, <1>5, <2>3, <2>4, <3>1, <3>2, Saving
  <1>. QED  BY <1>9, <1>10

(* A command killed while it writes leaves a list that holds nothing.      *)
LEMMA Killed ==
    ASSUME Tun!TunTypeOK, TunInv, NEW u \in Users, Tun!KillCommand(u)
    PROVE  Tun!TunTypeOK' /\ TunInv'
  <1>. DEFINE lose(v) == tun[v].lost \/ Tun!On(u, "saving") \/ Tun!On(u, "resaving")
  <1>1. /\ UNCHANGED <<list, proc>> /\ tun[u].at \in Tun!Working
        /\ tun' = [v \in Users |-> [tun[v] EXCEPT !.at = IF v = u THEN "killed" ELSE tun[v].at,
                                                  !.lost = lose(v)]]
        /\ Duty(u) /\ OwnCopy(u)
    BY DEF Tun!KillCommand, TunInv
  <1>2. ASSUME NEW v \in Users
        PROVE  /\ tun'[v] \in Tun!Tun /\ tun'[v].at = IF v = u THEN "killed" ELSE tun[v].at
               /\ tun'[v].job = tun[v].job /\ tun'[v].entries = tun[v].entries
               /\ tun'[v].found = tun[v].found /\ tun'[v].saved = tun[v].saved
               /\ tun'[v].behind = tun[v].behind /\ (lose(v) => tun'[v].lost)
    <2>. DEFINE l == IF v = u THEN "killed" ELSE tun[v].at
    <2>1. tun[v] \in Tun!Tun /\ l \in TunPlaces
      BY TunIsTyped DEF Tun!Tun, TunPlaces
    <2>2. CASE lose(v)
      <3>1. lose(v) = TRUE
        BY <2>2
      <3>2. tun'[v] = [tun[v] EXCEPT !.at = l, !.lost = TRUE]
        BY <1>1, <3>1, Zenon
      <3>. HIDE DEF l, lose
      <3>3. /\ tun'[v] \in Tun!Tun /\ tun'[v].at = l /\ tun'[v].job = tun[v].job
            /\ tun'[v].entries = tun[v].entries
            /\ tun'[v].found = tun[v].found /\ tun'[v].saved = tun[v].saved
            /\ tun'[v].behind = tun[v].behind /\ tun'[v].lost
        BY <2>1, <3>2 DEF Tun!Tun, TunPlaces
      <3>. QED  BY <3>3 DEF l
    <2>3. CASE ~ lose(v)
      <3>1. lose(v) = FALSE
        BY <2>3
      <3>2. tun'[v] = [tun[v] EXCEPT !.at = l, !.lost = FALSE]
        BY <1>1, <3>1, Zenon
      <3>. HIDE DEF l, lose
      <3>3. /\ tun'[v] \in Tun!Tun /\ tun'[v].at = l /\ tun'[v].job = tun[v].job
            /\ tun'[v].entries = tun[v].entries
            /\ tun'[v].found = tun[v].found /\ tun'[v].saved = tun[v].saved
            /\ tun'[v].behind = tun[v].behind
        BY <2>1, <3>2 DEF Tun!Tun, TunPlaces
      <3>. QED  BY <2>3, <3>3 DEF l
    <2>. QED  BY <2>2, <2>3
  <1>3. tun' \in [Users -> Tun!Tun]
    BY <1>1, <1>2
  <1>4. Tun!TunTypeOK'
    BY <1>1, <1>3 DEF Tun!TunTypeOK
  <1>5. \A v, p : (Owns(v, p)' <=> Owns(v, p)) /\ Tun!Tunnel(p)' = Tun!Tunnel(p)
    BY <1>1 DEF Owns, Tun!Tunnel
  <1>6. \A v \in Users : Safe(v)' => Safe(v) /\ ~ Writing(u)
    BY <1>2 DEF Safe, Writing, Tun!On
  <1>7. \A v \in Users \ {u} : Writing(v)' <=> Writing(v)
    BY <1>2 DEF Writing
  <1>8. ASSUME NEW v \in Users
        PROVE  Duty(v)' /\ OwnCopy(v)' /\ Closing(v)'
    <2>1. /\ Duty(v) /\ OwnCopy(v) /\ Closing(v) /\ tun[u].at # "idle"
          /\ tun'[v].at = tun[v].at \/ (v = u /\ tun'[v].at = "killed")
      <3>1. tun'[v].at = tun[v].at \/ (v = u /\ tun'[v].at = "killed")
        BY <1>2
      <3>. QED  BY <1>1, <3>1 DEF TunInv, Tun!Working
    <2>2. Duty(v)'
      BY <1>2, <2>1 DEF Duty
    <2>3. OwnCopy(v)'
      BY <1>2, <1>5, <2>1 DEF OwnCopy, Early
    <2>4. Closing(v)'
      <3>1. \A e : proc'[e.pid] = proc[e.pid]
        BY <1>1
      <3>2. tun'[v].job = tun[v].job /\ tun'[v].entries = tun[v].entries /\ tun'[v].found = tun[v].found
        BY <1>2
      <3>. QED  BY <2>1, <3>1, <3>2 DEF Closing, Asks
    <2>. QED  BY <2>2, <2>3, <2>4
  <1>9. ASSUME NEW v \in Users
        PROVE  Recorded(v)'
    <2>1. Recorded(v) /\ (Safe(v)' => (Tun!BeingWritten => Tun!BeingWritten'))
      BY <1>6, <1>7 DEF TunInv, Tun!BeingWritten, Tun!On, Writing
    <2>. QED  BY <1>1, <1>5, <1>6, <2>1 DEF Recorded
  <1>10. ASSUME NEW v \in Users
         PROVE  Current(v)'
    <2>. SUFFICES ASSUME v # u, tun'[v].at \in Loaded, ~ tun'[v].behind,
                         \A w \in Users \ {v} : ~ Writing(w)',
                         NEW x \in Users \ {v}, NEW p \in Pids, Safe(x)', Owns(x, p)'
                  PROVE  Tun!Tunnel(p)' \in tun'[v].entries
      BY <1>2 DEF Current, Loaded
    <2>1. ~ Writing(u) /\ \A w \in Users \ {v} : ~ Writing(w)
      BY <1>6, <1>7
    <2>2. tun[v].at \in Loaded /\ ~ tun[v].behind /\ Current(v)
      BY <1>2 DEF TunInv
    <2>. QED  BY <1>2, <1>5, <1>6, <2>1, <2>2 DEF Current
  <1>. QED  BY <1>4, <1>8, <1>9, <1>10 DEF TunInv

(* The processes by themselves. *)
LEMMA Ending ==
    ASSUME Tun!TunTypeOK, TunInv, Tun!SshEnds \/ Tun!Reap \/ Tun!Reuse
    PROVE  Tun!TunTypeOK' /\ TunInv'
  <1>1. PICK p \in Pids : \E x \in {Tun!Ends(p), Tun!Free, [proc[p] EXCEPT !.is = "other"]} :
                            proc' = [proc EXCEPT ![p] = x]
    BY DEF Tun!SshEnds, Tun!Reap, Tun!Reuse
  <1>2. UNCHANGED <<list, tun>> /\ proc \in [Pids -> Tun!Proc]
    BY DEF Tun!SshEnds, Tun!Reap, Tun!Reuse, Tun!TunTypeOK
  <1>3. PICK x \in Tun!Proc : x.is # "ssh" /\ proc' = [proc EXCEPT ![p] = x]
    <2>1. PICK x \in {Tun!Ends(p), Tun!Free, [proc[p] EXCEPT !.is = "other"]} :
            proc' = [proc EXCEPT ![p] = x]
      BY <1>1
    <2>2. /\ [proc[p] EXCEPT !.is = "other"] \in Tun!Proc
          /\ [proc[p] EXCEPT !.is = "other"].is = "other"
      BY <1>2 DEF Tun!Proc
    <2>. QED  BY <2>1, <2>2, ProcIsTyped
  <1>4. proc' \in [Pids -> Tun!Proc] /\ Fewer
    BY <1>2, <1>3 DEF Fewer
  <1>5. Tun!TunTypeOK'
    BY <1>2, <1>4 DEF Tun!TunTypeOK
  <1>6. CASE Users = {}
    BY <1>5, <1>6 DEF TunInv
  <1>7. ASSUME NEW u \in Users
        PROVE  TunInv'
    <2>1. Duty(u) /\ OwnCopy(u) /\ Current(u) /\ Closing(u)
      BY DEF TunInv
    <2>2. Duty(u)' /\ (Writing(u)' <=> Writing(u)) /\ (Safe(u)' => Safe(u))
      BY <1>2, <2>1 DEF Duty, Writing, Safe
    <2>3. OwnCopy(u)'
      BY <1>2, <1>4, <2>1, FewerOwned DEF OwnCopy
    <2>4. Current(u)'
      BY <1>2, <1>4, <2>1, FewerOwned DEF Current, Writing, Safe
    <2>5. Closing(u)'
      <3>1. \A e \in tun[u].found : e.pid \in Pids
        BY TunIsTyped DEF Tun!Entry
      <3>. QED  BY <1>2, <1>4, <2>1, <3>1 DEF Closing, Asks, Fewer
    <2>. QED  BY <1>2, <1>4, <2>2, <2>3, <2>4, <2>5, TunFrame
  <1>. QED  BY <1>5, <1>6, <1>7

LEMMA TunNextKeeps ==
    ASSUME Tun!TunTypeOK, TunInv, Tun!TunNext
    PROVE  Tun!TunTypeOK' /\ TunInv'
  <1>1. ASSUME NEW u \in Users, Tun!TunStep(u)
        PROVE  Tun!TunTypeOK' /\ TunInv'
    BY <1>1, Passing, Loading, Spawning, Killing, Retaining, Truncating, FillingList, Killed
       DEF Tun!TunStep
  <1>. QED  BY <1>1, Ending DEF Tun!TunNext

-----------------------------------------------------------------------------
(* What the others' steps leave alone. *)

LEMMA CtxSame ==
    ASSUME Ctx!CtxTypeOK, CtxInv, UNCHANGED <<file, marker, cli, cmd>>
    PROVE  Ctx!CtxTypeOK' /\ CtxInv'
  <1>1. Ctx!CtxTypeOK'
    BY DEF Ctx!CtxTypeOK
  <1>2. ASSUME NEW u \in Users
        PROVE  Place(u)' /\ Secure(u)' /\ Select(u)' /\ Rename(u)' /\ Remove(u)'
    <2>1. Place(u) /\ Secure(u) /\ Select(u) /\ Rename(u) /\ Remove(u)
      BY DEF CtxInv
    <2>2. Place(u)'
      BY <2>1 DEF Place, Runs
    <2>3. Secure(u)'
      BY <2>1 DEF Secure
    <2>4. Select(u)'
      BY <2>1 DEF Select, Asked, Chosen, RgChosen
    <2>5. Rename(u)' /\ Remove(u)'
      BY <2>1 DEF Rename, Remove, Old, New, Ctx!Renames, Ctx!Op
    <2>. QED  BY <2>2, <2>3, <2>4, <2>5
  <1>. QED  BY <1>1, <1>2 DEF CtxInv

LEMMA CfgSame ==
    ASSUME Cfg!CfgTypeOK, CfgInv, UNCHANGED <<conf, tmp, text, saver>>
    PROVE  Cfg!CfgTypeOK' /\ CfgInv'
  <1>1. Cfg!CfgTypeOK'
    BY DEF Cfg!CfgTypeOK
  <1>2. Cfg!Content' = Cfg!Content /\ (Cfg!Uncrossed' <=> Cfg!Uncrossed)
    BY DEF Cfg!Content, Cfg!Uncrossed
  <1>3. ASSUME NEW u \in Users
        PROVE  /\ (Stage(u) => Stage(u)') /\ (Known(u) => Known(u)') /\ (Wins(u) => Wins(u)')
    <2>1. Stage(u) => Stage(u)'
      BY DEF Stage, Sets, Base, Cfg!Changed
    <2>2. Known(u) => Known(u)'
      BY <1>2 DEF Known
    <2>3. Wins(u) => Wins(u)'
      BY <1>2 DEF Wins, Private
    <2>. QED  BY <2>1, <2>2, <2>3
  <1>4. Whole => Whole'
    BY <1>2 DEF Whole
  <1>. QED  BY <1>1, <1>2, <1>3, <1>4 DEF CfgInv

LEMMA TunSame ==
    ASSUME Tun!TunTypeOK, TunInv, UNCHANGED <<list, proc, tun>>
    PROVE  Tun!TunTypeOK' /\ TunInv'
  <1>1. Tun!TunTypeOK' /\ Fewer
    BY DEF Tun!TunTypeOK, Fewer
  <1>2. ASSUME NEW u \in Users
        PROVE  TunInv'
    <2>1. Duty(u) /\ OwnCopy(u) /\ Current(u) /\ Closing(u)
      BY DEF TunInv
    <2>2. Duty(u)' /\ Closing(u)' /\ (Writing(u)' <=> Writing(u)) /\ (Safe(u)' => Safe(u))
      BY <2>1 DEF Duty, Closing, Asks, Writing, Safe
    <2>3. OwnCopy(u)'
      BY <2>1, <1>1, FewerOwned DEF OwnCopy
    <2>4. Current(u)'
      BY <2>1, <1>1, FewerOwned DEF Current, Writing, Safe
    <2>. QED  BY <1>1, <2>2, <2>3, <2>4, TunFrame
  <1>. QED  BY <1>1, <1>2 DEF TunInv

LEMMA StepKeeps ==
    ASSUME IInv, LocalNext \/ UNCHANGED localVars
    PROVE  IInv'
  <1>1. /\ Ctx!CtxTypeOK /\ Cfg!CfgTypeOK /\ Tun!TunTypeOK /\ CtxInv /\ CfgInv /\ TunInv
    BY DEF IInv, LocalTypeOK
  <1>2. CASE UNCHANGED localVars
    BY <1>1, <1>2, CtxSame, CfgSame, TunSame DEF localVars, IInv, LocalTypeOK
  <1>3. CASE UNCHANGED <<conf, tmp, text, saver, list, proc, tun>> /\ Ctx!CtxNext
    BY <1>1, <1>3, CtxNextKeeps, CfgSame, TunSame DEF IInv, LocalTypeOK
  <1>4. CASE UNCHANGED <<file, marker, cli, cmd, list, proc, tun>> /\ Cfg!CfgNext
    BY <1>1, <1>4, CtxSame, CfgNextKeeps, TunSame DEF IInv, LocalTypeOK
  <1>5. CASE UNCHANGED <<file, marker, cli, cmd, conf, tmp, text, saver>> /\ Tun!TunNext
    BY <1>1, <1>5, CtxSame, CfgSame, TunNextKeeps DEF IInv, LocalTypeOK
  <1>. QED  BY <1>2, <1>3, <1>4, <1>5 DEF LocalNext

LEMMA CtxBegins ==
    ASSUME Ctx!CtxUsers, Ctx!CtxFiles
    PROVE  Ctx!CtxTypeOK /\ CtxInv
  <1>1. PICK job \in [Users -> CtxJobs] : cmd = [u \in Users |-> Ctx!Idle(job[u])]
    BY DEF Ctx!CtxUsers
  <1>2. CtxJobs \subseteq Ctx!Job
        /\ \A j \in CtxJobs : j.profile # None => j.op \in {"run", "test"}
    BY LocalAssumption DEF LocalAssumption, Ctx!ContextsAssumption
  <1>3. ASSUME NEW u \in Users
        PROVE  /\ cmd[u] \in Ctx!Cmd /\ cmd[u].at = "idle" /\ cmd[u] = Ctx!Idle(cmd[u].job)
               /\ ~ cmd[u].stale /\ (cmd[u].job.op = "rename" => cmd[u].pins = Ctx!NoPins)
    <2>. DEFINE j == job[u]
    <2>1. /\ j \in CtxJobs /\ j \in Ctx!Job /\ j.pins \in Ctx!Pins /\ j.profile \in Subs \cup {None}
          /\ cmd[u] = Ctx!Idle(j)
      BY <1>1, <1>2 DEF Ctx!Job
    <2>. HIDE DEF j
    <2>2. [Ctx!NoPins EXCEPT !.sub = j.profile] \in Ctx!Pins
      BY <2>1 DEF Ctx!NoPins, Ctx!Pins
    <2>3. cmd[u].job = j /\ cmd[u].at = "idle" /\ ~ cmd[u].stale
      BY <2>1 DEF Ctx!Idle
    <2>4. cmd[u] \in Ctx!Cmd
      BY <2>1, <2>2 DEF Ctx!Idle, Ctx!Cmd
    <2>5. j.op = "rename" => cmd[u].pins = Ctx!NoPins
      <3>. SUFFICES ASSUME j.op = "rename"
                    PROVE  cmd[u].pins = Ctx!NoPins
        OBVIOUS
      <3>1. j.profile = None
        BY <1>2, <2>1
      <3>2. cmd[u].pins = [Ctx!NoPins EXCEPT !.sub = j.profile]
        BY <2>1 DEF Ctx!Idle
      <3>. QED  BY <3>1, <3>2 DEF Ctx!NoPins
    <2>. QED  BY <2>1, <2>3, <2>4, <2>5
  <1>4. Ctx!CtxTypeOK
    <2>1. cmd \in [Users -> Ctx!Cmd]
      BY <1>1, <1>3
    <2>2. file \in [Names -> Ctx!Pins \cup {Absent}]
      <3>1. \A j \in CtxJobs : j.pins \in Ctx!Pins
        BY <1>2 DEF Ctx!Job
      <3>. QED  BY <3>1 DEF Ctx!CtxFiles
    <2>. QED  BY <2>1, <2>2 DEF Ctx!CtxTypeOK, Ctx!CtxFiles
  <1>5. ASSUME NEW u \in Users
        PROVE  Place(u) /\ Secure(u) /\ Select(u) /\ Rename(u) /\ Remove(u)
    <2>1. Place(u)
      BY <1>3 DEF Place, Ctx!Switching, Switched, Acting
    <2>2. Secure(u) /\ Select(u) /\ Remove(u)
      BY <1>3 DEF Secure, Select, Remove, Ctx!Switching, Switched, Acting
    <2>3. Rename(u)
      BY <1>3 DEF Rename, Ctx!Renames, Ctx!Op, Switched
    <2>. QED  BY <2>1, <2>2, <2>3
  <1>. QED  BY <1>4, <1>5 DEF CtxInv

LEMMA CfgBegins ==
    ASSUME Cfg!CfgInit
    PROVE  Cfg!CfgTypeOK /\ CfgInv
  <1>1. PICK t \in {Blank, Own, Garbled} :
          /\ conf = IF t = Blank THEN None ELSE CHOOSE i \in Inodes : TRUE
          /\ text = [i \in Inodes |-> t]
    BY DEF Cfg!CfgInit
  <1>2. PICK job \in [Users -> CfgJobs] :
          saver = [u \in Users |-> [at |-> "idle", job |-> job[u], was |-> Blank,
                                    mine |-> Blank, fd |-> None, crossed |-> FALSE]]
    BY DEF Cfg!CfgInit
  <1>3. tmp = None /\ (CHOOSE i \in Inodes : TRUE) \in Inodes
    BY LocalAssumption DEF Cfg!CfgInit, LocalAssumption, Cfg!ConfigAssumption
  <1>4. ASSUME NEW u \in Users
        PROVE  saver[u] \in Cfg!Saver /\ saver[u].at = "idle" /\ saver[u].mine = Blank
    BY <1>2 DEF Cfg!Saver
  <1>5. Cfg!CfgTypeOK
    BY <1>1, <1>2, <1>3, <1>4, CfgConstants DEF Cfg!CfgTypeOK
  <1>6. Cfg!Content # Blank
    BY <1>1, <1>3, CfgConstants DEF Cfg!Content
  <1>7. \A u \in Users : Stage(u) /\ Known(u) /\ Wins(u)
    BY <1>4 DEF Stage, Known, Wins, Ready, Filling
  <1>8. Whole
    BY <1>4 DEF Whole
  <1>. QED  BY <1>3, <1>4, <1>5, <1>6, <1>7, <1>8 DEF CfgInv, Filling

LEMMA TunBegins ==
    ASSUME Tun!TunInit
    PROVE  Tun!TunTypeOK /\ TunInv
  <1>1. PICK job \in [Users -> TunJobs] :
          tun = [u \in Users |-> [at |-> "idle", job |-> job[u], entries |-> {}, found |-> {},
                                  left |-> job[u].ports, saved |-> FALSE, behind |-> FALSE,
                                  lost |-> FALSE]]
    BY DEF Tun!TunInit
  <1>2. list = {} /\ proc = [p \in Pids |-> Tun!Free]
    BY DEF Tun!TunInit
  <1>3. Tun!Free \in Tun!Proc /\ Tun!Free.is = "free"
    BY DEF Tun!Free, Tun!Proc
  <1>4. ASSUME NEW u \in Users
        PROVE  tun[u] \in Tun!Tun /\ tun[u].at = "idle" /\ ~ tun[u].saved
    <2>1. job[u].ports \in 0..MaxPorts
      BY LocalAssumption DEF LocalAssumption, Tun!TunnelAssumption
    <2>. QED  BY <1>1, <2>1 DEF Tun!Tun
  <1>5. Tun!TunTypeOK
    BY <1>1, <1>2, <1>3, <1>4 DEF Tun!TunTypeOK
  <1>6. \A u \in Users, p \in Pids : ~ Owns(u, p)
    BY <1>2, <1>3 DEF Owns
  <1>7. \A u \in Users : Duty(u) /\ OwnCopy(u)
    BY <1>4, <1>6 DEF Duty, OwnCopy
  <1>8. \A u \in Users : Recorded(u) /\ Current(u) /\ Closing(u)
    BY <1>4, <1>6 DEF Recorded, Current, Closing, Loaded
  <1>. QED  BY <1>5, <1>7, <1>8 DEF TunInv

LEMMA LocalBegins == LocalInit => IInv
  BY CtxBegins, CfgBegins, TunBegins DEF LocalInit, IInv, LocalTypeOK

(* What the files hold and where the commands on them are, for any number  *)
(* of users, contexts, settings and tunnels.                               *)
THEOREM Inductive == LocalSpec => []IInv
  BY LocalBegins, StepKeeps, PTL DEF LocalSpec

(* Type correctness of the three kinds of files and of the commands.       *)
THEOREM TypeCorrect == LocalSpec => []LocalTypeOK
  <1>1. IInv => LocalTypeOK
    BY DEF IInv
  <1>. QED  BY <1>1, Inductive, PTL

LEMMA CommandsAreVerified == IInv => Ctx!Verified
  BY DEF IInv, CtxInv, Secure, Ctx!Verified, Acting, Switched, Ctx!Op

LEMMA CommandsActOnSelected == IInv => Ctx!ActsOnSelected
  <1>. DEFINE chosen == IF marker = None THEN Ctx!NoPins ELSE file[marker]
              orElse(x, y) == IF x # None THEN x ELSE y
  <1>. SUFFICES ASSUME IInv, NEW u \in Users, cmd[u].at = "act", ~ cmd[u].stale
                PROVE  /\ chosen # Absent
                       /\ cmd[u].pins.sub = orElse(cmd[u].job.profile, chosen.sub)
                       /\ cmd[u].rg = orElse(cmd[u].job.flag, orElse(chosen.rg, cmd[u].conf))
    BY DEF Ctx!ActsOnSelected, Ctx!At
  <1>1. Place(u) /\ Select(u) /\ Ctx!CtxTypeOK
    BY DEF IInv, CtxInv, LocalTypeOK
  <1>2. cmd[u].job.op = "run"
    BY <1>1 DEF Place, Acting, Runs
  <1>3. Chosen(u) /\ RgChosen(u)
    BY <1>1, <1>2 DEF Select, Acting
  <1>4. Asked(u).sub = cmd[u].job.profile
    BY DEF Asked, Ctx!NoPins
  <1>5. Ctx!NoPins # Absent /\ Ctx!NoPins.sub = None /\ Ctx!NoPins.rg = None
    BY CtxConstants DEF Ctx!NoPins
  <1>6. chosen # Absent
    BY <1>3, <1>5 DEF Chosen
  <1>7. cmd[u].pins.sub = orElse(cmd[u].job.profile, chosen.sub)
    BY <1>3, <1>4, <1>5 DEF Chosen
  <1>8. cmd[u].rg = orElse(cmd[u].job.flag, orElse(chosen.rg, cmd[u].conf))
    BY <1>3, <1>5 DEF RgChosen
  <1>. QED  BY <1>6, <1>7, <1>8

(* A command acts with the Azure CLI where it verified it to be, on what   *)
(* its flags, the selected context and the config say, however many others *)
(* use the CLI and change contexts meanwhile.                              *)
THEOREM SelectionIsHeld == LocalSpec => []SelectionHolds
  <1>1. IInv => SelectionHolds
    BY CommandsAreVerified, CommandsActOnSelected DEF SelectionHolds
  <1>. QED  BY <1>1, Inductive, PTL

LEMMA RenamesKeep == IInv => Ctx!RenameKeeps
  <1>. SUFFICES ASSUME IInv, NEW u \in Users, Ctx!Renames(u), ~ cmd[u].stale,
                       cmd[u].pins # Ctx!NoPins
                PROVE  Old(u) \/ New(u)
    BY DEF Ctx!RenameKeeps, Old, New
  <1>1. Place(u) /\ Rename(u) /\ cmd[u].job.op = "rename"
    BY DEF IInv, CtxInv, Ctx!Renames, Ctx!Op
  <1>2. cmd[u].at \in Ctx!Running \cup Ctx!Ended \cup {"idle"}
    BY CmdIsTyped DEF IInv, LocalTypeOK
  <1>3. cmd[u].at \in {"idle", "open", "write", "writing", "remove", "marker", "ok", "failed", "killed"}
                      \cup Switched
    BY <1>1, <1>2 DEF Place, Runs, Ctx!Running, Ctx!Ended, Ctx!Switching, Acting, Switched
  <1>. QED  BY <1>1, <1>3 DEF Rename

(* A rename of a context that is killed loses nothing, a context that is   *)
(* gone is not selected, and a save of the config, killed at any moment,   *)
(* leaves a whole one in which what others have set stays set.             *)
THEOREM FilesAreKept == LocalSpec => []FilesStay
  <1>1. IInv => Ctx!RemovedIsNotSelected
    BY DEF IInv, CtxInv, Remove, Ctx!RemovedIsNotSelected, Ctx!At, Ctx!Op
  <1>2. IInv => Cfg!AllOrNothing
    BY DEF IInv, CfgInv, Whole, Known, Ready, Filling, Cfg!AllOrNothing, Cfg!InState
  <1>3. IInv => Cfg!SettingsStay
    BY DEF IInv, CfgInv, Wins, Private, Cfg!SettingsStay, Cfg!InState
  <1>4. IInv => FilesStay
    BY <1>1, <1>2, <1>3, RenamesKeep DEF FilesStay
  <1>. QED  BY <1>4, Inductive, PTL

(* A running tunnel that an open has recorded stays recorded until a copy  *)
(* out of date, or half a copy, is written over it; a close ends every     *)
(* recorded tunnel that it was asked to.                                   *)
THEOREM TunnelsAreKept == LocalSpec => []TunnelsStay
  <1>1. IInv => Tun!TunnelsStayTracked
    BY DEF IInv, TunInv, Recorded, Safe, Owns, Tun!TunnelsStayTracked
  <1>2. IInv => Tun!CloseCloses
    BY DEF IInv, TunInv, Closing, Asks, Tun!CloseCloses, Tun!On
  <1>3. IInv => TunnelsStay
    BY <1>1, <1>2 DEF TunnelsStay
  <1>. QED  BY <1>3, Inductive, PTL
=============================================================================
