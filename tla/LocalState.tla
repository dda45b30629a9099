----------------------------- MODULE LocalState -----------------------------
(***************************************************************************)
(* The files azlin keeps for a user on his machine, and the commands that  *)
(* read and write them at the same time: contexts, config.toml and         *)
(* tunnels.json.  They meet in the config, whose default resource group    *)
(* Contexts falls back on.                                                 *)
(***************************************************************************)
EXTENDS Naturals, FiniteSets

CONSTANTS
    Users, CtxJobs, CfgJobs, TunJobs, Names, Subs, Groups, Default, Keys, Defaults, Own, Inodes,
    Vms, Pids, MaxPorts, GroupKey, None, Absent, Broken, Blank, Garbled

VARIABLES file, marker, cli, cmd, conf, tmp, text, saver, list, proc, tun

Cfg == INSTANCE ConfigFile WITH Vals <- Groups \cup {None}

(* What load gives of default_resource_group.                              *)
GroupOf(c) ==
    IF c = Garbled THEN Broken ELSE IF c = Blank THEN Defaults[GroupKey] ELSE c[GroupKey]

Ctx == INSTANCE Contexts WITH config <- GroupOf(Cfg!Content)
Tun == INSTANCE PortForward

ASSUME LocalAssumption ==
    /\ Cfg!ConfigAssumption /\ Ctx!ContextsAssumption /\ Tun!TunnelAssumption
    /\ GroupKey \in Keys

localVars == <<file, marker, cli, cmd, conf, tmp, text, saver, list, proc, tun>>

Assigned(u) ==
    {c \in {"ctx", "cfg", "tun"} :
        \/ c = "ctx" /\ cmd[u].job.op # "none"
        \/ c = "cfg" /\ saver[u].job.op # "none"
        \/ c = "tun" /\ tun[u].job.op # "none"}

(* A user runs one command.  Bounds: those on tunnels, which share nothing *)
(* with the others, are among themselves; without a command on contexts    *)
(* there are none; where the CLI begins does not matter, as it is moved at *)
(* any time.                                                               *)
LocalInit ==
    /\ Cfg!CfgInit /\ Tun!TunInit
    /\ (\A u \in Users : tun[u].job.op = "none") \/ (\A u \in Users : tun[u].job.op # "none")
    /\ Ctx!CtxUsers
    /\ \A u \in Users : Cardinality(Assigned(u)) = 1
    /\ Ctx!CtxFiles
    /\ (\E u \in Users : "ctx" \in Assigned(u)) \/ file = [n \in Names |-> Absent]
    /\ cli = CHOOSE s \in Subs : TRUE

LocalNext ==
    \/ UNCHANGED <<conf, tmp, text, saver, list, proc, tun>> /\ Ctx!CtxNext
    \/ UNCHANGED <<file, marker, cli, cmd, list, proc, tun>> /\ Cfg!CfgNext
    \/ UNCHANGED <<file, marker, cli, cmd, conf, tmp, text, saver>> /\ Tun!TunNext

LocalSpec == LocalInit /\ [][LocalNext]_localVars

-----------------------------------------------------------------------------
LocalTypeOK == Ctx!CtxTypeOK /\ Cfg!CfgTypeOK /\ Tun!TunTypeOK

(* Contexts: a command acts on what its flags, the selected context and    *)
(* the config say, and only with the Azure CLI where it verified it to be. *)
SelectionHolds == Ctx!Verified /\ Ctx!ActsOnSelected

(* A rename of a context that is killed loses nothing, and a context that  *)
(* is gone is not selected; a save of the config that is killed leaves a   *)
(* whole one, and no save undoes another's setting.                        *)
FilesStay ==
    /\ Ctx!RenameKeeps /\ Ctx!RemovedIsNotSelected
    /\ Cfg!AllOrNothing /\ Cfg!SettingsStay

(* PortForward: a running tunnel that was recorded stays recorded, and a   *)
(* close ends all the recorded ones it was asked to.                       *)
TunnelsStay == Tun!TunnelsStayTracked /\ Tun!CloseCloses

=============================================================================
