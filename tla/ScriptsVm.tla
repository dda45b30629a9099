------------------------------ MODULE ScriptsVm ------------------------------
(***************************************************************************)
(* The handlers of the commands that work on one VM, or on what runs there *)
(* (crate azlin: cmd_lifecycle.rs, cmd_vm_ops2.rs, cmd_tag.rs, cmd_env.rs, *)
(* cmd_sync_ops.rs, cmd_session.rs, cmd_connect.rs, cmd_monitoring.rs,     *)
(* cmd_gui.rs, cmd_gui_install.rs), as scripts.                            *)
(***************************************************************************)
EXTENDS ScriptsData, ScriptsNew

VmStart(f) == Login \o Group \o Make("vm started")
VmStop(f) == Login \o Group \o Make("vm stopped")
OsUpdate(f) == Group \o Target(f) \o Make("updates")
UpdateTools(f) == Target(f) \o Make("updates")

(* The snapshot's id is wanted only to copy it to another region.          *)
CloneSnapshot == Make("snapshot") \o When(Need("snapshot id"))
CloneDisk == OrStops(Skips(Make("clone disk")))
CloneVm == OrStops(Skips(Make("clone")))

(* clone_failure_message *)
ClonesTold == Tally

(* One replica's failure spares the others, but not the exit code.         *)
Clone(f) == Group \o OsDisk \o CloneSnapshot \o Each(CloneDisk \o CloneVm) \o ClonesTold

TagAdd(f) == Login \o Group \o Need("valid tags") \o Each(Make("tag"))
TagRemove(f) == Login \o Group \o Each(Drop("tag"))
TagList(f) == Login \o Group \o Need("vm")

-----------------------------------------------------------------------------
(* A value that looks like a secret is written only if the user insists.   *)
EnvSet(f) ==
    Need("valid format") \o SecretAsked(f) \o Target(f)
      \o ValidKey \o Make("variable")

EnvList(f) == Target(f) \o Need("variables")
EnvDelete(f) == Target(f) \o Drop("variable")
EnvExport(f) == EnvList(f) \o When(Make("copy"))

(* A key that is not valid is passed over; a failure stops half way.       *)
EnvImport(f) ==
    Target(f) \o Need("read") \o Each(Skips(ValidKey) \o Make("variable"))

EnvClear(f) == AskUnless("force" \in f) \o Target(f) \o Drop("variable")

-----------------------------------------------------------------------------
Sync(f) ==
    Group \o Need("home directory") \o If("dry_run" \in f, Quit)
      \o Login \o Need("list") \o Find("running vms") \o Find("dotfiles")
      \o Each(Target({}) \o Route \o OrStops(Noted(Make("dotfiles synced"))))

SyncKeys(f) == Group \o PublicKey \o Make("key pushed")

Cp(f) ==
    Need("two paths") \o Group \o If("dry_run" \in f, Quit)
      \o When(Target({}) \o Route) \o Make("copy")

Logs(f) == Target(f) \o Need("logs")

-----------------------------------------------------------------------------
Session(f) ==
    Need("config") \o Either(Make("session name"), If("clear" \in f, Drop("session name")))

SessionsSave(f) == Group \o Make("session file")
SessionsLoad(f) == ReadSession
SessionsDelete(f) ==
    Need("session file") \o AskUnless("force" \in f) \o Drop("session file")
SessionsList(f) == Need("read")

Status(f) == Login \o Group \o Need("list") \o Find("vms")
Show(f) == Login \o Group \o Need("vm")

(* upsert_ssh_host_block: the old file is copied, then written over; one   *)
(* that cannot be read is left alone.                                      *)
ReadSshConfig == Need("read")
BackupSshConfig == Noted(Make("ssh config backup"))
SshConfig == ReadSshConfig \o When(BackupSshConfig \o Make("ssh config"))

Code(f) ==
    Login \o Group \o Need("vm")
      \o When(Need("bastion") \o Either(Need("tunnel"), Make("tunnel host") \o Need("tunnel"))
                \o SshConfig \o When(SshConfig))
      \o Need("editor")

-----------------------------------------------------------------------------
(* resolve_key_and_push: only a key made just now is brought to the VM; a  *)
(* user who names a key, or has one of another name, needs none.           *)
KeyPushed ==
    When(Unless("key", Item(Skips(NewPair) \o PublicKey \o Make("key pushed"))))

(* Each attempt finds its way anew.  After one that is lost the user may   *)
(* stop, and the last one's exit code is the command's.                    *)
Attempt == Route \o KeyPushed
Connect(f) ==
    Login \o Group \o Either(Need("vm"), Need("list") \o Need("running vms") \o Need("vm"))
      \o Need("valid session name")
      \o If("no_reconnect" \notin f, When(Attempt \o If("yes" \notin f, When(Bail))))
      \o Attempt \o Need("ssh")

-----------------------------------------------------------------------------
W(f) == Targets(f) \o Each(Noted(Need("answer")))
Ps(f) == Targets(f) \o Each(Noted(Need("answer")))
Top(f) == Targets(f) \o Either(Noted(Need("answer")), Bail)

(* The closure refresh of the dashboard: a list that cannot be had leaves   *)
(* the rows as they were, without a word.                                  *)
Refresh == Item(Passes(Login \o Need("list")) \o Each(Noted(Need("metrics"))))

(* run_dashboard: the rows are read before the first key is.               *)
RunDashboard == Need("terminal") \o Refresh

(* handle_key: one of three actions, or q, which ends the loop.            *)
PendingAction(connect, start, stop) == Either(connect, Either(start, stop))

(* What the loop of the handler does of an action: Start and Stop act at   *)
(* once, and report in a line; of ssh no result is told.                   *)
Dashboard ==
    RunDashboard
      \o When(PendingAction(Target({}) \o Quiet(Need("ssh")),
                            Login \o Noted(Make("vm started")),
                            Login \o Noted(Make("vm stopped")))
                \o RunDashboard)

(* A VM that does not answer within its time shows as one without metrics. *)
Measured == Each(Noted(Need("metrics")))

Health(f) ==
    Login \o Group \o Noted(Need("bastions"))
      \o If("vm" \in f, Need("vm") \o Need("address"))
      \o If("vm" \notin f, Need("list")) \o Measured
      \o If("tui" \in f, Dashboard)

-----------------------------------------------------------------------------
(* detect_desktop: a probe that fails finds no desktop.                    *)
Detected == Quiet(Need("probe"))

(* require_rdp_bridge *)
BridgeListens == Need("bridge")

(* start_desktop: of a bridge that does not start the script warns on its  *)
(* standard error, which is shown only if the desktop does not start.      *)
StartDesktop == Make("desktop started") \o Quiet(Make("bridge started"))

(* check_local_deps, check_remote_deps                                     *)
LocalDeps == Need("viewer program")
RemoteDeps == Make("packages")

(* start_vnc_server *)
VncServer ==
    Need("new password") \o Make("vnc password") \o Make("startup script")
      \o Quiet(Drop("vnc server")) \o Make("vnc server")

(* open_desktop_tunnel *)
DesktopTunnel == Make("tunnel")

(* launch_viewer: the password is copied here, and gone before the result. *)
LaunchViewer ==
    Item(Skips(Need("viewer")) \o Sure(Make("password file")) \o Noted(Drop("password file")))
      \o Noted(Need("viewer"))

(* launch_rdp_client: without a client it holds the tunnel open.           *)
LaunchRdp == Either(Forever, Noted(Need("viewer")))

(* kill_tunnels, and cleanup of the native path.                           *)
KillTunnels == Quiet(Drop("tunnel"))
Cleanup == Quiet(Drop("vnc server")) \o KillTunnels

(* connect_containerised *)
Containerised(f) ==
    When(StartDesktop) \o If("rdp" \notin f, LocalDeps) \o DesktopTunnel
      \o (IF "rdp" \in f THEN LaunchRdp ELSE LaunchViewer)
      \o KillTunnels \o TallyOf("viewer")

Native(f) ==
    If("rdp" \notin f, LocalDeps) \o RemoteDeps \o VncServer \o DesktopTunnel \o LaunchViewer \o Cleanup
      \o TallyOf("viewer")

Gui(f) ==
    Need("valid resolution") \o Group \o Target(f) \o Route \o Detected
      \o IF "rdp" \in f THEN BridgeListens \o Either(Containerised(f), Native(f))
         ELSE Either(Containerised(f), Native(f))

(* build_install_script: a container of this image is as much as installed *)
(* - its bridge and its password are not looked at - and one of another    *)
(* image goes before this one is pulled.                                   *)
Desktop ==
    Need("docker") \o Need("space")
      \o IfThere("desktop", Quiet(Make("desktop started") \o Make("bridge started")) \o Quit)
      \o When(Quiet(Drop("older desktop"))) \o Need("image") \o Need("new password")
      \o Make("desktop") \o Make("desktop password")
      \o Quiet(Drop("bridge")) \o Noted(Make("bridge"))

(* classify_install_result: without its last line it has not succeeded.    *)
Answered == Need("answer")

(* build_uninstall_script *)
NoDesktop == Quiet(Drop("bridge") \o Drop("desktop")) \o Drop("desktop password")

GuiInstall(f) ==
    Need("valid resolution") \o Group \o Target(f)
      \o IF "uninstall" \in f THEN NoDesktop ELSE Desktop \o Answered

-----------------------------------------------------------------------------
(* The dispatch of each file.                                              *)
LifecycleScripts(f) ==
    [start |-> VmStart(f), stop |-> VmStop(f), os_update |-> OsUpdate(f)]

MachineScripts(f) == [update |-> UpdateTools(f), clone |-> Clone(f)]

TagScripts(f) ==
    [tag_add |-> TagAdd(f), tag_remove |-> TagRemove(f), tag_list |-> TagList(f)]

EnvScripts(f) ==
    [env_set    |-> EnvSet(f),    env_list |-> EnvList(f),     env_delete |-> EnvDelete(f),
     env_export |-> EnvExport(f), env_import |-> EnvImport(f), env_clear |-> EnvClear(f)]

SyncScripts(f) ==
    [sync |-> Sync(f), sync_keys |-> SyncKeys(f), cp |-> Cp(f), logs |-> Logs(f)]

SessionScripts(f) ==
    [session         |-> Session(f),        status |-> Status(f), code |-> Code(f),
     sessions_save   |-> SessionsSave(f),   sessions_load |-> SessionsLoad(f),
     sessions_delete |-> SessionsDelete(f), sessions_list |-> SessionsList(f)]

ConnectScripts(f) == [connect |-> Connect(f), show |-> Show(f)]
MonitoringScripts(f) == [w |-> W(f), ps |-> Ps(f), top |-> Top(f), health |-> Health(f)]
GuiScripts(f) == [gui |-> Gui(f), gui_install |-> GuiInstall(f)]

=============================================================================
