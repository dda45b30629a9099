------------------------------- MODULE Grammar -------------------------------
(***************************************************************************)
(* The commands of crate azlin-cli (lib.rs, the clap enums), each with the *)
(* flags on which the control of its handler depends.  "vm" and "ip" stand *)
(* for an argument that is given.  The commands that other modules model   *)
(* (list, delete, kill, destroy, killall, cleanup, restore, batch, fleet,  *)
(* context, config set, tunnel, disk repair) are not here; what else a     *)
(* command takes only picks the data it works on.                          *)
(***************************************************************************)
EXTENDS TLC

(* Enum Commands, in the order of the source.                              *)
Language == [ask |-> {"dry_run"}, do |-> {"dry_run", "yes"}]

New == [new |-> {"yes", "no_auto_connect"}]

Lifecycle ==
    [clone |-> {}, session |-> {"clear"}, status |-> {}, start |-> {}, stop |-> {}]

Access == [connect |-> {"no_reconnect", "yes"}, gui |-> {"rdp"}]

Monitoring ==
    [health |-> {"vm", "tui"}, w |-> {"vm", "ip"}, ps |-> {"vm", "ip"}, cost |-> {},
     logs   |-> {}, top |-> {"vm", "ip"}]

Files == [cp |-> {"dry_run"}, sync |-> {"dry_run"}, sync_keys |-> {}]
Editor == [code |-> {}, os_update |-> {}]
Own ==
    [help |-> {}, show |-> {}, version |-> {}, self_update |-> {},
     completions |-> {"install"}, history |-> {}]

-----------------------------------------------------------------------------
(* The enums of actions.                                                   *)
GuiAction == [gui_install |-> {"uninstall"}]
VmAction == [update |-> {}]
BastionAction ==
    [bastion_list |-> {}, bastion_status |-> {}, bastion_configure |-> {},
     bastion_sweep |-> {}]
ConfigAction == [config_show |-> {}, config_diff |-> {}]
HistoryAction == [history_replay |-> {}, history_clear |-> {}]
EnvAction ==
    [env_set |-> {"force", "ip"}, env_list |-> {"ip"}, env_delete |-> {"ip"},
     env_export |-> {"ip"}, env_import |-> {"ip"}, env_clear |-> {"force", "ip"}]
SnapshotAction ==
    [snapshot_create  |-> {}, snapshot_list |-> {}, snapshot_restore |-> {"force"},
     snapshot_delete  |-> {"force"}, snapshot_enable |-> {}, snapshot_disable |-> {},
     snapshot_sync    |-> {}, snapshot_status |-> {}]
StorageAction ==
    [storage_create   |-> {}, storage_list |-> {}, storage_status |-> {},
     storage_mount    |-> {}, storage_unmount |-> {}, storage_delete |-> {"force"},
     storage_mount_file |-> {}, storage_unmount_file |-> {}]
KeysAction ==
    [keys_rotate |-> {"no_backup"}, keys_list |-> {}, keys_export |-> {},
     keys_backup |-> {}]
AuthAction ==
    [auth_setup |-> {}, auth_list |-> {}, auth_show |-> {}, auth_remove |-> {"yes"}]
TagAction == [tag_add |-> {}, tag_remove |-> {}, tag_list |-> {}]
ComposeAction == [compose |-> {}]
GithubRunnerAction ==
    [runner_enable |-> {"yes"}, runner_disable |-> {"keep_vms"}, runner_status |-> {},
     runner_scale  |-> {}]
TemplateAction ==
    [template_create |-> {}, template_list |-> {}, template_delete |-> {"force"},
     template_export |-> {}, template_import |-> {}, template_show |-> {},
     template_apply  |-> {}]
AutopilotAction ==
    [autopilot_enable |-> {}, autopilot_disable |-> {"keep_config"},
     autopilot_status |-> {}, autopilot_config |-> {}, autopilot_run |-> {"dry_run"}]
DiskAction == [disk_check |-> {}, disk_add |-> {"mount"}]
IpAction == [ip_check |-> {"vm", "all"}]
WebAction == [web_start |-> {}, web_stop |-> {}]
CostsAction ==
    [costs_dashboard |-> {}, costs_history |-> {}, costs_budget |-> {},
     costs_recommend |-> {}, costs_actions |-> {"dry_run", "yes"}]
DoitAction ==
    [doit_deploy |-> {"dry_run", "yes"}, doit_status |-> {}, doit_list |-> {},
     doit_show   |-> {}, doit_cleanup |-> {"dry_run", "force"},
     doit_examples |-> {}]
SessionsAction ==
    [sessions_save |-> {}, sessions_load |-> {}, sessions_delete |-> {"force"},
     sessions_list |-> {}]

(* The second program of the crate.                                        *)
AzdoitCli == [azdoit |-> {"dry_run", "yes"}]

-----------------------------------------------------------------------------
Flags ==
    Language @@ New @@ Lifecycle @@ Access @@ Monitoring @@ Files @@ Editor @@ Own
      @@ GuiAction @@ VmAction @@ BastionAction @@ ConfigAction @@ HistoryAction
      @@ EnvAction @@ SnapshotAction @@ StorageAction @@ KeysAction @@ AuthAction
      @@ TagAction @@ ComposeAction @@ GithubRunnerAction @@ TemplateAction
      @@ AutopilotAction @@ DiskAction @@ IpAction @@ WebAction @@ CostsAction
      @@ DoitAction @@ SessionsAction @@ AzdoitCli

=============================================================================
