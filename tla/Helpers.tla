------------------------------- MODULE Helpers -------------------------------
(***************************************************************************)
(* What the handlers of several commands have in common (crate azlin:      *)
(* dispatch_helpers.rs and the small modules of each subject), in steps.   *)
(* What a check computes is left out; that it is made, when, and what its  *)
(* failure does to the command, is what a script says.                     *)
(***************************************************************************)
EXTENDS Steps

(* create_auth, resolve_resource_group.                                    *)
Login == Need("login")
Group == Need("resource group")

(* lookup_vm_disk_info; no size of the VM is an error also where only the  *)
(* disk is wanted.                                                         *)
OsDisk == Need("os disk")

(* resolve_vm_ssh_target: an address given with --ip needs no look-up.     *)
Target(f) == If("ip" \notin f, Login \o Group \o Need("vm") \o Need("address"))

(* resolve_vm_targets: one address, one VM, or every VM that runs.         *)
Targets(f) ==
    IF "ip" \in f THEN <<>>
    ELSE IF "vm" \in f THEN Target({})
    ELSE Login \o Group \o Need("list") \o Need("running vms")

(* A shared tunnel to a VM without an address; the one of its region.      *)
Route == When(Need("bastion") \o Need("tunnel"))

-----------------------------------------------------------------------------
(* validate_name, validate_storage_name, validate_mount_path,              *)
(* validate_env_key, validate_vm_prefix, validate_certificate_flags,       *)
(* validate_priority.                                                      *)
ValidName == Need("valid name")
ValidStorageName == Need("valid name")
ValidPath == Need("valid path")
ValidKey == Need("valid key")
ValidPrefix == Need("valid prefix")
ValidCertificate == Need("valid certificate")
ValidPriority == Need("valid priority")

(* secret_warning: a value that looks like a secret is asked about.        *)
SecretAsked(f) == When(AskUnless("force" \in f))

(* region_conflict: the pool's file names another region.                  *)
SameRegion == Need("same region")

(* conflicting_resource_groups: no command of a plan names another group.  *)
SameGroup == Need("same group")

(* classify_command: allowed prefixes, and patterns that are not.          *)
Allowed == Need("allowed")

(* plan_commands, over_iteration_limit.                                    *)
WithinLimit == Need("within limit")

-----------------------------------------------------------------------------
(* save_schedule *)
SaveSchedule == Make("schedule")

(* load_all_schedules, and those that are on; a schedule that does not     *)
(* parse is none.                                                          *)
EnabledSchedules == Find("enabled schedules")

(* check_snapshot_sync_needed: a list that cannot be had, or shows no      *)
(* snapshot of the interval, calls for s.                                  *)
IfDue(s) == OrStops(Noted(Need("list"))) \o When(s)

(* build_disk_mount_script: made once, the file system is kept.            *)
DiskMounted == When(Make("file system")) \o Make("mount") \o Make("fstab")

(* ensure_ssh_keypair: a pair, the public half of one written anew, or a   *)
(* new pair - but not over a file that is no half of one.                  *)
NewPair == Need("no half pair") \o Make("key")
KeyPair ==
    Unless("key", When(Item(Skips(Need("public half")) \o Past(NewPair)) \o NewPair))

(* find_preferred_pubkey *)
PublicKey == Need("public key")

(* parse_vm_keys, and a message if there are none.                         *)
VmKeys == Need("list") \o Need("parsed") \o Find("vms")

(* parse_idle_check, is_idle, classify_autopilot_vm: those to deallocate.  *)
IdleVms == Find("idle vms")

(* find_latest_release, and the best stable release among those there are. *)
Release == Need("release") \o Need("asset")

(* templates.rs: save, load, list, delete, import.                         *)
SaveTemplate == ValidName \o Make("template")
ImportTemplate == Need("parsed") \o SaveTemplate
LoadTemplate == ValidName \o Need("template") \o Need("read")
ListTemplates == Need("read")
RemoveTemplate == ValidName \o Need("template") \o Drop("template")

(* auth_profile::load *)
LoadProfile == ValidName \o Need("profile") \o Need("read")

(* A file of sessions.rs.                                                  *)
ReadSession == Need("session file") \o Need("read")

(* load_history *)
ReadHistory == Need("read")

=============================================================================
