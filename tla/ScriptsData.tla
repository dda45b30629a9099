----------------------------- MODULE ScriptsData -----------------------------
(***************************************************************************)
(* The handlers of azlin snapshot, storage, keys, disk add, ip, web and    *)
(* bastion (crate azlin: cmd_snapshot*.rs, cmd_storage*.rs, cmd_keys.rs,   *)
(* cmd_network*.rs), as scripts.  f is the set of flags that were given.   *)
(***************************************************************************)
EXTENDS Helpers

-----------------------------------------------------------------------------
SnapshotCreate(f) == Group \o OsDisk \o Make("snapshot")
SnapshotList(f) == Group \o Need("list") \o Find("snapshots")

\* Altered: a disk that an earlier restore made is taken for a restore done.
SnapshotRestore_Done(f) ==
    Group \o AskUnless("force" \in f) \o Need("snapshot")
      \o IfThere("restored disk", Quit) \o Make("restored disk")
      \o Make("deallocated") \o Make("os disk swapped")
      \o OrStops(Noted(Make("started")))

(* The new disk takes the place of the old one, which stays in the group.  *)
SnapshotRestore(f) ==
    Group \o AskUnless("force" \in f) \o Need("snapshot") \o Make("restored disk")
      \o Make("deallocated") \o Make("os disk swapped")
      \o OrStops(Noted(Make("started")))

SnapshotDelete(f) == Group \o AskUnless("force" \in f) \o Drop("snapshot")

SnapshotEnable(f) == Group \o ValidName \o SaveSchedule

(* A schedule that cannot be read is removed, one there is not is not.     *)
SnapshotDisable(f) ==
    Group \o ValidName \o Either(SaveSchedule, When(Drop("schedule")))

(* Each schedule has a snapshot of its own, unless the last is recent; a   *)
(* list that fails shows none that is.                                     *)
SnapshotSync(f) ==
    Group \o EnabledSchedules
      \o Each(IfDue(Skips(OsDisk) \o OrStops(Skips(Make("snapshot")))))

SnapshotStatus(f) == Group

-----------------------------------------------------------------------------
StorageCreate(f) == Group \o Make("account")
StorageList(f) == Group \o Need("list")
StorageStatus(f) == Group \o Need("account")
StorageMount(f) == ValidStorageName \o ValidPath \o Target(f) \o Make("mount")
StorageDelete(f) == Group \o AskUnless("force" \in f) \o Drop("account")

(* The command on the VM ends with `; echo done`: it fails only if ssh does. *)
StorageUnmount(f) == Target(f) \o Need("ssh") \o Quiet(Drop("mount"))

(* Without a mount point the mount itself fails.                           *)
StorageMountFile(f) ==
    Group \o Need("account key") \o OrStops(Noted(Make("mount point")))
      \o Need("credentials file") \o Make("mount")

StorageUnmountFile(f) == Drop("mount")

-----------------------------------------------------------------------------
KeysList(f) == Group \o ValidPrefix \o VmKeys

(* The key that goes is the azlin key of the last rotation, if there was   *)
(* one.  Without a list of the VMs the new key is deployed on none.        *)
KeysRotate(f) ==
    Group \o If("no_backup" \notin f, Make("backup"))
      \o IfThere("key", Drop("key")) \o Make("key")
      \o Item(OrStops(Passes(Need("list"))) \o Need("vms") \o PublicKey
                \o Noted(Each(Make("key deployed"))))

KeysExport(f) == PublicKey \o Make("copy")
KeysBackup(f) == Make("backup")

-----------------------------------------------------------------------------
(* --mount is checked first, since a disk is paid for whether or not it    *)
(* can be mounted.  The script on the VM formats, mounts, persists.        *)
DiskAdd(f) ==
    If("mount" \in f, ValidPath) \o Group \o Make("disk")
      \o If("mount" \in f, Target(f) \o DiskMounted)

(* attached_disks, run_probe, probe_vm_storage: names and LUNs that do not *)
(* tell which disk is which leave the state unknown.                       *)
AttachedDisks == Need("attached disks")
ProbeRun == Need("probe script") \o Need("ssh")
StorageProbed ==
    Group \o Login \o AttachedDisks \o Need("disk roles") \o When(Target({}) \o ProbeRun)

(* An exit code for each state; only healthy and no disks end well.        *)
DiskCheck(f) == StorageProbed \o Need("healthy")

IpCheck(f) ==
    Group \o If("all" \in f /\ "vm" \in f, Bail)
      \o IF "vm" \in f THEN Login \o Need("vm")
         ELSE IF "all" \in f THEN Login \o Need("list") \o Need("vms") ELSE Bail

(* The server runs until it ends, and its exit code is the command's.      *)
WebStart(f) ==
    Need("pwa directory") \o When(Make("env file")) \o Make("server") \o Make("pid file")
      \o Quiet(Drop("pid file")) \o Need("server ended well")

WebStop(f) ==
    Find("pid file") \o Need("read") \o When(OrStops(Quiet(Drop("server"))))
      \o Quiet(Drop("pid file"))

BastionList(f) == Need("list")
BastionStatus(f) == Need("bastion")
BastionConfigure(f) == Group \o Need("mappings") \o Make("mapping")

(* What pgrep finds is killed, and counted whether or not it could be.     *)
BastionSweep(f) == Find("pgrep") \o Find("processes") \o Each(Quiet(Drop("process")))

-----------------------------------------------------------------------------
(* The dispatch of each file.                                              *)
SnapshotScripts(f) ==
    [snapshot_create  |-> SnapshotCreate(f),   snapshot_list |-> SnapshotList(f),
     snapshot_restore |-> SnapshotRestore(f),  snapshot_delete |-> SnapshotDelete(f),
     snapshot_enable  |-> SnapshotEnable(f),   snapshot_disable |-> SnapshotDisable(f),
     snapshot_sync    |-> SnapshotSync(f),     snapshot_status |-> SnapshotStatus(f)]

StorageScripts(f) ==
    [storage_create   |-> StorageCreate(f),    storage_list |-> StorageList(f),
     storage_status   |-> StorageStatus(f),    storage_delete |-> StorageDelete(f),
     storage_mount    |-> StorageMount(f),     storage_unmount |-> StorageUnmount(f),
     storage_mount_file |-> StorageMountFile(f),
     storage_unmount_file |-> StorageUnmountFile(f)]

KeysScripts(f) ==
    [keys_list   |-> KeysList(f),   keys_rotate |-> KeysRotate(f),
     keys_export |-> KeysExport(f), keys_backup |-> KeysBackup(f)]

NetworkScripts(f) ==
    [disk_add     |-> DiskAdd(f),     ip_check |-> IpCheck(f),
     disk_check   |-> DiskCheck(f),
     web_start    |-> WebStart(f),    web_stop |-> WebStop(f),
     bastion_list |-> BastionList(f), bastion_status |-> BastionStatus(f),
     bastion_configure |-> BastionConfigure(f), bastion_sweep |-> BastionSweep(f)]

=============================================================================
