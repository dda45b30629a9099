------------------------------- MODULE DataDisks -------------------------------
(***************************************************************************)
(* The data disks of one VM as azlin lays them out: disk_layout.rs and the *)
(* disk sections of cloud_init.rs, both of which generate shell that runs  *)
(* on the VM.  A role's disk sits at a LUN, its file system is mounted at  *)
(* the role's backing path, a subdirectory of that path is bind-mounted    *)
(* over /home/<user> (role "home") or /tmp (role "tmp"), and two lines of  *)
(* /etc/fstab make both mounts come back.                                  *)
(*                                                                         *)
(* The module holds the VM: its mounts, the directories a home can be in,  *)
(* the cloud-init script of the first boot, the repair scripts that ssh    *)
(* sessions started, the user who writes into the home, and what goes      *)
(* wrong with them.  DiskRepair adds the command that starts the scripts.  *)
(*                                                                         *)
(* A home can be in four directories: "os" is /home/<user> on the OS disk, *)
(* "old" is /home/<user>.old, "disk" is <backing>/<user> on the data disk, *)
(* and "under" is that same path while the data disk is not mounted, which *)
(* then lies on the OS disk.  What /tmp holds is disposable and left out.  *)
(***************************************************************************)
EXTENDS Integers, FiniteSets

CONSTANTS
    Roles,       \* the data disks the VM was created with, of "home" and "tmp"
    Slots,       \* repair scripts that can run on the VM at a time
    HomeFiles,   \* what the home holds when the VM first boots
    UserFiles,   \* what the user writes later
    MaxMkfs,     \* bound: file systems azlin makes
    MaxTrouble   \* bound: failing commands, signals, kills and reboots

ASSUME ConstantsAssumption ==
    /\ Roles \subseteq {"home", "tmp"} /\ HomeFiles # {} /\ HomeFiles \cap UserFiles = {}
    /\ IsFiniteSet(HomeFiles) /\ IsFiniteSet(UserFiles)
    /\ MaxMkfs \in Nat /\ MaxTrouble \in Nat

Foreign == -1    \* a file system, or a partition table, azlin did not make
Blank   == 0     \* no file system; azlin's are numbered from 1, as by UUID
Places  == {"os", "old", "under", "disk"}

VARIABLES
    device,   \* the roles whose LUN has a block device
    foreign,  \* the roles whose disk held something before azlin saw it
    fs,       \* role -> Foreign, Blank or the file system's number
    made,     \* file systems made so far
    mounted,  \* roles whose backing path is mounted
    bound,    \* role -> what is bind-mounted over its target: "no", "disk", "under"
    fstab,    \* role -> its lines: the UUIDs, and whether the bind is there
    dirs,     \* the places that exist
    files,    \* place -> what it holds
    marker,   \* the copy's record of itself in each backing root
    boot,     \* the cloud-init script
    ledger,   \* section -> its row in provisioning.tsv
    status,   \* provisioning-status
    script,   \* the repair scripts
    trouble,  \* what has gone wrong so far, counted
    written,  \* history: what the user has written
    late,     \* history: written to "os" since a copy of that home was verified
    copier,   \* history: who first copied a home into the bind source
    consent,  \* history: roles whose reformat an operator has confirmed
    erased,   \* history: files on a disk that was reformatted with consent
    stranded  \* history: the home was cut off in a way azlin cannot undo

fixed   == <<device, foreign, written>>    \* what azlin does not change
disks   == <<fs, made, consent, erased>>
mounts  == <<mounted, bound, fstab>>
homes   == <<dirs, files, marker, late, copier>>
booting == <<boot, ledger, status>>
vmVars  == <<fixed, disks, mounts, homes, booting, script, trouble, stranded>>

Idle == [at |-> "idle", role |-> "none", reform |-> FALSE, stage |-> "none", moved |-> FALSE, heard |-> FALSE]

-----------------------------------------------------------------------------
(* Paths and the layout. *)

Backing(r) == IF r \in mounted THEN "disk" ELSE "under"
HomeBind   == IF "home" \in Roles THEN bound["home"] ELSE "no"
Shown      == IF HomeBind = "no" THEN "os" ELSE HomeBind
Content(p) == IF p \in dirs THEN files[p] ELSE {}

Persisted(r) == fs[r] \in fstab[r].uuids /\ fstab[r].bind

\* What the read-only probe finds of a disk; a bind of a directory that lies
\* on another disk is none.
Probe(r) == [device |-> r \in device, empty |-> fs[r] = Blank, backing |-> r \in mounted,
             bind |-> bound[r] = "disk"]

\* How far the layout got on a disk, as the report of the probe has it.
Stage(r) ==
    IF ~Probe(r).device       THEN "absent"
    ELSE IF Probe(r).empty    THEN "raw"
    ELSE IF ~Probe(r).backing THEN "formatted"
    ELSE IF ~Probe(r).bind    THEN "backing-mounted" ELSE "healthy"

\* mkfs.ext4 -F: it refuses a mounted device; what the disk held is gone.
Mkfs(r) ==
    /\ r \notin mounted /\ made < MaxMkfs
    /\ made' = made + 1 /\ fs' = [fs EXCEPT ![r] = made + 1]
    /\ IF r = "home"
         THEN /\ dirs' = dirs \ {"disk"} /\ files' = [files EXCEPT !["disk"] = {}]
              /\ marker' = [marker EXCEPT !["disk"] = "none"] /\ copier' = "nobody"
         ELSE UNCHANGED <<dirs, files, marker, copier>>

Rename(from, to) ==
    /\ dirs' = (dirs \ {from}) \cup {to}
    /\ files' = [files EXCEPT ![to] = files[from], ![from] = {}]

MakeDir(p) == dirs' = dirs \cup {p} /\ UNCHANGED files

Wrong == trouble < MaxTrouble /\ trouble' = trouble + 1

-----------------------------------------------------------------------------
(* cloud-init, at the first boot.  Each section stops at its first failing *)
(* command, has its outcome recorded, and lets the next one run.           *)

Section == IF "home" \in boot.todo THEN "home" ELSE IF "tmp" \in boot.todo THEN "tmp" ELSE "net"

Step(at, next) == boot.at = at /\ boot' = [boot EXCEPT !.at = next]
\* Altered: errexit is suspended, so the row is that of the last command.
Ends_LastCommand(row) ==
    /\ ledger' = [ledger EXCEPT ![Section] = "ok"]
    /\ boot' = [at |-> IF Section = "net" THEN "finalize" ELSE "wait", todo |-> boot.todo \ {Section}]
Ends(row) ==
    /\ ledger' = [ledger EXCEPT ![Section] = row]
    /\ boot' = [at |-> IF Section = "net" THEN "finalize" ELSE "wait", todo |-> boot.todo \ {Section}]

BootMkfs ==
    /\ Section \in device /\ Step("wait", "mount") /\ Mkfs(Section)
    /\ UNCHANGED <<fixed, consent, erased, mounts, late, ledger, status, script, trouble, stranded>>

BootMount ==
    /\ Step("mount", IF Section = "home" THEN "copy" ELSE "bind")
    /\ mounted' = mounted \cup {Section}
    /\ IF Section = "home" THEN MakeDir("disk") ELSE UNCHANGED <<dirs, files>>
    /\ UNCHANGED <<fixed, disks, bound, fstab, marker, late, copier, ledger, status, script, trouble, stranded>>

BootCopy ==
    /\ Step("copy", "swap")
    /\ files' = [files EXCEPT !["disk"] = @ \cup files["os"]] /\ copier' = "cloud-init"
    /\ UNCHANGED <<fixed, disks, mounts, dirs, marker, late, ledger, status, script, trouble, stranded>>

BootSwap ==
    /\ Step("swap", "mkdir") /\ Rename("os", "old")
    /\ UNCHANGED <<fixed, disks, mounts, marker, late, copier, ledger, status, script, trouble, stranded>>

BootMkdir ==
    /\ Step("mkdir", "bind") /\ MakeDir("os")
    /\ UNCHANGED <<fixed, disks, mounts, marker, late, copier, ledger, status, script, trouble, stranded>>

BootBind ==
    /\ Step("bind", "persist") /\ bound' = [bound EXCEPT ![Section] = "disk"]
    /\ UNCHANGED <<fixed, disks, mounted, fstab, homes, ledger, status, script, trouble, stranded>>

BootPersist ==
    /\ Step("persist", "clean")
    /\ fstab' = [fstab EXCEPT ![Section] = [uuids |-> @.uuids \cup {fs[Section]}, bind |-> TRUE]]
    /\ UNCHANGED <<fixed, disks, mounted, bound, homes, ledger, status, script, trouble, stranded>>

\* rm -rf of the original; the tmp section has none.
BootClean ==
    /\ boot.at = "clean" /\ Ends("ok")
    /\ IF Section = "home" THEN dirs' = dirs \ {"old"} /\ files' = [files EXCEPT !["old"] = {}]
                           ELSE UNCHANGED <<dirs, files>>
    /\ UNCHANGED <<fixed, disks, mounts, marker, late, copier, status, script, trouble, stranded>>

\* The home section's EXIT trap, set once the original has been moved.
RollBack ==
    IF boot.at \in {"mkdir", "bind", "persist", "clean"} /\ Section = "home" /\ HomeBind = "no"
      THEN Rename("old", "os") ELSE UNCHANGED <<dirs, files>>

\* A command of a section fails; a copy stops wherever it has got to.
SectionFails ==
    /\ Section # "net" /\ boot.at \notin {"clean", "finalize", "done", "dead"}
    /\ IF boot.at = "wait" /\ Section \notin device THEN UNCHANGED trouble ELSE Wrong
    /\ Ends("failed")
    /\ IF boot.at = "copy"
         THEN \E part \in SUBSET files["os"] :
                /\ files' = [files EXCEPT !["disk"] = part] /\ UNCHANGED dirs
                /\ copier' = IF part = {} THEN "nobody" ELSE "cloud-init"
         ELSE RollBack /\ UNCHANGED copier
    /\ UNCHANGED <<fixed, disks, mounts, marker, late, status, script, stranded>>

\* The tools: those that need the archive are skipped when both of its users
\* failed.  Their rows are one row here, the worst of them.
Tools(update, install) ==
    IF update = "failed" /\ install = "failed" THEN {"skipped", "failed"} ELSE {"ok", "failed"}

\* The sections after the disks, none of which ends the script.
BootNet ==
    /\ boot.at = "wait" /\ Section = "net"
    /\ \E update, upgrade, install \in {"ok", "failed"} : \E tools \in Tools(update, install) :
         Ends(IF "failed" \in {update, upgrade, install, tools} THEN "failed" ELSE "ok")
    /\ UNCHANGED <<fixed, disks, mounts, homes, status, script, trouble, stranded>>

\* The EXIT trap of the whole script.
Finalize ==
    /\ Step("finalize", "done")
    /\ status' = IF \E row \in DOMAIN ledger : ledger[row] = "failed" THEN "degraded" ELSE "ok"
    /\ UNCHANGED <<fixed, disks, mounts, homes, ledger, script, trouble, stranded>>

CloudInit ==
    \/ BootMkfs \/ BootMount \/ BootCopy \/ BootSwap \/ BootMkdir \/ BootBind \/ BootPersist
    \/ BootClean \/ SectionFails \/ BootNet \/ Finalize

-----------------------------------------------------------------------------
(* A repair script: the steps below the stage the probe found, each run    *)
(* under set -e.  A script whose connection is gone is not told of it.     *)

Home(s)  == script[s].role = "home"
At(s, at) == script[s].at = at
Goto(s, at) == script' = [script EXCEPT ![s].at = at]
Exit(s, rc) == script' = [script EXCEPT ![s] = IF @.heard THEN [@ EXCEPT !.at = rc] ELSE Idle]

\* Format, guarded by blkid unless the operator forced and confirmed it.
Format(s) == LET r == script[s].role IN
    /\ At(s, "format")
    /\ IF r \in device /\ (script[s].reform \/ (script[s].stage = "raw" /\ fs[r] = Blank))
         THEN /\ Mkfs(r) /\ Goto(s, "mount")
              /\ erased' = IF r = "home" /\ script[s].reform THEN erased \cup files["disk"] ELSE erased
         ELSE /\ Goto(s, IF script[s].stage \in {"raw", "formatted"} THEN "mount" ELSE "source")
              /\ r \in device /\ ~script[s].reform
              /\ UNCHANGED <<fs, made, erased, dirs, files, marker, copier>>
    /\ UNCHANGED <<fixed, consent, mounts, late, booting, trouble, stranded>>

MountBacking(s) == LET r == script[s].role IN
    /\ At(s, "mount") /\ r \notin mounted /\ fs[r] > Blank
    /\ mounted' = mounted \cup {r} /\ Goto(s, "source")
    /\ UNCHANGED <<fixed, disks, bound, fstab, homes, booting, trouble, stranded>>

\* Altered: whatever the source holds is taken for a whole home.
MakeSource_EmptyOnly(s) == LET p == Backing("home") IN
    /\ At(s, "source")
    /\ IF ~Home(s) THEN Goto(s, "bind") /\ UNCHANGED <<dirs, marker>>
       ELSE /\ dirs' = dirs \cup {p}
            /\ Goto(s, IF files[p] = {} THEN "copy" ELSE "move") /\ UNCHANGED marker
    /\ UNCHANGED <<fixed, disks, mounts, files, late, copier, booting, trouble, stranded>>

\* mkdir of the bind source, and the decision whether to copy into it.
\* The stage says that the backing is mounted; nothing here looks again.
MakeSource(s) == LET p == Backing("home") IN
    /\ At(s, "source")
    /\ IF ~Home(s) THEN Goto(s, "bind") /\ UNCHANGED <<dirs, marker>>
       ELSE /\ dirs' = dirs \cup {p}
            /\ IF files[p] = {} \/ marker[p] = "in-progress"
                 THEN Goto(s, "copy") /\ marker' = [marker EXCEPT ![p] = "in-progress"]
                 ELSE Goto(s, "move") /\ UNCHANGED marker
    /\ UNCHANGED <<fixed, disks, mounts, files, late, copier, booting, trouble, stranded>>

CopyOne(s) == LET p == Backing("home") IN
    /\ At(s, "copy") /\ Shown \in dirs /\ p \in dirs
    /\ \E f \in files[Shown] \ files[p] :
         /\ files' = [files EXCEPT ![p] = @ \cup {f}]
         /\ copier' = IF files[p] = {} THEN "repair" ELSE copier
    /\ UNCHANGED <<fixed, disks, mounts, dirs, marker, late, booting, script, trouble, stranded>>

CopyEnds(s) ==
    /\ At(s, "copy") /\ Shown \in dirs /\ files[Shown] \subseteq Content(Backing("home")) /\ Goto(s, "verify")
    /\ UNCHANGED <<fixed, disks, mounts, homes, booting, trouble, stranded>>

\* The entries are counted on both sides; where there is an rsync, its dry run
\* finds what is missing all the same.  A home that was made anew, while the one
\* the copy was made of is at .old, is not the copy's original.
Verify(s) == LET p == Backing("home") IN
    /\ At(s, "verify")
    /\ \/ /\ Cardinality(Content(p)) = Cardinality(Content(Shown))
          /\ Goto(s, "move") /\ marker' = [marker EXCEPT ![p] = "complete"]
          /\ late' = IF Shown = "os" /\ "old" \notin dirs THEN {} ELSE late
       \/ /\ Cardinality(Content(p)) # Cardinality(Content(Shown)) \/ ~(Content(Shown) \subseteq Content(p))
          /\ Exit(s, "failed") /\ UNCHANGED <<marker, late>>
    /\ UNCHANGED <<fixed, disks, mounts, dirs, files, copier, booting, trouble, stranded>>

\* Altered: it does not look for the .old of an earlier repair.
Move_OverOld(s) ==
    /\ At(s, "move")
    /\ IF Content(Shown) = {} THEN Goto(s, "mkdir") /\ UNCHANGED <<dirs, files>>
       ELSE IF Shown # "os" THEN Exit(s, "failed") /\ UNCHANGED <<dirs, files>>
       ELSE Rename("os", "old") /\ script' = [script EXCEPT ![s].at = "mkdir", ![s].moved = TRUE]
    /\ UNCHANGED <<fixed, disks, mounts, marker, late, copier, booting, trouble, stranded>>

\* The trap is armed; a home that holds something is moved aside, unless
\* .old is taken or the home is a mount point.
Move(s) ==
    /\ At(s, "move")
    /\ IF Content(Shown) = {} THEN Goto(s, "mkdir") /\ UNCHANGED <<dirs, files>>
       ELSE IF "old" \in dirs \/ Shown # "os" THEN Exit(s, "failed") /\ UNCHANGED <<dirs, files>>
       ELSE Rename("os", "old") /\ script' = [script EXCEPT ![s].at = "mkdir", ![s].moved = TRUE]
    /\ UNCHANGED <<fixed, disks, mounts, marker, late, copier, booting, trouble, stranded>>

MakeTarget(s) ==
    /\ At(s, "mkdir") /\ MakeDir(Shown) /\ Goto(s, "bind")
    /\ UNCHANGED <<fixed, disks, mounts, marker, late, copier, booting, trouble, stranded>>

Bind(s) == LET r == script[s].role IN
    /\ At(s, "bind") /\ (Home(s) => {Backing(r), "os"} \subseteq dirs)
    /\ bound' = [bound EXCEPT ![r] = Backing(r)] /\ Goto(s, "fstab")
    /\ UNCHANGED <<fixed, disks, mounted, fstab, homes, booting, trouble, stranded>>

PersistDisk(s) == LET r == script[s].role IN
    /\ At(s, "fstab") /\ r \in device /\ fs[r] > Blank
    /\ fstab' = [fstab EXCEPT ![r].uuids = @ \cup {fs[r]}] /\ Goto(s, "fstab-bind")
    /\ UNCHANGED <<fixed, disks, mounted, bound, homes, booting, trouble, stranded>>

PersistBind(s) ==
    /\ At(s, "fstab-bind")
    /\ fstab' = [fstab EXCEPT ![script[s].role].bind = TRUE] /\ Goto(s, "mount-a")
    /\ UNCHANGED <<fixed, disks, mounted, bound, homes, booting, trouble, stranded>>

\* What mounting by fstab brings up that is not up.
ByFstab(up) == up \cup {r \in device : fs[r] \in fstab[r].uuids}
BindsBy(up) == [r \in Roles |->
    LET p == IF r \in up THEN "disk" ELSE "under"
    IN  IF bound[r] = "no" /\ fstab[r].bind /\ (r = "home" => {p, "os"} \subseteq dirs) THEN p ELSE bound[r]]

StaleLine == \E r \in Roles : \E u \in fstab[r].uuids : u # fs[r]

\* mount -a skips what is mounted; then both mount points are looked at and
\* findmnt --verify reads the file, which may object to a UUID that is gone.
MountAll(s) == LET r == script[s].role IN
    /\ At(s, "mount-a")
    /\ mounted' = ByFstab(mounted) /\ bound' = BindsBy(mounted')
    /\ \/ r \in mounted' /\ bound'[r] # "no" /\ Exit(s, "ok")
       \/ (r \notin mounted' \/ bound'[r] = "no" \/ StaleLine) /\ Exit(s, "failed")
    /\ UNCHANGED <<fixed, disks, fstab, homes, booting, trouble, stranded>>

\* Altered: there is no trap.
Restore_Never(s) == UNCHANGED <<dirs, files>>

\* azlin_restore_target: put the original back, where an empty directory is.
Restore(s) ==
    IF script[s].moved /\ HomeBind = "no" /\ "os" \in dirs /\ files["os"] = {} /\ "old" \in dirs
      THEN Rename("old", "os") ELSE UNCHANGED <<dirs, files>>

Armed(s) == script[s].at \in {"mkdir", "bind"}
Running(s) == script[s].at \notin {"idle", "ok", "failed"}
Swapping(s) == Home(s) /\ script[s].at \in {"mkdir", "bind", "fstab", "fstab-bind"}

\* What cannot work: no device, a file system mounted or not to be mounted,
\* a home or a source that is not there.
Stuck(s) == LET r == script[s].role IN
    \/ r \notin device
    \/ At(s, "format") /\ script[s].reform /\ r \in mounted
    \/ At(s, "mount") /\ (r \in mounted \/ fs[r] <= Blank)
    \/ At(s, "copy") /\ ~({Shown, Backing(r)} \subseteq dirs)
    \/ At(s, "bind") /\ Home(s) /\ ~({Backing(r), "os"} \subseteq dirs)

\* A command fails, or the script dies of its broken pipe: the EXIT trap runs.
\* rmdir cannot restore a home whose target has not been made again yet.
ScriptFails(s) ==
    /\ Running(s) /\ IF Stuck(s) THEN UNCHANGED trouble ELSE Wrong
    /\ Exit(s, "failed")
    /\ IF Armed(s) THEN Restore(s) ELSE UNCHANGED <<dirs, files>>
    /\ stranded' = (stranded \/ (Home(s) /\ script[s].at \in {"mkdir", "fstab", "fstab-bind"}))
    /\ UNCHANGED <<fixed, disks, mounts, marker, late, copier, booting>>

\* HUP, INT or TERM with the trap armed: it runs and the script goes on.
Signalled(s) ==
    /\ Running(s) /\ Armed(s) /\ Home(s) /\ Wrong /\ Restore(s)
    /\ UNCHANGED <<fixed, disks, mounts, marker, late, copier, booting, script, stranded>>

Killed(s) ==
    /\ Running(s) /\ Wrong /\ Exit(s, "failed") /\ stranded' = (stranded \/ Swapping(s))
    /\ UNCHANGED <<fixed, disks, mounts, homes, booting>>

Repair(s) ==
    \/ Format(s) \/ MountBacking(s) \/ MakeSource(s) \/ CopyOne(s) \/ CopyEnds(s) \/ Verify(s) \/ Move(s)
    \/ MakeTarget(s) \/ Bind(s) \/ PersistDisk(s) \/ PersistBind(s) \/ MountAll(s)
    \/ ScriptFails(s) \/ Signalled(s) \/ Killed(s)

-----------------------------------------------------------------------------
(* The user and the machine. *)

\* azlin new lets nobody in before cloud-init has ended.
Ready == boot.at \in {"done", "dead"}

Write ==
    /\ Ready /\ Shown \in dirs
    /\ \E f \in UserFiles \ written :
         /\ files' = [files EXCEPT ![Shown] = @ \cup {f}] /\ written' = written \cup {f}
         /\ late' = IF Shown = "os" THEN late \cup {f} ELSE late
    /\ UNCHANGED <<device, foreign, disks, mounts, dirs, marker, copier, booting, script, trouble, stranded>>

\* Everything stops; fstab says what comes up.  systemd makes a bind wait for
\* the mount its source is on, and nofail lets the boot go on without either.
Reboot ==
    /\ Wrong
    /\ mounted' = ByFstab({})
    /\ bound' = [r \in Roles |-> IF fstab[r].bind /\ r \in mounted' /\ (r = "home" => "disk" \in dirs)
                                   THEN "disk" ELSE "no"]
    /\ script' = [s \in Slots |-> IF script[s].heard THEN [script[s] EXCEPT !.at = "failed"] ELSE Idle]
    /\ boot' = [boot EXCEPT !.at = IF @ = "done" THEN @ ELSE "dead"]
    /\ stranded' = (stranded \/ ("home" \in Roles /\ "old" \in dirs /\ ~(bound["home"] = "disk" /\ Persisted("home"))))
    /\ UNCHANGED <<fixed, disks, fstab, homes, ledger, status>>

\* The VM is new, with blank disks and its cloud-init script before it, or it
\* is one whose script died before the disks: that one may have disks attached
\* that hold something.
VmInit ==
    /\ device \in SUBSET Roles
    /\ \E at \in {"wait", "dead"} :
         /\ boot = [at |-> at, todo |-> Roles]
         /\ foreign \in SUBSET (IF at = "dead" THEN device ELSE {})
    /\ fs = [r \in Roles |-> IF r \in foreign THEN Foreign ELSE Blank] /\ made = 0
    /\ mounted = {} /\ bound = [r \in Roles |-> "no"]
    /\ fstab = [r \in Roles |-> [uuids |-> {}, bind |-> FALSE]]
    /\ dirs = {"os"} /\ files = [p \in Places |-> IF p = "os" THEN HomeFiles ELSE {}]
    /\ marker = [p \in {"under", "disk"} |-> "none"]
    /\ ledger = [x \in Roles \cup {"net"} |-> "none"] /\ status = "unknown"
    /\ script = [s \in Slots |-> Idle] /\ trouble = 0
    /\ written = {} /\ late = {} /\ copier = "nobody" /\ consent = {} /\ erased = {} /\ stranded = FALSE

VmNext == CloudInit \/ (\E s \in Slots : Repair(s)) \/ Write \/ Reboot
=============================================================================
