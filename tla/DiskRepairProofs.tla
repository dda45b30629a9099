--------------------------- MODULE DiskRepairProofs ---------------------------
(***************************************************************************)
(* Proofs about DiskRepair, for any set of data disks, any number of       *)
(* repair scripts left running, any files and any bounds: nothing that was *)
(* in the home is lost (DataIsKept), an ok of azlin disk repair holds at   *)
(* every later boot (OkSurvivesReboot), and so does status=ok of           *)
(* cloud-init (StatusIsEarned); the home is there (HomeIsReachable), and   *)
(* what a repair has bound over it is whole (HomeIsWhole).                 *)
(*                                                                         *)
(* None of the five is inductive.  The invariant says besides: where the   *)
(* home is at every step of cloud-init's section (BootInv); that a disk    *)
(* that is mounted carries a file system azlin made, and a bind shows a    *)
(* disk that is mounted (DiskInv); that a place which holds something      *)
(* exists, and that the first home is on the OS disk or on a disk that no  *)
(* mkfs can reach any more (DataInv); that a script which reformats has    *)
(* the consent to (ScriptInv, CmdInv); and, for OkSurvivesReboot, that no  *)
(* script which lost its connection can make a file system on a disk that  *)
(* the script azlin listens to has already written to fstab (OkInv).       *)
(*                                                                         *)
(* As long as the home is not cut off for good and nothing lies beneath a  *)
(* mount point (Sane), an empty home has been moved aside by a script that *)
(* still runs, or its bind comes back at the next boot (Reach); and a copy *)
(* that a repair began is covered by nothing before it was verified, holds *)
(* nothing until then that its original lacks, and lacks nothing after it  *)
(* (CopyInv).                                                              *)
(***************************************************************************)
EXTENDS DiskRepair, TLAPS, FiniteSetTheorems

-----------------------------------------------------------------------------
(* The inductive invariant. *)

AllFiles == HomeFiles \cup UserFiles
Stages   == {"none", "absent", "raw", "formatted", "backing-mounted", "healthy"}
ToBuild  == {"raw", "formatted", "backing-mounted"}
Seeds    == {"wait", "mount", "copy", "swap", "mkdir", "bind", "persist", "clean", "finalize", "done", "dead"}
HomeAts  == {"copy", "verify", "move", "mkdir"}
Past     == HomeAts \cup {"source", "bind", "fstab", "fstab-bind", "mount-a"}
ScriptAts == Past \cup {"idle", "format", "mount", "ok", "failed"}

Script == [at : ScriptAts, role : Roles \cup {"none"}, reform : BOOLEAN, stage : Stages,
           moved : BOOLEAN, heard : BOOLEAN]
Cmd == [at : {"idle", "confirm", "run", "wait"}, stages : [Roles -> Stages], force : BOOLEAN,
        todo : SUBSET Roles, ran : SUBSET Roles, failed : BOOLEAN,
        verdict : {"none", "ok", "bail", "declined"}]

TypeOK ==
    /\ device \subseteq Roles /\ foreign \subseteq device
    /\ fs \in [Roles -> Int] /\ made \in Nat
    /\ mounted \subseteq Roles /\ bound \in [Roles -> {"no", "disk", "under"}]
    /\ fstab \in [Roles -> [uuids : SUBSET (Nat \ {0}), bind : BOOLEAN]]
    /\ dirs \subseteq Places /\ files \in [Places -> SUBSET AllFiles]
    /\ marker \in [{"under", "disk"} -> {"none", "in-progress", "complete"}]
    /\ boot \in [at : Seeds, todo : SUBSET Roles]
    /\ ledger \in [Roles \cup {"net"} -> {"none", "ok", "failed"}]
    /\ status \in {"unknown", "ok", "degraded"}
    /\ script \in [Slots -> Script] /\ trouble \in Nat
    /\ written \subseteq UserFiles /\ late \subseteq AllFiles /\ copier \in {"nobody", "cloud-init", "repair"}
    /\ consent \subseteq Roles /\ erased \subseteq AllFiles /\ stranded \in BOOLEAN
    /\ cmd \in Cmd

\* A disk and its way back after a boot.
Durable(r) == r \in device /\ r \in mounted /\ Persisted(r)
Healthy(r) == Durable(r) /\ bound[r] = "disk"

\* What is mounted is a device with a file system of azlin's; what is bound
\* is mounted and there; the home's place on the disk is on such a system.
DiskInv ==
    /\ \A r \in mounted : r \in device /\ fs[r] > Blank
    /\ \A r \in Roles : bound[r] = "disk" => r \in mounted /\ (r = "home" => "disk" \in dirs)
    /\ "disk" \in dirs => "home" \in Roles /\ fs["home"] > Blank

\* The files the VM came with are on the OS disk, or on a home disk that is
\* mounted now and after every boot, and that nothing can reformat therefore.
HomeSafe ==
    \/ HomeFiles \subseteq files["os"] \cup files["old"]
    \/ "home" \in Roles /\ Durable("home") /\ HomeFiles \subseteq files["disk"]

Kept(f) == (\E p \in Places : f \in files[p]) \/ f \in erased

\* Nothing is lost.
DataInv ==
    /\ \A r \in foreign : fs[r] = Foreign \/ r \in consent
    /\ HomeSafe
    /\ \A f \in written : Kept(f)
    /\ \A p \in Places : files[p] # {} => p \in dirs

\* The scripts: what each place in one implies.
ScriptOk(s) ==
    /\ script[s].at = "idle" <=> script[s] = Idle
    /\ script[s].at \in {"ok", "failed"} => script[s].heard
    /\ Running(s) => script[s].role \in Roles /\ script[s].stage \in ToBuild
    /\ script[s].at \in Past \cup {"mount"} => script[s].role \in device
    /\ script[s].at \in HomeAts => Home(s)
    /\ script[s].moved => Home(s)
    /\ script[s].reform => script[s].stage = "formatted" /\ script[s].role \in consent

ScriptInv == \A s \in Slots : ScriptOk(s)

\* Where the home is at each step of cloud-init's home section.
HomeAt(at) ==
    CASE at \in {"wait", "mount"} -> dirs = {"os"} /\ HomeFiles \subseteq files["os"]
      [] at = "copy" -> dirs = {"os", "disk"} /\ HomeFiles \subseteq files["os"] /\ files["disk"] = {}
      [] at = "swap" -> dirs = {"os", "disk"} /\ HomeFiles \subseteq files["os"] /\ files["os"] \subseteq files["disk"]
      [] at = "mkdir" -> dirs = {"old", "disk"} /\ HomeFiles \subseteq files["old"] /\ files["old"] \subseteq files["disk"]
      [] OTHER -> /\ dirs = {"os", "old", "disk"} /\ files["os"] = {}
                  /\ HomeFiles \subseteq files["old"] /\ files["old"] \subseteq files["disk"]

\* How far the section of role r has come.
SectionAt(r, at) ==
    /\ at # "wait" => r \in device /\ fs[r] > Blank
    /\ at \in {"copy", "swap", "mkdir"} => r = "home"
    /\ at \notin {"wait", "mount"} => r \in mounted
    /\ bound[r] = IF at \in {"persist", "clean"} THEN "disk" ELSE "no"
    /\ at = "clean" => Persisted(r)

\* cloud-init is alone on the VM; a section that ended well left its disk
\* healthy.
BootInv ==
    /\ foreign # {} => boot.at = "dead"
    /\ status # "unknown" => boot.at = "done"
    /\ ~Ready =>
         /\ cmd = NoCmd /\ \A s \in Slots : script[s] = Idle
         /\ \A r \in Roles \ boot.todo : ledger[r] # "none" /\ (ledger[r] = "ok" => Healthy(r))
         /\ Section # "net" => SectionAt(Section, boot.at) /\ boot.at # "finalize"
         /\ Section = "net" => boot.at \in {"wait", "finalize"}
         /\ Section = "home" => HomeAt(boot.at)
         /\ \A r \in boot.todo \ {Section} : bound[r] = "no"

\* status=ok: nothing is left to repair.
StatusInv == status = "ok" =>
    /\ \A r \in Roles : Healthy(r)
    /\ cmd.at = "idle" /\ \A s \in Slots : script[s] = Idle

\* The command: what it builds for, and whose consent it has.
CmdInv ==
    /\ cmd.at # "idle" => Ready /\ \A r \in cmd.todo : cmd.stages[r] \in ToBuild
    /\ cmd.at \in {"run", "wait"} =>
         \A r \in cmd.todo : Reformats(r, cmd.stages[r], cmd.force) => r \in consent
    /\ cmd.at = "confirm" => cmd.ran = {}
    /\ cmd.verdict = "ok" => cmd.at = "idle"

\* No script but s of role r is running.
Alone(s, r) == \A t \in Slots \ {s} : script[t].role = r => ~Running(t)

\* The script azlin listens to.  From the mount on, its disk is mounted, or
\* was unmounted by a reboot that left no other script of that disk.
HeardOk(s) == LET r == script[s].role IN
    /\ cmd.at = "wait" /\ r \in cmd.ran \ cmd.todo
    /\ \A t \in Slots : script[t].heard => t = s
    /\ script[s].at = "ok" => Durable(r)
    /\ script[s].at \in {"fstab-bind", "mount-a"} => fs[r] \in fstab[r].uuids
    /\ script[s].at = "mount-a" => fstab[r].bind
    /\ script[s].at \in Past \/ (script[s].at = "format" /\ script[s].stage = "backing-mounted")
         => r \in mounted \/ Alone(s, r)

\* The same of a script that is still to be started.
TodoOk == cmd.at # "idle" => \A r \in cmd.todo : cmd.stages[r] = "backing-mounted"
    => r \in mounted \/ \A s \in Slots : script[s].role = r => ~Running(s)

\* As long as nothing has failed, what has been done is done for good.
RanOk ==
    (cmd.at \in {"run", "wait"} /\ ~cmd.failed) \/ cmd.verdict = "ok"
      => \A r \in cmd.ran : Durable(r) \/ \E s \in Slots : script[s].heard /\ script[s].role = r

VerdictOk == cmd.verdict = "ok" => \A r \in cmd.ran : bound[r] = "disk"

OkInv == (\A s \in Slots : script[s].heard => HeardOk(s)) /\ TodoOk /\ RanOk /\ VerdictOk

IInv == TypeOK /\ DiskInv /\ DataInv /\ ScriptInv /\ BootInv /\ StatusInv /\ CmdInv /\ OkInv

-----------------------------------------------------------------------------
(* What the helpers of the actions do to the records they change. *)

LEMMA IdleIsScript == Idle \in Script /\ Idle.at = "idle" /\ ~Idle.heard /\ ~Idle.moved /\ ~Idle.reform
  BY DEF Idle, Script, ScriptAts, Stages

LEMMA ScriptRecord ==
    ASSUME NEW t \in Script, NEW at
    PROVE  [t EXCEPT !.at = at] = [at |-> at, role |-> t.role, reform |-> t.reform,
                                   stage |-> t.stage, moved |-> t.moved, heard |-> t.heard]
  BY DEF Script

LEMMA ScriptFlags ==
    ASSUME NEW t \in Script
    PROVE  /\ [t EXCEPT !.heard = FALSE] = [at |-> t.at, role |-> t.role, reform |-> t.reform,
                                           stage |-> t.stage, moved |-> t.moved, heard |-> FALSE]
           /\ [t EXCEPT !.moved = TRUE] = [at |-> t.at, role |-> t.role, reform |-> t.reform,
                                          stage |-> t.stage, moved |-> TRUE, heard |-> t.heard]
  <1>1. ASSUME NEW v
        PROVE  /\ [t EXCEPT !.heard = v] = [at |-> t.at, role |-> t.role, reform |-> t.reform,
                                            stage |-> t.stage, moved |-> t.moved, heard |-> v]
               /\ [t EXCEPT !.moved = v] = [at |-> t.at, role |-> t.role, reform |-> t.reform,
                                           stage |-> t.stage, moved |-> v, heard |-> t.heard]
    BY DEF Script
  <1>. QED  BY <1>1

LEMMA GotoFacts ==
    ASSUME script \in [Slots -> Script], NEW s \in Slots, NEW at \in ScriptAts, Goto(s, at)
    PROVE  /\ script' \in [Slots -> Script]
           /\ \A t \in Slots \ {s} : script'[t] = script[t]
           /\ script'[s] = [at |-> at, role |-> script[s].role, reform |-> script[s].reform,
                            stage |-> script[s].stage, moved |-> script[s].moved, heard |-> script[s].heard]
  BY DEF Goto, Script

LEMMA MovedFacts ==
    ASSUME script \in [Slots -> Script], NEW s \in Slots,
           script' = [script EXCEPT ![s].at = "mkdir", ![s].moved = TRUE]
    PROVE  /\ script' \in [Slots -> Script]
           /\ \A t \in Slots \ {s} : script'[t] = script[t]
           /\ script'[s] = [at |-> "mkdir", role |-> script[s].role, reform |-> script[s].reform,
                            stage |-> script[s].stage, moved |-> TRUE, heard |-> script[s].heard]
  <1>. DEFINE u == [at |-> "mkdir", role |-> script[s].role, reform |-> script[s].reform,
                    stage |-> script[s].stage, moved |-> TRUE, heard |-> script[s].heard]
  <1>1. script[s] \in Script
    OBVIOUS
  <1>2. u \in Script
    BY <1>1 DEF Script, ScriptAts, Past, HomeAts
  <1>3. [script[s] EXCEPT !.at = "mkdir", !.moved = TRUE] = u
    <2>. DEFINE v == [script[s] EXCEPT !.at = "mkdir"]
    <2>1. v \in Script /\ v.at = "mkdir" /\ v.role = script[s].role /\ v.reform = script[s].reform
          /\ v.stage = script[s].stage /\ v.heard = script[s].heard
      BY <1>1, ScriptRecord DEF Script, ScriptAts, Past, HomeAts
    <2>2. [script[s] EXCEPT !.at = "mkdir", !.moved = TRUE] = [v EXCEPT !.moved = TRUE]
      OBVIOUS
    <2>. HIDE DEF v
    <2>. QED  BY <2>1, <2>2, ScriptFlags
  <1>4. script' = [script EXCEPT ![s] = [script[s] EXCEPT !.at = "mkdir", !.moved = TRUE]]
    OBVIOUS
  <1>5. script' = [script EXCEPT ![s] = u]
    BY <1>3, <1>4
  <1>6. script' \in [Slots -> Script] /\ script'[s] = u /\ \A t \in Slots \ {s} : script'[t] = script[t]
    <2>. HIDE DEF u
    <2>. QED  BY <1>2, <1>5
  <1>. QED  BY <1>6

LEMMA DropFacts ==
    ASSUME script \in [Slots -> Script], NEW s \in Slots,
           script' = [script EXCEPT ![s].heard = FALSE]
    PROVE  /\ script' \in [Slots -> Script]
           /\ \A t \in Slots \ {s} : script'[t] = script[t]
           /\ script'[s] = [at |-> script[s].at, role |-> script[s].role, reform |-> script[s].reform,
                            stage |-> script[s].stage, moved |-> script[s].moved, heard |-> FALSE]
  <1>. DEFINE u == [at |-> script[s].at, role |-> script[s].role, reform |-> script[s].reform,
                    stage |-> script[s].stage, moved |-> script[s].moved, heard |-> FALSE]
  <1>1. script[s] \in Script
    OBVIOUS
  <1>2. u \in Script
    BY <1>1 DEF Script
  <1>3. [script[s] EXCEPT !.heard = FALSE] = u
    BY <1>1, ScriptFlags
  <1>4. script' = [script EXCEPT ![s] = [script[s] EXCEPT !.heard = FALSE]]
    OBVIOUS
  <1>5. script' = [script EXCEPT ![s] = u]
    BY <1>3, <1>4
  <1>6. script' \in [Slots -> Script] /\ script'[s] = u /\ \A t \in Slots \ {s} : script'[t] = script[t]
    <2>. HIDE DEF u
    <2>. QED  BY <1>2, <1>5
  <1>. QED  BY <1>6

LEMMA ExitFacts ==
    ASSUME script \in [Slots -> Script], NEW s \in Slots, NEW rc \in {"ok", "failed"}, Exit(s, rc)
    PROVE  /\ script' \in [Slots -> Script]
           /\ \A t \in Slots \ {s} : script'[t] = script[t]
           /\ ~script[s].heard => script'[s] = Idle
           /\ script[s].heard => script'[s] =
                [at |-> rc, role |-> script[s].role, reform |-> script[s].reform,
                 stage |-> script[s].stage, moved |-> script[s].moved, heard |-> TRUE]
  <1>1. script' = [script EXCEPT ![s] = IF script[s].heard THEN [script[s] EXCEPT !.at = rc] ELSE Idle]
    BY DEF Exit
  <1>2. script[s] \in Script /\ [script[s] EXCEPT !.at = rc] \in Script
    BY DEF Script, ScriptAts
  <1>3. script[s].heard => [script[s] EXCEPT !.at = rc] =
          [at |-> rc, role |-> script[s].role, reform |-> script[s].reform,
           stage |-> script[s].stage, moved |-> script[s].moved, heard |-> TRUE]
    <2>1. script[s].heard => script[s].heard = TRUE
      BY <1>2 DEF Script
    <2>2. [script[s] EXCEPT !.at = rc] =
          [at |-> rc, role |-> script[s].role, reform |-> script[s].reform,
           stage |-> script[s].stage, moved |-> script[s].moved, heard |-> script[s].heard]
      BY <1>2 DEF Script
    <2>. QED  BY <2>1, <2>2
  <1>. QED  BY <1>1, <1>2, <1>3, IdleIsScript

\* The same, field by field.
LEMMA GotoFields ==
    ASSUME script \in [Slots -> Script], NEW s \in Slots, NEW at \in ScriptAts, Goto(s, at)
    PROVE  /\ \A t \in Slots \ {s} : script'[t] = script[t]
           /\ script'[s].at = at /\ script'[s].role = script[s].role /\ script'[s].stage = script[s].stage
           /\ (script'[s].heard <=> script[s].heard) /\ (script'[s].moved <=> script[s].moved)
           /\ (script'[s].reform <=> script[s].reform)
  <1>1. script'[s] = [at |-> at, role |-> script[s].role, reform |-> script[s].reform,
                      stage |-> script[s].stage, moved |-> script[s].moved, heard |-> script[s].heard]
    BY GotoFacts
  <1>. QED  BY <1>1, GotoFacts

LEMMA MovedFields ==
    ASSUME script \in [Slots -> Script], NEW s \in Slots,
           script' = [script EXCEPT ![s].at = "mkdir", ![s].moved = TRUE]
    PROVE  /\ \A t \in Slots \ {s} : script'[t] = script[t]
           /\ script'[s].at = "mkdir" /\ script'[s].role = script[s].role /\ script'[s].stage = script[s].stage
           /\ (script'[s].heard <=> script[s].heard) /\ script'[s].moved /\ (script'[s].reform <=> script[s].reform)
  <1>1. script'[s] = [at |-> "mkdir", role |-> script[s].role, reform |-> script[s].reform,
                      stage |-> script[s].stage, moved |-> TRUE, heard |-> script[s].heard]
    BY MovedFacts
  <1>2. /\ script'[s].at = "mkdir" /\ script'[s].role = script[s].role /\ script'[s].stage = script[s].stage
        /\ script'[s].heard = script[s].heard /\ script'[s].moved = TRUE /\ script'[s].reform = script[s].reform
    BY <1>1
  <1>3. \A t \in Slots \ {s} : script'[t] = script[t]
    BY MovedFacts
  <1>. QED  BY <1>2, <1>3

LEMMA ExitFields ==
    ASSUME script \in [Slots -> Script], NEW s \in Slots, NEW rc \in {"ok", "failed"}, Exit(s, rc)
    PROVE  /\ \A t \in Slots \ {s} : script'[t] = script[t]
           /\ \/ ~script[s].heard /\ script'[s] = Idle
              \/ /\ script[s].heard /\ script'[s].heard /\ script'[s].at = rc
                 /\ script'[s].role = script[s].role /\ script'[s].stage = script[s].stage
                 /\ (script'[s].moved <=> script[s].moved) /\ (script'[s].reform <=> script[s].reform)
  <1>1. script[s].heard \in BOOLEAN
    BY DEF Script
  <1>2. CASE ~script[s].heard
    BY <1>2, ExitFacts
  <1>3. CASE script[s].heard
    <2>1. script'[s] = [at |-> rc, role |-> script[s].role, reform |-> script[s].reform,
                        stage |-> script[s].stage, moved |-> script[s].moved, heard |-> TRUE]
      BY <1>3, ExitFacts
    <2>2. /\ script'[s].at = rc /\ script'[s].role = script[s].role /\ script'[s].stage = script[s].stage
          /\ script'[s].heard = TRUE /\ script'[s].moved = script[s].moved /\ script'[s].reform = script[s].reform
      BY <2>1
    <2>3. \A t \in Slots \ {s} : script'[t] = script[t]
      BY ExitFacts
    <2>. QED  BY <1>3, <2>2, <2>3
  <1>. QED  BY <1>1, <1>2, <1>3

LEMMA MkfsTyped ==
    ASSUME TypeOK, NEW r \in Roles, Mkfs(r)
    PROVE  /\ fs' \in [Roles -> Int] /\ made' \in Nat /\ dirs' \subseteq dirs
           /\ files' \in [Places -> SUBSET AllFiles]
           /\ marker' \in [{"under", "disk"} -> {"none", "in-progress", "complete"}]
           /\ copier' \in {"nobody", copier}
           /\ fs'[r] > Blank /\ \A q \in Roles \ {r} : fs'[q] = fs[q]
           /\ r \notin mounted
  BY DEF TypeOK, Mkfs, Places, Blank

LEMMA RenameTyped ==
    ASSUME TypeOK, NEW from \in Places, NEW to \in Places, from # to, Rename(from, to)
    PROVE  /\ dirs' \subseteq Places /\ dirs' = (dirs \ {from}) \cup {to}
           /\ files' \in [Places -> SUBSET AllFiles]
           /\ files'[to] = files[from] /\ files'[from] = {}
           /\ \A p \in Places \ {from, to} : files'[p] = files[p]
  BY DEF TypeOK, Rename, Places

LEMMA SectionFacts ==
    ASSUME TypeOK, BootInv, boot.at \notin {"wait", "finalize", "done", "dead"}
    PROVE  Section \in Roles /\ Section \in boot.todo /\ ~Ready /\ SectionAt(Section, boot.at)
           /\ (Section = "home" => HomeAt(boot.at))
  BY DEF TypeOK, BootInv, Section, Ready, Seeds

LEMMA RunningFacts ==
    ASSUME TypeOK, ScriptInv, NEW s \in Slots, Running(s)
    PROVE  /\ script[s] \in Script /\ script[s].role \in Roles /\ script[s].stage \in ToBuild
           /\ (Home(s) => "home" \in Roles)
  BY DEF TypeOK, ScriptInv, ScriptOk, Home

-----------------------------------------------------------------------------
(* Types. *)

LEMMA BootTyped == ASSUME TypeOK, BootInv, CloudInit, UNCHANGED cmd PROVE TypeOK'
  <1>. USE DEF fixed, disks, mounts, homes, Step
  <1>1. CASE BootMkfs
    <2>1. Section \in Roles
      BY <1>1 DEF BootMkfs, TypeOK
    <2>. QED  BY <1>1, <2>1, MkfsTyped DEF BootMkfs, TypeOK, Seeds
  <1>2. CASE BootMount
    <2>1. Section \in Roles
      BY <1>2, SectionFacts DEF BootMount
    <2>. QED  BY <1>2, <2>1 DEF BootMount, MakeDir, TypeOK, Seeds, Places
  <1>3. CASE BootCopy
    BY <1>3 DEF BootCopy, TypeOK, Seeds, Places
  <1>4. CASE BootSwap
    BY <1>4, RenameTyped DEF BootSwap, TypeOK, Seeds, Places
  <1>5. CASE BootMkdir
    BY <1>5 DEF BootMkdir, MakeDir, TypeOK, Seeds, Places
  <1>6. CASE BootBind
    <2>1. Section \in Roles
      BY <1>6, SectionFacts DEF BootBind
    <2>. QED  BY <1>6, <2>1 DEF BootBind, TypeOK, Seeds
  <1>7. CASE BootPersist
    <2>1. Section \in Roles /\ fs[Section] \in Nat \ {0}
      BY <1>7, SectionFacts DEF BootPersist, SectionAt, TypeOK, Blank
    <2>. QED  BY <1>7, <2>1 DEF BootPersist, TypeOK, Seeds
  <1>8. CASE BootClean
    <2>1. Section \in Roles
      BY <1>8, SectionFacts DEF BootClean
    <2>2. ledger' \in [Roles \cup {"net"} -> {"none", "ok", "failed"}] /\ boot' \in [at : Seeds, todo : SUBSET Roles]
      BY <1>8, <2>1 DEF BootClean, Ends, TypeOK, Seeds
    <2>3. dirs' \subseteq Places /\ files' \in [Places -> SUBSET AllFiles]
      <3>1. CASE Section = "home"
        <4>1. dirs' = dirs \ {"old"} /\ files' = [files EXCEPT !["old"] = {}]
          BY <1>8, <3>1 DEF BootClean
        <4>. QED  BY <4>1 DEF TypeOK, Places
      <3>2. CASE Section # "home"
        BY <1>8, <3>2 DEF BootClean, TypeOK
      <3>. QED  BY <3>1, <3>2
    <2>. QED  BY <1>8, <2>2, <2>3 DEF BootClean, TypeOK
  <1>9. CASE SectionFails
    <2>1. Section \in Roles
      BY <1>9, SectionFacts DEF SectionFails, TypeOK, Section
    <2>2. ledger' \in [Roles \cup {"net"} -> {"none", "ok", "failed"}] /\ boot' \in [at : Seeds, todo : SUBSET Roles]
      BY <1>9, <2>1 DEF SectionFails, Ends, TypeOK, Seeds
    <2>3. dirs' \subseteq Places /\ files' \in [Places -> SUBSET AllFiles] /\ copier' \in {"nobody", "cloud-init", "repair"}
      <3>1. CASE boot.at = "copy"
        <4>1. PICK part \in SUBSET files["os"] : files' = [files EXCEPT !["disk"] = part]
          BY <1>9, <3>1 DEF SectionFails
        <4>2. part \subseteq AllFiles
          BY <4>1 DEF TypeOK, Places
        <4>. QED  BY <1>9, <3>1, <4>1, <4>2 DEF SectionFails, TypeOK, Places
      <3>2. CASE boot.at # "copy"
        BY <1>9, <3>2, RenameTyped DEF SectionFails, RollBack, TypeOK, Places
      <3>. QED  BY <3>1, <3>2
    <2>4. trouble' \in Nat
      BY <1>9 DEF SectionFails, Wrong, TypeOK
    <2>. QED  BY <1>9, <2>2, <2>3, <2>4 DEF SectionFails, TypeOK
  <1>10. CASE BootNet
    BY <1>10 DEF BootNet, Ends, TypeOK, Seeds
  <1>11. CASE Finalize
    BY <1>11 DEF Finalize, TypeOK, Seeds
  <1>. QED  BY <1>1, <1>2, <1>3, <1>4, <1>5, <1>6, <1>7, <1>8, <1>9, <1>10, <1>11 DEF CloudInit

LEMMA ShownTyped ==
    ASSUME TypeOK
    PROVE  Shown \in Places /\ Shown \in {"os", "disk", "under"} /\ HomeBind \in {"no", "disk", "under"}
  BY DEF TypeOK, Shown, HomeBind, Places

LEMMA BackingTyped == ASSUME NEW r PROVE Backing(r) \in {"disk", "under"} /\ Backing(r) \in Places
  BY DEF Backing, Places

LEMMA RestoreTyped ==
    ASSUME TypeOK, NEW s \in Slots, Restore(s)
    PROVE  dirs' \subseteq Places /\ files' \in [Places -> SUBSET AllFiles]
  BY RenameTyped DEF Restore, Places, TypeOK

\* What mounting by fstab brings up.
LEMMA FstabTyped ==
    ASSUME TypeOK, NEW up \in SUBSET Roles
    PROVE  ByFstab(up) \in SUBSET Roles /\ BindsBy(up) \in [Roles -> {"no", "disk", "under"}]
  BY DEF TypeOK, ByFstab, BindsBy

LEMMA RepairTyped ==
    ASSUME TypeOK, ScriptInv, DiskInv, NEW s \in Slots, Repair(s), UNCHANGED cmd
    PROVE  TypeOK'
  <1>. DEFINE r == script[s].role
  <1>. USE DEF fixed, disks, mounts, homes, booting
  <1>0. script \in [Slots -> Script]
    BY DEF TypeOK
  <1>1. CASE Format(s)
    <2>1. r \in Roles
      BY <1>1, RunningFacts DEF Format, Running, At
    <2>2. \E at \in {"mount", "source"} : Goto(s, at)
      BY <1>1 DEF Format
    <2>3. script' \in [Slots -> Script]
      BY <1>0, <2>2, GotoFacts DEF ScriptAts, Past
    <2>4. /\ fs' \in [Roles -> Int] /\ made' \in Nat /\ dirs' \subseteq Places
          /\ files' \in [Places -> SUBSET AllFiles]
          /\ marker' \in [{"under", "disk"} -> {"none", "in-progress", "complete"}]
          /\ copier' \in {"nobody", "cloud-init", "repair"}
      <3>1. CASE Mkfs(r)
        BY <2>1, <3>1, MkfsTyped DEF TypeOK
      <3>2. CASE UNCHANGED <<fs, made, dirs, files, marker, copier>>
        BY <3>2 DEF TypeOK
      <3>. QED  BY <1>1, <3>1, <3>2 DEF Format
    <2>5. erased' \subseteq AllFiles
      BY <1>1 DEF Format, TypeOK, Places
    <2>. QED  BY <1>1, <2>3, <2>4, <2>5 DEF Format, TypeOK
  <1>2. CASE MountBacking(s)
    <2>1. r \in Roles
      BY <1>2, RunningFacts DEF MountBacking, Running, At
    <2>2. script' \in [Slots -> Script]
      BY <1>0, <1>2, GotoFacts DEF MountBacking, ScriptAts, Past
    <2>. QED  BY <1>2, <2>1, <2>2 DEF MountBacking, TypeOK
  <1>3. CASE MakeSource(s)
    <2>1. \E at \in {"bind", "copy", "move"} : Goto(s, at)
      BY <1>3 DEF MakeSource
    <2>2. script' \in [Slots -> Script]
      BY <1>0, <2>1, GotoFacts DEF ScriptAts, Past, HomeAts
    <2>3. dirs' \subseteq Places /\ marker' \in [{"under", "disk"} -> {"none", "in-progress", "complete"}]
      BY <1>3, BackingTyped DEF MakeSource, TypeOK
    <2>. QED  BY <1>3, <2>2, <2>3 DEF MakeSource, TypeOK
  <1>4. CASE CopyOne(s)
    <2>1. files' \in [Places -> SUBSET AllFiles] /\ copier' \in {"nobody", "cloud-init", "repair"}
      <3>1. PICK f \in files[Shown] :
              /\ files' = [files EXCEPT ![Backing("home")] = @ \cup {f}]
              /\ copier' = IF files[Backing("home")] = {} THEN "repair" ELSE copier
        BY <1>4 DEF CopyOne
      <3>2. f \in AllFiles
        BY <3>1, ShownTyped DEF TypeOK
      <3>. QED  BY <3>1, <3>2, BackingTyped DEF TypeOK
    <2>. QED  BY <1>4, <2>1 DEF CopyOne, TypeOK
  <1>5. CASE CopyEnds(s)
    <2>1. script' \in [Slots -> Script]
      BY <1>0, <1>5, GotoFacts DEF CopyEnds, ScriptAts, Past, HomeAts
    <2>. QED  BY <1>5, <2>1 DEF CopyEnds, TypeOK
  <1>6. CASE Verify(s)
    <2>1. script' \in [Slots -> Script]
      BY <1>0, <1>6, GotoFacts, ExitFacts DEF Verify, ScriptAts, Past, HomeAts
    <2>2. marker' \in [{"under", "disk"} -> {"none", "in-progress", "complete"}] /\ late' \subseteq AllFiles
      BY <1>6, BackingTyped DEF Verify, TypeOK
    <2>. QED  BY <1>6, <2>1, <2>2 DEF Verify, TypeOK
  <1>7. CASE Move(s)
    <2>1. script' \in [Slots -> Script]
      <3>1. CASE Goto(s, "mkdir") \/ Exit(s, "failed")
        BY <1>0, <3>1, GotoFacts, ExitFacts DEF ScriptAts, Past, HomeAts
      <3>2. CASE script' = [script EXCEPT ![s].at = "mkdir", ![s].moved = TRUE]
        BY <1>0, <3>2, MovedFacts
      <3>. QED  BY <1>7, <3>1, <3>2 DEF Move
    <2>2. dirs' \subseteq Places /\ files' \in [Places -> SUBSET AllFiles]
      BY <1>7, RenameTyped DEF Move, TypeOK, Places
    <2>. QED  BY <1>7, <2>1, <2>2 DEF Move, TypeOK
  <1>8. CASE MakeTarget(s)
    <2>1. script' \in [Slots -> Script]
      BY <1>0, <1>8, GotoFacts DEF MakeTarget, ScriptAts, Past
    <2>. QED  BY <1>8, <2>1, ShownTyped DEF MakeTarget, MakeDir, TypeOK
  <1>9. CASE Bind(s)
    <2>1. r \in Roles
      BY <1>9, RunningFacts DEF Bind, Running, At
    <2>2. script' \in [Slots -> Script]
      BY <1>0, <1>9, GotoFacts DEF Bind, ScriptAts, Past
    <2>. QED  BY <1>9, <2>1, <2>2, BackingTyped DEF Bind, TypeOK
  <1>10. CASE PersistDisk(s)
    <2>1. r \in Roles
      BY <1>10, RunningFacts DEF PersistDisk, Running, At
    <2>2. script' \in [Slots -> Script]
      BY <1>0, <1>10, GotoFacts DEF PersistDisk, ScriptAts, Past
    <2>3. fs[r] \in Nat \ {0}
      BY <1>10, <2>1 DEF PersistDisk, TypeOK, Blank
    <2>. QED  BY <1>10, <2>1, <2>2, <2>3 DEF PersistDisk, TypeOK
  <1>11. CASE PersistBind(s)
    <2>1. r \in Roles
      BY <1>11, RunningFacts DEF PersistBind, Running, At
    <2>2. script' \in [Slots -> Script]
      BY <1>0, <1>11, GotoFacts DEF PersistBind, ScriptAts, Past
    <2>3. fstab' \in [Roles -> [uuids : SUBSET (Nat \ {0}), bind : BOOLEAN]]
      <3>1. [fstab[r] EXCEPT !.bind = TRUE] \in [uuids : SUBSET (Nat \ {0}), bind : BOOLEAN]
        <4>1. fstab[r] \in [uuids : SUBSET (Nat \ {0}), bind : BOOLEAN]
          BY <2>1 DEF TypeOK
        <4>. QED  BY <4>1
      <3>2. fstab' = [fstab EXCEPT ![r] = [fstab[r] EXCEPT !.bind = TRUE]]
        BY <1>11 DEF PersistBind
      <3>. QED  BY <2>1, <3>1, <3>2 DEF TypeOK
    <2>. QED  BY <1>11, <2>2, <2>3 DEF PersistBind, TypeOK
  <1>12. CASE MountAll(s)
    <2>1. script' \in [Slots -> Script]
      BY <1>0, <1>12, ExitFacts DEF MountAll
    <2>2. mounted' \subseteq Roles /\ bound' \in [Roles -> {"no", "disk", "under"}]
      BY <1>12, FstabTyped DEF MountAll, TypeOK
    <2>. QED  BY <1>12, <2>1, <2>2 DEF MountAll, TypeOK
  <1>13. CASE ScriptFails(s)
    <2>1. script' \in [Slots -> Script]
      BY <1>0, <1>13, ExitFacts DEF ScriptFails
    <2>2. dirs' \subseteq Places /\ files' \in [Places -> SUBSET AllFiles]
      BY <1>13, RestoreTyped DEF ScriptFails, TypeOK
    <2>3. trouble' \in Nat /\ stranded' \in BOOLEAN
      BY <1>13 DEF ScriptFails, Wrong, TypeOK
    <2>. QED  BY <1>13, <2>1, <2>2, <2>3 DEF ScriptFails, TypeOK
  <1>14. CASE Signalled(s)
    BY <1>14, RestoreTyped DEF Signalled, Wrong, TypeOK
  <1>15. CASE Killed(s)
    <2>1. script' \in [Slots -> Script]
      BY <1>0, <1>15, ExitFacts DEF Killed
    <2>2. trouble' \in Nat /\ stranded' \in BOOLEAN
      BY <1>15 DEF Killed, Wrong, TypeOK
    <2>. QED  BY <1>15, <2>1, <2>2 DEF Killed, TypeOK
  <1>. QED  BY <1>1, <1>2, <1>3, <1>4, <1>5, <1>6, <1>7, <1>8, <1>9, <1>10, <1>11, <1>12, <1>13,
               <1>14, <1>15 DEF Repair

LEMMA CmdTyped ==
    ASSUME TypeOK, BootInv, CmdInv,
           ProbeAndPlan \/ ProbeFails \/ Confirm \/ Launch \/ Reprobe \/ \E s \in Slots : Collect(s) \/ Drop(s)
    PROVE  TypeOK'
  <1>. USE DEF fixed, disks, mounts, homes, booting, vmVars
  <1>0. script \in [Slots -> Script] /\ cmd \in Cmd /\ NoCmd \in Cmd
    BY DEF TypeOK, NoCmd, Cmd, Stages
  <1>1. CASE ProbeAndPlan
    <2>. DEFINE stages == [r \in Roles |-> Stage(r)]
    <2>1. stages \in [Roles -> Stages]
      BY DEF Stage, Probe, Stages
    <2>2. PICK force \in BOOLEAN :
            LET plan == {r \in Roles : Buildable(r, stages[r], force)}
            IN  IF \A r \in Roles : stages[r] = "healthy" THEN cmd' = [NoCmd EXCEPT !.verdict = "ok"]
                ELSE IF plan = {} THEN cmd' = [NoCmd EXCEPT !.verdict = "bail"]
                ELSE cmd' = [NoCmd EXCEPT !.stages = stages, !.force = force, !.todo = plan,
                             !.at = IF \E r \in plan : Reformats(r, stages[r], force) THEN "confirm" ELSE "run"]
      BY <1>1 DEF ProbeAndPlan
    <2>3. cmd' \in Cmd
      <3>. DEFINE plan == {r \in Roles : Buildable(r, stages[r], force)}
      <3>1. \/ cmd' = [NoCmd EXCEPT !.verdict = "ok"]
            \/ cmd' = [NoCmd EXCEPT !.verdict = "bail"]
            \/ \E at \in {"confirm", "run"} :
                 cmd' = [NoCmd EXCEPT !.stages = stages, !.force = force, !.todo = plan, !.at = at]
        BY <2>2
      <3>2. plan \in SUBSET Roles
        OBVIOUS
      <3>. HIDE DEF stages, plan
      <3>. QED  BY <2>1, <3>1, <3>2, <1>0 DEF Cmd
    <2>. QED  BY <1>1, <2>3 DEF ProbeAndPlan, TypeOK
  <1>2. CASE ProbeFails
    <2>1. cmd' \in Cmd
      BY <1>0, <1>2 DEF ProbeFails, Cmd
    <2>. QED  BY <1>2, <2>1 DEF ProbeFails, TypeOK
  <1>3. CASE Confirm
    <2>1. cmd' \in Cmd
      BY <1>0, <1>3 DEF Confirm, Cmd
    <2>2. consent' \subseteq Roles
      BY <1>0, <1>3 DEF Confirm, Cmd, TypeOK
    <2>. QED  BY <1>3, <2>1, <2>2 DEF Confirm, TypeOK
  <1>4. CASE Launch
    <2>1. Next1 \in cmd.todo /\ Next1 \in Roles
      BY <1>0, <1>4, ConstantsAssumption DEF Launch, Next1, Cmd
    <2>2. cmd' \in Cmd
      BY <1>0, <1>4, <2>1 DEF Launch, Cmd
    <2>3. PICK s \in Slots : script' = [script EXCEPT ![s] =
            [at |-> "format", role |-> Next1, stage |-> cmd.stages[Next1], moved |-> FALSE, heard |-> TRUE,
             reform |-> Reformats(Next1, cmd.stages[Next1], cmd.force)]]
      BY <1>4 DEF Launch
    <2>4. cmd.stages[Next1] \in Stages /\ Reformats(Next1, cmd.stages[Next1], cmd.force) \in BOOLEAN
      BY <1>0, <2>1 DEF Cmd, Reformats
    <2>5. script' \in [Slots -> Script]
      BY <1>0, <2>1, <2>3, <2>4 DEF Script, ScriptAts
    <2>. QED  BY <1>4, <2>2, <2>5 DEF Launch, TypeOK
  <1>5. CASE Reprobe
    <2>1. cmd' \in Cmd
      BY <1>0, <1>5 DEF Reprobe, Finish, Cmd
    <2>. QED  BY <1>5, <2>1 DEF Reprobe, TypeOK
  <1>6. ASSUME NEW s \in Slots, Collect(s) PROVE TypeOK'
    <2>1. cmd' \in Cmd
      BY <1>0, <1>6 DEF Collect, Cmd
    <2>2. script' \in [Slots -> Script]
      BY <1>0, <1>6, IdleIsScript DEF Collect
    <2>. QED  BY <1>6, <2>1, <2>2 DEF Collect, TypeOK
  <1>7. ASSUME NEW s \in Slots, Drop(s) PROVE TypeOK'
    <2>1. cmd' \in Cmd
      BY <1>0, <1>7 DEF Drop, Cmd
    <2>2. script' \in [Slots -> Script]
      BY <1>0, <1>7, DropFacts DEF Drop
    <2>. QED  BY <1>7, <2>1, <2>2 DEF Drop, Wrong, TypeOK
  <1>. QED  BY <1>1, <1>2, <1>3, <1>4, <1>5, <1>6, <1>7

LEMMA RebootScripts ==
    ASSUME script \in [Slots -> Script], Reboot
    PROVE  /\ script' \in [Slots -> Script]
           /\ \A s \in Slots : ~script[s].heard => script'[s] = Idle
           /\ \A s \in Slots : script[s].heard => script'[s] =
                [at |-> "failed", role |-> script[s].role, reform |-> script[s].reform,
                 stage |-> script[s].stage, moved |-> script[s].moved, heard |-> TRUE]
  <1>. DEFINE ended(t) == [at |-> "failed", role |-> t.role, reform |-> t.reform,
                           stage |-> t.stage, moved |-> t.moved, heard |-> TRUE]
  <1>1. \A t \in Script : t.heard => [t EXCEPT !.at = "failed"] = ended(t) /\ ended(t) \in Script
    <2>. SUFFICES ASSUME NEW t \in Script, t.heard PROVE [t EXCEPT !.at = "failed"] = ended(t) /\ ended(t) \in Script
      OBVIOUS
    <2>1. t.heard = TRUE
      BY DEF Script
    <2>2. ended(t) \in Script
      BY DEF Script, ScriptAts
    <2>. QED  BY <2>1, <2>2, ScriptRecord
  <1>2. script' = [s \in Slots |-> IF script[s].heard THEN [script[s] EXCEPT !.at = "failed"] ELSE Idle]
    BY DEF Reboot
  <1>. QED  BY <1>1, <1>2, IdleIsScript

LEMMA RestTyped == ASSUME TypeOK, Write \/ Reboot, UNCHANGED cmd PROVE TypeOK'
  <1>. USE DEF fixed, disks, mounts, homes, booting
  <1>1. CASE Write
    <2>1. files' \in [Places -> SUBSET AllFiles] /\ late' \subseteq AllFiles
      BY <1>1, ShownTyped DEF Write, TypeOK, AllFiles
    <2>. QED  BY <1>1, <2>1 DEF Write, TypeOK
  <1>2. CASE Reboot
    <2>1. mounted' \subseteq Roles
      BY <1>2, FstabTyped DEF Reboot
    <2>2. bound' \in [Roles -> {"no", "disk", "under"}]
      BY <1>2 DEF Reboot
    <2>3. script' \in [Slots -> Script]
      BY <1>2, RebootScripts DEF TypeOK
    <2>4. boot' \in [at : Seeds, todo : SUBSET Roles]
      BY <1>2 DEF Reboot, TypeOK, Seeds
    <2>5. trouble' \in Nat /\ stranded' \in BOOLEAN
      BY <1>2 DEF Reboot, Wrong, TypeOK
    <2>. QED  BY <1>2, <2>1, <2>2, <2>3, <2>4, <2>5 DEF Reboot, TypeOK
  <1>. QED  BY <1>1, <1>2

-----------------------------------------------------------------------------
(* Disks, mounts and binds. *)

CommandStep == ProbeAndPlan \/ ProbeFails \/ Confirm \/ Launch \/ Reprobe \/ \E s \in Slots : Collect(s) \/ Drop(s)

LEMMA CommandFrame ==
    ASSUME CommandStep
    PROVE  UNCHANGED <<fixed, fs, made, erased, mounts, homes, booting, stranded>>
  BY DEF CommandStep, ProbeAndPlan, ProbeFails, Confirm, Launch, Reprobe, Collect, Drop, vmVars,
     disks

LEMMA DiskFrame ==
    ASSUME DiskInv, UNCHANGED <<device, fs, mounted, bound>>, "disk" \in dirs' <=> "disk" \in dirs
    PROVE  DiskInv'
  BY DEF DiskInv

LEMMA DiskMkfs ==
    ASSUME TypeOK, DiskInv, NEW r \in Roles, Mkfs(r), UNCHANGED <<device, mounted, bound>>
    PROVE  DiskInv'
  BY MkfsTyped DEF DiskInv, TypeOK, Mkfs

LEMMA DiskBoot == ASSUME TypeOK, DiskInv, BootInv, CloudInit PROVE DiskInv'
  <1>. USE DEF fixed, disks, mounts, homes, Step
  <1>1. CASE BootMkfs
    <2>1. Section \in Roles
      BY <1>1 DEF BootMkfs, TypeOK
    <2>. QED  BY <1>1, <2>1, DiskMkfs DEF BootMkfs
  <1>2. CASE BootMount
    <2>1. Section \in Roles /\ Section \in device /\ fs[Section] > Blank
      BY <1>2, SectionFacts DEF BootMount, SectionAt
    <2>2. dirs' = IF Section = "home" THEN dirs \cup {"disk"} ELSE dirs
      BY <1>2 DEF BootMount, MakeDir
    <2>3. UNCHANGED <<device, fs, bound>> /\ mounted' = mounted \cup {Section}
      BY <1>2 DEF BootMount
    <2>. QED  BY <2>1, <2>2, <2>3 DEF DiskInv
  <1>3. CASE BootBind
    <2>1. Section \in Roles /\ Section \in mounted
      BY <1>3, SectionFacts DEF BootBind, SectionAt
    <2>2. Section = "home" => "disk" \in dirs
      BY <1>3, SectionFacts DEF BootBind, HomeAt
    <2>3. UNCHANGED <<device, fs, mounted, dirs>> /\ bound' = [bound EXCEPT ![Section] = "disk"]
      BY <1>3 DEF BootBind
    <2>. QED  BY <2>1, <2>2, <2>3 DEF DiskInv, TypeOK
  <1>4. CASE SectionFails
    BY <1>4, DiskFrame DEF SectionFails, RollBack, Rename
  <1>5. CASE BootCopy \/ BootSwap \/ BootMkdir \/ BootPersist \/ BootClean \/ BootNet \/ Finalize
    BY <1>5, DiskFrame DEF BootCopy, BootSwap, BootMkdir, BootPersist, BootClean, BootNet,
       Finalize, Rename, MakeDir
  <1>. QED  BY <1>1, <1>2, <1>3, <1>4, <1>5 DEF CloudInit

LEMMA DiskRepairs == ASSUME TypeOK, DiskInv, ScriptInv, NEW s \in Slots, Repair(s) PROVE DiskInv'
  <1>. DEFINE r == script[s].role
  <1>. USE DEF fixed, disks, mounts, homes, booting
  <1>1. CASE Format(s)
    <2>1. r \in Roles
      BY <1>1, RunningFacts DEF Format, Running, At
    <2>. QED  BY <1>1, <2>1, DiskMkfs, DiskFrame DEF Format
  <1>2. CASE MountBacking(s)
    <2>1. r \in Roles /\ r \in device
      BY <1>2, RunningFacts DEF MountBacking, Running, At, ScriptInv, ScriptOk
    <2>. QED  BY <1>2, <2>1 DEF MountBacking, DiskInv
  <1>3. CASE MakeSource(s)
    <2>1. CASE ~Home(s)
      BY <1>3, <2>1, DiskFrame DEF MakeSource
    <2>2. CASE Home(s)
      <3>1. "home" \in Roles
        BY <1>3, <2>2, RunningFacts DEF MakeSource, Running, At
      <3>2. UNCHANGED <<device, fs, mounted, bound>> /\ dirs' = dirs \cup {Backing("home")}
        BY <1>3, <2>2 DEF MakeSource
      <3>3. Backing("home") = "disk" => fs["home"] > Blank
        BY DEF Backing, DiskInv
      <3>. QED  BY <3>1, <3>2, <3>3 DEF DiskInv
    <2>. QED  BY <2>1, <2>2
  <1>4. CASE Move(s)
    BY <1>4, DiskFrame DEF Move, Rename
  <1>5. CASE MakeTarget(s)
    <2>1. Shown = "disk" => "disk" \in dirs
      BY DEF Shown, HomeBind, DiskInv
    <2>. QED  BY <1>5, <2>1, DiskFrame DEF MakeTarget, MakeDir
  <1>6. CASE Bind(s)
    <2>1. r \in Roles
      BY <1>6, RunningFacts DEF Bind, Running, At
    <2>2. UNCHANGED <<device, fs, mounted, dirs>> /\ bound' = [bound EXCEPT ![r] = Backing(r)]
      BY <1>6 DEF Bind
    <2>3. Backing(r) = "disk" => r \in mounted /\ (r = "home" => "disk" \in dirs)
      BY <1>6 DEF Bind, Backing, Home
    <2>. QED  BY <2>1, <2>2, <2>3 DEF DiskInv, TypeOK
  <1>7. CASE MountAll(s)
    <2>1. UNCHANGED <<device, fs, dirs>> /\ mounted' = ByFstab(mounted) /\ bound' = BindsBy(mounted')
      BY <1>7 DEF MountAll
    <2>2. \A q \in mounted' : q \in mounted \/ (q \in device /\ fs[q] > Blank)
      BY <2>1 DEF ByFstab, TypeOK, Blank
    <2>3. mounted \subseteq mounted'
      BY <2>1 DEF ByFstab
    <2>4. \A q \in Roles : bound'[q] = "disk" =>
             bound[q] = "disk" \/ (q \in mounted' /\ (q = "home" => "disk" \in dirs))
      BY <2>1 DEF BindsBy
    <2>. QED  BY <2>1, <2>2, <2>3, <2>4 DEF DiskInv
  <1>8. CASE ScriptFails(s) \/ Signalled(s)
    BY <1>8, DiskFrame DEF ScriptFails, Signalled, Restore, Rename
  <1>9. CASE CopyOne(s) \/ CopyEnds(s) \/ Verify(s) \/ PersistDisk(s) \/ PersistBind(s) \/ Killed(s)
    BY <1>9, DiskFrame DEF CopyOne, CopyEnds, Verify, PersistDisk, PersistBind, Killed
  <1>. QED  BY <1>1, <1>2, <1>3, <1>4, <1>5, <1>6, <1>7, <1>8, <1>9 DEF Repair

LEMMA DiskRest == ASSUME TypeOK, DiskInv, Write \/ Reboot \/ CommandStep PROVE DiskInv'
  <1>. USE DEF fixed, disks, mounts, homes, booting
  <1>1. CASE Write
    BY <1>1, DiskFrame DEF Write
  <1>2. CASE Reboot
    <2>1. UNCHANGED <<device, fs, dirs>> /\ mounted' = ByFstab({})
      BY <1>2 DEF Reboot
    <2>2. \A q \in mounted' : q \in device /\ fs[q] > Blank
      BY <2>1 DEF ByFstab, TypeOK, Blank
    <2>3. \A q \in Roles : bound'[q] = "disk" => q \in mounted' /\ (q = "home" => "disk" \in dirs)
      BY <1>2 DEF Reboot
    <2>. QED  BY <2>1, <2>2, <2>3 DEF DiskInv
  <1>3. CASE CommandStep
    BY <1>3, CommandFrame, DiskFrame
  <1>. QED  BY <1>1, <1>2, <1>3

-----------------------------------------------------------------------------
(* A disk that is mounted and in fstab stays so: mkfs refuses what is      *)
(* mounted, fstab only grows, and a reboot mounts what is in it.           *)

LEMMA DurableFrame ==
    ASSUME NEW r \in Roles, Durable(r), UNCHANGED <<device, fs, fstab>>, mounted \subseteq mounted'
    PROVE  Durable(r)'
  BY DEF Durable, Persisted

LEMMA DurableMkfs ==
    ASSUME TypeOK, NEW r \in Roles, Durable(r), NEW q \in Roles, Mkfs(q), UNCHANGED <<device,
           mounted, fstab>>
    PROVE  Durable(r)'
  BY MkfsTyped DEF Durable, Persisted

LEMMA DurableFstab ==
    ASSUME TypeOK, NEW r \in Roles, Durable(r), NEW q \in Roles, UNCHANGED <<device, fs, mounted>>,
           \/ fstab' = [fstab EXCEPT ![q] = [uuids |-> @.uuids \cup {fs[q]}, bind |-> TRUE]]
           \/ fstab' = [fstab EXCEPT ![q].uuids = @ \cup {fs[q]}]
           \/ fstab' = [fstab EXCEPT ![q].bind = TRUE]
    PROVE  Durable(r)'
  <1>1. fstab[r] \in [uuids : SUBSET (Nat \ {0}), bind : BOOLEAN] /\ fstab[r].bind
    BY DEF TypeOK, Durable, Persisted
  <1>2. fstab[r].uuids \subseteq fstab'[r].uuids /\ fstab'[r].bind
    <2>1. CASE fstab' = [fstab EXCEPT ![q] = [uuids |-> @.uuids \cup {fs[q]}, bind |-> TRUE]]
      BY <1>1, <2>1 DEF TypeOK
    <2>2. CASE fstab' = [fstab EXCEPT ![q].uuids = @ \cup {fs[q]}]
      BY <1>1, <2>2 DEF TypeOK
    <2>3. CASE fstab' = [fstab EXCEPT ![q].bind = TRUE]
      BY <1>1, <2>3 DEF TypeOK
    <2>. QED  BY <2>1, <2>2, <2>3
  <1>. QED  BY <1>2 DEF Durable, Persisted

LEMMA DurableStays ==
    ASSUME TypeOK, BootInv, ScriptInv, Next, NEW r \in Roles, Durable(r)
    PROVE  Durable(r)'
  <1>. USE DEF fixed, disks, mounts, homes, booting
  <1>1. CASE BootMkfs
    <2>1. Section \in Roles
      BY <1>1 DEF BootMkfs, TypeOK
    <2>. QED  BY <1>1, <2>1, DurableMkfs DEF BootMkfs
  <1>2. CASE BootPersist
    <2>1. Section \in Roles
      BY <1>2, SectionFacts DEF BootPersist, Step
    <2>. QED  BY <1>2, <2>1, DurableFstab DEF BootPersist
  <1>3. CASE BootMount \/ BootCopy \/ BootSwap \/ BootMkdir \/ BootBind \/ BootClean \/ SectionFails \/ BootNet \/ Finalize
    BY <1>3, DurableFrame DEF BootMount, BootCopy, BootSwap, BootMkdir, BootBind, BootClean,
       SectionFails, BootNet, Finalize
  <1>4. ASSUME NEW s \in Slots, Format(s) PROVE Durable(r)'
    <2>1. script[s].role \in Roles
      BY <1>4, RunningFacts DEF Format, Running, At
    <2>. QED  BY <1>4, <2>1, DurableMkfs, DurableFrame DEF Format
  <1>5. ASSUME NEW s \in Slots, PersistDisk(s) \/ PersistBind(s) PROVE Durable(r)'
    <2>1. script[s].role \in Roles
      BY <1>5, RunningFacts DEF PersistDisk, PersistBind, Running, At
    <2>. QED  BY <1>5, <2>1, DurableFstab DEF PersistDisk, PersistBind
  <1>6. ASSUME NEW s \in Slots, MountAll(s) PROVE Durable(r)'
    BY <1>6, DurableFrame DEF MountAll, ByFstab
  <1>7. ASSUME NEW s \in Slots, MountBacking(s) \/ MakeSource(s) \/ CopyOne(s) \/ CopyEnds(s) \/ Verify(s) \/ Move(s)
                                  \/ MakeTarget(s) \/ Bind(s) \/ ScriptFails(s) \/ Signalled(s) \/ Killed(s)
        PROVE  Durable(r)'
    BY <1>7, DurableFrame DEF MountBacking, MakeSource, CopyOne, CopyEnds, Verify, Move,
       MakeTarget, Bind, ScriptFails,
       Signalled, Killed
  <1>8. CASE Write
    BY <1>8, DurableFrame DEF Write
  <1>9. CASE Reboot
    BY <1>9 DEF Reboot, ByFstab, Durable, Persisted
  <1>10. CASE CommandStep
    BY <1>10, CommandFrame, DurableFrame
  <1>. QED  BY <1>1, <1>2, <1>3, <1>4, <1>5, <1>6, <1>7, <1>8, <1>9, <1>10 DEF Next, VmNext,
               CloudInit, Repair, CommandStep

-----------------------------------------------------------------------------
(* Nothing is lost. *)

LEMMA DataFrame ==
    ASSUME DataInv, UNCHANGED <<foreign, fs, written>>, consent \subseteq consent',
           erased \subseteq erased',
           "home" \in Roles /\ Durable("home") => Durable("home")',
           files["os"] \cup files["old"] \subseteq files'["os"] \cup files'["old"],
           files["disk"] \subseteq files'["disk"],
           \A p \in Places : \A f \in files[p] : \E q \in Places : f \in files'[q],
           \A p \in Places : files'[p] # {} => p \in dirs'
    PROVE  DataInv'
  <1>1. HomeSafe'
    BY DEF DataInv, HomeSafe
  <1>2. \A f \in written' : Kept(f)'
    BY DEF DataInv, Kept
  <1>. QED  BY <1>1, <1>2 DEF DataInv

LEMMA DataSame ==
    ASSUME DataInv, UNCHANGED <<foreign, fs, written, dirs, files, erased>>,
           consent \subseteq consent',
           "home" \in Roles /\ Durable("home") => Durable("home")'
    PROVE  DataInv'
  BY DataFrame DEF DataInv

LEMMA DataMade ==
    ASSUME TypeOK, DataInv, UNCHANGED <<foreign, fs, written, files, erased, consent>>,
           "home" \in Roles /\ Durable("home") => Durable("home")',
           NEW p \in Places, dirs' = dirs \cup {p}
    PROVE  DataInv'
  BY DataFrame DEF DataInv

LEMMA DataRename ==
    ASSUME TypeOK, DataInv, NEW from \in {"os", "old"}, NEW to \in {"os", "old"}, from # to,
           Rename(from, to),
           files[to] = {}, UNCHANGED <<foreign, fs, written, erased, consent>>,
           "home" \in Roles /\ Durable("home") => Durable("home")'
    PROVE  DataInv'
  <1>1. from \in Places /\ to \in Places
    BY DEF Places
  <1>2. \A p \in Places : \A f \in files[p] : \E q \in Places : f \in files'[q]
    BY <1>1, RenameTyped
  <1>3. \A p \in Places : files'[p] # {} => p \in dirs'
    BY <1>1, RenameTyped DEF DataInv
  <1>4. files["os"] \cup files["old"] \subseteq files'["os"] \cup files'["old"] /\ files["disk"] \subseteq files'["disk"]
    BY <1>1, RenameTyped DEF Places
  <1>. QED  BY <1>2, <1>3, <1>4, DataFrame

LEMMA DataMkfs ==
    ASSUME TypeOK, DataInv, NEW r \in Roles, Mkfs(r), UNCHANGED <<foreign, consent, written>>,
           r \in foreign => r \in consent,
           "home" \in Roles /\ Durable("home") => Durable("home")',
           erased \subseteq erased', r = "home" => files["disk"] \subseteq erased'
    PROVE  DataInv'
  <1>1. \A q \in foreign' : fs'[q] = Foreign \/ q \in consent'
    BY MkfsTyped DEF DataInv, TypeOK
  <1>2. dirs' = (IF r = "home" THEN dirs \ {"disk"} ELSE dirs)
        /\ files' = (IF r = "home" THEN [files EXCEPT !["disk"] = {}] ELSE files)
    BY DEF Mkfs
  <1>3. \A p \in Places : \A f \in files[p] : Kept(f)'
    BY <1>2 DEF TypeOK, Places, Kept
  <1>4. \A p \in Places : files'[p] # {} => p \in dirs'
    BY <1>2 DEF TypeOK, DataInv, Places
  <1>5. files'["os"] = files["os"] /\ files'["old"] = files["old"] /\ (r # "home" => files'["disk"] = files["disk"])
    BY <1>2 DEF TypeOK, Places
  <1>6. HomeSafe'
    BY <1>5, MkfsTyped DEF DataInv, HomeSafe, Durable
  <1>7. \A f \in written' : Kept(f)'
    BY <1>3 DEF DataInv, Kept
  <1>. QED  BY <1>1, <1>4, <1>6, <1>7 DEF DataInv

LEMMA DataBoot ==
    ASSUME TypeOK, DataInv, DiskInv, BootInv, CloudInit,
           "home" \in Roles /\ Durable("home") => Durable("home")'
    PROVE  DataInv'
  <1>. USE DEF fixed, disks, mounts, homes, Step
  <1>1. CASE BootMkfs
    <2>1. Section \in Roles /\ foreign = {}
      BY <1>1 DEF BootMkfs, TypeOK, BootInv
    <2>2. Section = "home" => dirs = {"os"}
      BY <1>1, <2>1 DEF BootMkfs, BootInv, HomeAt, Ready
    <2>3. Section = "home" => files["disk"] = {}
      BY <2>2 DEF DataInv, Places
    <2>. QED  BY <1>1, <2>1, <2>3, DataMkfs DEF BootMkfs
  <1>2. CASE BootMount
    BY <1>2, DataMade, DataSame DEF BootMount, MakeDir, Places
  <1>3. CASE BootCopy
    <2>1. "disk" \in dirs
      BY <1>3, SectionFacts DEF BootCopy, SectionAt, HomeAt
    <2>2. files' = [files EXCEPT !["disk"] = @ \cup files["os"]] /\ UNCHANGED <<foreign, fs, written, erased, consent, dirs>>
      BY <1>3 DEF BootCopy
    <2>3. \A p \in Places : files[p] \subseteq files'[p] /\ (files'[p] # {} => p \in dirs)
      BY <2>1, <2>2 DEF DataInv, TypeOK, Places
    <2>. QED  BY <2>2, <2>3, DataFrame DEF Places
  <1>4. CASE BootSwap
    <2>1. dirs = {"os", "disk"}
      BY <1>4, SectionFacts DEF BootSwap, SectionAt, HomeAt
    <2>2. files["old"] = {}
      BY <2>1 DEF DataInv, Places
    <2>. QED  BY <1>4, <2>2, DataRename DEF BootSwap
  <1>5. CASE BootMkdir
    BY <1>5, DataMade DEF BootMkdir, MakeDir, Places
  <1>6. CASE BootClean
    <2>1. CASE Section = "home"
      <3>1. HomeFiles \subseteq files["old"] /\ files["old"] \subseteq files["disk"]
        BY <1>6, <2>1, SectionFacts DEF BootClean, HomeAt
      <3>2. dirs' = dirs \ {"old"} /\ files' = [files EXCEPT !["old"] = {}] /\ UNCHANGED <<foreign, fs, written, erased, consent>>
        BY <1>6, <2>1 DEF BootClean
      <3>3. files'["disk"] = files["disk"] /\ \A p \in Places : files'[p] # {} => p \in dirs'
        BY <3>2 DEF DataInv, TypeOK, Places
      <3>4. Durable("home") /\ "home" \in Roles
        BY <1>6, <2>1, SectionFacts DEF BootClean, SectionAt, Durable
      <3>5. HomeSafe'
        BY <3>1, <3>3, <3>4 DEF HomeSafe
      <3>6. \A p \in Places \ {"old"} : files'[p] = files[p]
        BY <3>2 DEF TypeOK
      <3>7. \A f \in written' : Kept(f)'
        BY <3>1, <3>2, <3>6 DEF DataInv, Kept, Places
      <3>. QED  BY <3>2, <3>3, <3>5, <3>7 DEF DataInv
    <2>2. CASE Section # "home"
      BY <1>6, <2>2, DataSame DEF BootClean
    <2>. QED  BY <2>1, <2>2
  <1>7. CASE SectionFails
    <2>1. UNCHANGED <<foreign, fs, written, erased, consent>>
      BY <1>7 DEF SectionFails
    <2>2. CASE boot.at = "copy"
      <3>1. "disk" \in dirs /\ files["disk"] = {}
        BY <2>2, SectionFacts DEF SectionAt, HomeAt
      <3>2. PICK part : files' = [files EXCEPT !["disk"] = part] /\ dirs' = dirs
        BY <1>7, <2>2 DEF SectionFails
      <3>3. \A p \in Places : files[p] \subseteq files'[p] /\ (files'[p] # {} => p \in dirs')
        BY <3>1, <3>2 DEF DataInv, TypeOK, Places
      <3>. QED  BY <2>1, <3>1, <3>3, DataFrame DEF Places
    <2>3. CASE boot.at # "copy"
      <3>1. RollBack
        BY <1>7, <2>3 DEF SectionFails
      <3>2. CASE UNCHANGED <<dirs, files>>
        BY <2>1, <3>2, DataSame
      <3>3. CASE Rename("old", "os") /\ boot.at \in {"mkdir", "bind", "persist", "clean"} /\ Section = "home"
        <4>1. HomeAt(boot.at)
          BY <3>3, SectionFacts
        <4>2. files["os"] = {}
          BY <3>3, <4>1 DEF HomeAt, DataInv, Places
        <4>. QED  BY <2>1, <3>3, <4>2, DataRename
      <3>. QED  BY <3>1, <3>2, <3>3 DEF RollBack
    <2>. QED  BY <2>2, <2>3
  <1>8. CASE BootBind \/ BootPersist \/ BootNet \/ Finalize
    BY <1>8, DataSame DEF BootBind, BootPersist, BootNet, Finalize
  <1>. QED  BY <1>1, <1>2, <1>3, <1>4, <1>5, <1>6, <1>7, <1>8 DEF CloudInit

LEMMA DataRestore ==
    ASSUME TypeOK, DataInv, NEW s \in Slots, Restore(s), UNCHANGED <<foreign, fs, written, erased,
           consent>>,
           "home" \in Roles /\ Durable("home") => Durable("home")'
    PROVE  DataInv'
  BY DataRename, DataSame DEF Restore

LEMMA DataRepairs ==
    ASSUME TypeOK, DataInv, DiskInv, ScriptInv, NEW s \in Slots, Repair(s),
           "home" \in Roles /\ Durable("home") => Durable("home")'
    PROVE  DataInv'
  <1>. DEFINE r == script[s].role
  <1>. USE DEF fixed, disks, mounts, homes, booting
  <1>1. CASE Format(s)
    <2>1. r \in Roles
      BY <1>1, RunningFacts DEF Format, Running, At
    <2>2. CASE ~Mkfs(r)
      BY <1>1, <2>2, DataSame DEF Format
    <2>3. CASE Mkfs(r) /\ script[s].reform
      <3>1. r \in consent
        BY <2>3 DEF ScriptInv, ScriptOk
      <3>2. erased' = (IF r = "home" THEN erased \cup files["disk"] ELSE erased) /\ UNCHANGED <<foreign, consent, written>>
        BY <1>1, <2>3 DEF Format
      <3>. QED  BY <2>1, <2>3, <3>1, <3>2, DataMkfs
    <2>4. CASE Mkfs(r) /\ ~script[s].reform
      <3>1. UNCHANGED <<foreign, consent, erased, written>>
        BY <1>1, <2>4 DEF Format
      <3>2. CASE fs[r] # Blank
        BY <1>1, <2>4, <3>1, <3>2, DataSame DEF Format
      <3>3. CASE fs[r] = Blank
        <4>1. r = "home" => files["disk"] = {}
          BY <3>3 DEF DiskInv, DataInv, Places, Blank
        <4>2. r \in foreign => r \in consent
          BY <3>3 DEF DataInv, Blank, Foreign
        <4>. QED  BY <2>1, <2>4, <3>1, <4>1, <4>2, DataMkfs
      <3>. QED  BY <3>2, <3>3
    <2>. QED  BY <2>2, <2>3, <2>4
  <1>2. CASE MakeSource(s)
    BY <1>2, DataMade, DataSame, BackingTyped DEF MakeSource
  <1>3. CASE CopyOne(s)
    <2>. DEFINE p == Backing("home")
    <2>1. p \in dirs /\ UNCHANGED <<foreign, fs, written, erased, consent, dirs>>
      BY <1>3 DEF CopyOne
    <2>2. PICK f : files' = [files EXCEPT ![p] = @ \cup {f}]
      BY <1>3 DEF CopyOne
    <2>3. \A q \in Places : files[q] \subseteq files'[q] /\ (files'[q] # {} => q \in dirs)
      BY <2>1, <2>2, BackingTyped DEF DataInv, TypeOK
    <2>. QED  BY <2>1, <2>3, DataFrame DEF Places
  <1>4. CASE Move(s)
    <2>1. UNCHANGED <<foreign, fs, written, erased, consent>>
      BY <1>4 DEF Move
    <2>2. CASE UNCHANGED <<dirs, files>>
      BY <2>1, <2>2, DataSame
    <2>3. CASE Rename("os", "old") /\ "old" \notin dirs
      <3>1. files["old"] = {}
        BY <2>3 DEF DataInv, Places
      <3>. QED  BY <2>1, <2>3, <3>1, DataRename
    <2>. QED  BY <1>4, <2>2, <2>3 DEF Move
  <1>5. CASE MakeTarget(s)
    BY <1>5, DataMade, ShownTyped DEF MakeTarget, MakeDir
  <1>6. CASE ScriptFails(s)
    BY <1>6, DataRestore, DataSame DEF ScriptFails
  <1>7. CASE Signalled(s)
    BY <1>7, DataRestore DEF Signalled
  <1>8. CASE MountBacking(s) \/ CopyEnds(s) \/ Verify(s) \/ Bind(s) \/ PersistDisk(s) \/ PersistBind(s) \/ MountAll(s) \/ Killed(s)
    BY <1>8, DataSame DEF MountBacking, CopyEnds, Verify, Bind, PersistDisk, PersistBind, MountAll,
       Killed
  <1>. QED  BY <1>1, <1>2, <1>3, <1>4, <1>5, <1>6, <1>7, <1>8 DEF Repair

LEMMA DataRest ==
    ASSUME TypeOK, DataInv, Write \/ Reboot \/ CommandStep,
           "home" \in Roles /\ Durable("home") => Durable("home")'
    PROVE  DataInv'
  <1>. USE DEF fixed, disks, mounts, homes, booting
  <1>1. CASE Write
    <2>1. Shown \in dirs /\ UNCHANGED <<foreign, fs, erased, consent, dirs, device, mounted, fstab>>
      BY <1>1 DEF Write
    <2>2. PICK f : files' = [files EXCEPT ![Shown] = @ \cup {f}] /\ written' = written \cup {f}
      BY <1>1 DEF Write
    <2>3. \A q \in Places : files[q] \subseteq files'[q] /\ (files'[q] # {} => q \in dirs)
      BY <2>1, <2>2, ShownTyped DEF DataInv, TypeOK
    <2>4. f \in files'[Shown]
      BY <2>2, ShownTyped DEF TypeOK
    <2>5. HomeSafe'
      BY <2>1, <2>3 DEF DataInv, HomeSafe, Places
    <2>6. \A g \in written' : Kept(g)'
      BY <2>1, <2>2, <2>3, <2>4, ShownTyped DEF DataInv, Kept
    <2>. QED  BY <2>1, <2>3, <2>5, <2>6 DEF DataInv
  <1>2. CASE Reboot
    BY <1>2, DataSame DEF Reboot
  <1>3. CASE CommandStep
    <2>1. consent \subseteq consent'
      BY <1>3 DEF CommandStep, ProbeAndPlan, ProbeFails, Confirm, Launch, Reprobe, Collect, Drop,
         vmVars
    <2>. QED  BY <1>3, <2>1, CommandFrame, DataSame
  <1>. QED  BY <1>1, <1>2, <1>3

-----------------------------------------------------------------------------
(* The scripts. *)

LEMMA ScriptFrame ==
    ASSUME NEW s, ScriptOk(s), script'[s] = script[s], device' = device, consent \subseteq consent'
    PROVE  ScriptOk(s)'
  BY DEF ScriptOk, Running, Home

LEMMA ScriptAllFrame ==
    ASSUME ScriptInv, script' = script, device' = device, consent \subseteq consent'
    PROVE  ScriptInv'
  BY ScriptFrame DEF ScriptInv

LEMMA IdleOk == ASSUME NEW s, script'[s] = Idle PROVE ScriptOk(s)'
  BY DEF ScriptOk, Idle, Running, Home, Past, HomeAts

\* A script goes on: its new place is one that what it knows allows.
LEMMA ScriptGoes ==
    ASSUME TypeOK, ScriptInv, NEW s \in Slots, Running(s), NEW at \in Past \cup {"mount"}, Goto(s,
           at),
           script[s].role \in device, at \in HomeAts => Home(s), UNCHANGED <<device, consent>>
    PROVE  ScriptInv'
  <1>1. /\ \A t \in Slots \ {s} : script'[t] = script[t]
        /\ script'[s] = [at |-> at, role |-> script[s].role, reform |-> script[s].reform,
                         stage |-> script[s].stage, moved |-> script[s].moved, heard |-> script[s].heard]
    BY GotoFacts DEF TypeOK, ScriptAts
  <1>2. ScriptOk(s)'
    <2>1. at \notin {"idle", "ok", "failed", "format"}
      BY DEF Past, HomeAts
    <2>. QED  BY <1>1, <2>1 DEF ScriptOk, ScriptInv, Running, Home, Idle
  <1>. QED  BY <1>1, <1>2, ScriptFrame DEF ScriptInv

LEMMA ScriptExits ==
    ASSUME TypeOK, ScriptInv, NEW s \in Slots, NEW rc \in {"ok", "failed"}, Exit(s, rc),
           UNCHANGED <<device, consent>>
    PROVE  ScriptInv'
  <1>0. script[s].heard \in BOOLEAN /\ script \in [Slots -> Script]
    BY DEF TypeOK, Script
  <1>1. \A t \in Slots \ {s} : script'[t] = script[t]
    BY <1>0, ExitFacts
  <1>2. CASE ~script[s].heard
    <2>1. script'[s] = Idle
      BY <1>0, <1>2, ExitFacts
    <2>. QED  BY <1>1, <2>1, IdleOk, ScriptFrame DEF ScriptInv
  <1>3. CASE script[s].heard
    <2>1. script'[s] = [at |-> rc, role |-> script[s].role, reform |-> script[s].reform,
                        stage |-> script[s].stage, moved |-> script[s].moved, heard |-> TRUE]
      BY <1>0, <1>3, ExitFacts
    <2>2. ScriptOk(s)'
      BY <2>1 DEF ScriptOk, ScriptInv, Running, Home, Idle, Past, HomeAts
    <2>. QED  BY <1>1, <2>2, ScriptFrame DEF ScriptInv
  <1>. QED  BY <1>0, <1>2, <1>3

LEMMA ScriptRepairs == ASSUME TypeOK, ScriptInv, NEW s \in Slots, Repair(s) PROVE ScriptInv'
  <1>. DEFINE r == script[s].role
  <1>. USE DEF fixed, disks, mounts, homes, booting
  <1>0. UNCHANGED <<device, consent>>
    BY DEF Repair, Format, MountBacking, MakeSource, CopyOne, CopyEnds, Verify, Move, MakeTarget,
       Bind, PersistDisk,
       PersistBind, MountAll, ScriptFails, Signalled, Killed
  <1>. USE <1>0 DEF At
  <1>1. CASE Format(s)
    <2>1. r \in device /\ Running(s) /\ \E at \in {"mount", "source"} : Goto(s, at)
      BY <1>1 DEF Format, Running
    <2>. QED  BY <2>1, ScriptGoes DEF Past, HomeAts
  <1>2. CASE MountBacking(s)
    <2>1. r \in device /\ Running(s) /\ Goto(s, "source")
      BY <1>2 DEF MountBacking, Running, ScriptInv, ScriptOk
    <2>. QED  BY <2>1, ScriptGoes DEF Past, HomeAts
  <1>3. CASE MakeSource(s)
    <2>1. r \in device /\ Running(s)
      BY <1>3 DEF MakeSource, Running, ScriptInv, ScriptOk, Past
    <2>2. Goto(s, "bind") \/ (Home(s) /\ (Goto(s, "copy") \/ Goto(s, "move")))
      BY <1>3 DEF MakeSource
    <2>. QED  BY <2>1, <2>2, ScriptGoes DEF Past, HomeAts
  <1>4. CASE CopyEnds(s)
    <2>1. r \in device /\ Running(s) /\ Home(s) /\ Goto(s, "verify")
      BY <1>4 DEF CopyEnds, Running, ScriptInv, ScriptOk, Past, HomeAts
    <2>. QED  BY <2>1, ScriptGoes DEF Past, HomeAts
  <1>5. CASE Verify(s)
    <2>1. r \in device /\ Running(s) /\ Home(s) /\ (Goto(s, "move") \/ Exit(s, "failed"))
      BY <1>5 DEF Verify, Running, ScriptInv, ScriptOk, Past, HomeAts
    <2>. QED  BY <2>1, ScriptGoes, ScriptExits DEF Past, HomeAts
  <1>6. CASE Move(s)
    <2>1. r \in device /\ Running(s) /\ Home(s)
      BY <1>6 DEF Move, Running, ScriptInv, ScriptOk, Past, HomeAts
    <2>2. CASE Goto(s, "mkdir") \/ Exit(s, "failed")
      BY <2>1, <2>2, ScriptGoes, ScriptExits DEF Past, HomeAts
    <2>3. CASE script' = [script EXCEPT ![s].at = "mkdir", ![s].moved = TRUE]
      <3>1. /\ \A t \in Slots \ {s} : script'[t] = script[t]
            /\ script'[s] = [at |-> "mkdir", role |-> script[s].role, reform |-> script[s].reform,
                             stage |-> script[s].stage, moved |-> TRUE, heard |-> script[s].heard]
        BY <2>3, MovedFacts DEF TypeOK
      <3>2. ScriptOk(s)'
        BY <2>1, <3>1 DEF ScriptOk, ScriptInv, Running, Home, Idle, Past, HomeAts
      <3>. QED  BY <3>1, <3>2, ScriptFrame DEF ScriptInv
    <2>. QED  BY <1>6, <2>2, <2>3 DEF Move
  <1>7. CASE MakeTarget(s)
    <2>1. r \in device /\ Running(s) /\ Goto(s, "bind")
      BY <1>7 DEF MakeTarget, Running, ScriptInv, ScriptOk, Past, HomeAts
    <2>. QED  BY <2>1, ScriptGoes DEF Past, HomeAts
  <1>8. CASE Bind(s) \/ PersistDisk(s) \/ PersistBind(s)
    <2>1. r \in device /\ Running(s) /\ \E at \in {"fstab", "fstab-bind", "mount-a"} : Goto(s, at)
      BY <1>8 DEF Bind, PersistDisk, PersistBind, Running, ScriptInv, ScriptOk, Past, HomeAts
    <2>. QED  BY <2>1, ScriptGoes DEF Past, HomeAts
  <1>9. CASE MountAll(s) \/ ScriptFails(s) \/ Killed(s)
    BY <1>9, ScriptExits DEF MountAll, ScriptFails, Killed
  <1>10. CASE CopyOne(s) \/ Signalled(s)
    BY <1>10, ScriptAllFrame DEF CopyOne, Signalled
  <1>. QED  BY <1>1, <1>2, <1>3, <1>4, <1>5, <1>6, <1>7, <1>8, <1>9, <1>10 DEF Repair

LEMMA ScriptReboot == ASSUME TypeOK, ScriptInv, Reboot PROVE ScriptInv'
  <1>1. UNCHANGED <<device, consent>>
    BY DEF Reboot, fixed, disks
  <1>. SUFFICES ASSUME NEW s \in Slots PROVE ScriptOk(s)'
    BY DEF ScriptInv
  <1>0. script[s].heard \in BOOLEAN
    BY DEF TypeOK, Script
  <1>2. CASE ~script[s].heard
    BY <1>2, RebootScripts, IdleOk DEF TypeOK
  <1>3. CASE script[s].heard
    <2>1. script'[s] = [at |-> "failed", role |-> script[s].role, reform |-> script[s].reform,
                        stage |-> script[s].stage, moved |-> script[s].moved, heard |-> TRUE]
      BY <1>3, RebootScripts DEF TypeOK
    <2>. QED  BY <1>1, <2>1 DEF ScriptOk, ScriptInv, Running, Home, Idle, Past, HomeAts
  <1>. QED  BY <1>0, <1>2, <1>3

LEMMA ScriptCommands == ASSUME TypeOK, ScriptInv, CmdInv, CommandStep PROVE ScriptInv'
  <1>. USE DEF fixed, disks, mounts, homes, booting, vmVars
  <1>0. script \in [Slots -> Script] /\ device' = device /\ consent \subseteq consent'
    BY CommandFrame DEF TypeOK, CommandStep, ProbeAndPlan, ProbeFails, Confirm, Launch, Reprobe,
       Collect, Drop
  <1>1. CASE ProbeAndPlan \/ ProbeFails \/ Confirm \/ Reprobe
    BY <1>1, <1>0, ScriptAllFrame DEF ProbeAndPlan, ProbeFails, Confirm, Reprobe
  <1>2. CASE Launch
    <2>1. Next1 \in cmd.todo /\ Next1 \in Roles
      BY <1>2, ConstantsAssumption DEF Launch, Next1, Cmd, TypeOK
    <2>2. PICK s \in Slots : script' = [script EXCEPT ![s] =
            [at |-> "format", role |-> Next1, stage |-> cmd.stages[Next1], moved |-> FALSE, heard |-> TRUE,
             reform |-> Reformats(Next1, cmd.stages[Next1], cmd.force)]]
      BY <1>2 DEF Launch
    <2>3. cmd.stages[Next1] \in ToBuild /\ (Reformats(Next1, cmd.stages[Next1], cmd.force) => Next1 \in consent)
      BY <1>2, <2>1 DEF Launch, CmdInv
    <2>4. \A t \in Slots \ {s} : script'[t] = script[t]
      BY <1>0, <2>2
    <2>5. script'[s] = [at |-> "format", role |-> Next1, stage |-> cmd.stages[Next1], moved |-> FALSE, heard |-> TRUE,
                        reform |-> Reformats(Next1, cmd.stages[Next1], cmd.force)]
      BY <1>0, <2>2
    <2>6. ScriptOk(s)'
      <3>1. script'[s].at = "format" /\ script'[s].role = Next1 /\ script'[s].stage = cmd.stages[Next1] /\ ~script'[s].moved
            /\ (script'[s].reform <=> Reformats(Next1, cmd.stages[Next1], cmd.force))
        BY <2>5
      <3>2. Reformats(Next1, cmd.stages[Next1], cmd.force) => cmd.stages[Next1] = "formatted"
        BY DEF Reformats
      <3>. QED  BY <1>0, <2>1, <2>3, <3>1, <3>2 DEF ScriptOk, Running, Home, Idle, Past, HomeAts
    <2>. QED  BY <1>0, <2>4, <2>6, ScriptFrame DEF ScriptInv
  <1>3. ASSUME NEW s \in Slots, Collect(s) PROVE ScriptInv'
    <2>1. script'[s] = Idle /\ \A t \in Slots \ {s} : script'[t] = script[t]
      BY <1>0, <1>3 DEF Collect
    <2>. QED  BY <1>0, <2>1, IdleOk, ScriptFrame DEF ScriptInv
  <1>4. ASSUME NEW s \in Slots, Drop(s) PROVE ScriptInv'
    <2>1. /\ \A t \in Slots \ {s} : script'[t] = script[t]
          /\ script'[s] = [at |-> script[s].at, role |-> script[s].role, reform |-> script[s].reform,
                           stage |-> script[s].stage, moved |-> script[s].moved, heard |-> FALSE]
      BY <1>0, <1>4, DropFacts DEF Drop
    <2>2. ScriptOk(s)'
      <3>1. script[s].at \notin {"idle", "ok", "failed"}
        BY <1>4 DEF Drop, Running
      <3>. QED  BY <1>0, <2>1, <3>1 DEF ScriptOk, ScriptInv, Running, Home, Idle
    <2>. QED  BY <1>0, <2>1, <2>2, ScriptFrame DEF ScriptInv
  <1>. QED  BY <1>1, <1>2, <1>3, <1>4 DEF CommandStep

-----------------------------------------------------------------------------
(* cloud-init, which is alone on the VM. *)

BootPart == \* what BootInv says of a VM that is not ready
    /\ cmd = NoCmd /\ \A s \in Slots : script[s] = Idle
    /\ \A r \in Roles \ boot.todo : ledger[r] # "none" /\ (ledger[r] = "ok" => Healthy(r))
    /\ Section # "net" => SectionAt(Section, boot.at) /\ boot.at # "finalize"
    /\ Section = "net" => boot.at \in {"wait", "finalize"}
    /\ Section = "home" => HomeAt(boot.at)
    /\ \A r \in boot.todo \ {Section} : bound[r] = "no"

LEMMA BootIs == BootInv <=> /\ foreign # {} => boot.at = "dead"
                            /\ status # "unknown" => boot.at = "done"
                            /\ ~Ready => BootPart
  BY DEF BootInv, BootPart

LEMMA BootIsPrimed == BootInv' <=> /\ foreign' # {} => boot'.at = "dead"
                                   /\ status' # "unknown" => boot'.at = "done"
                                   /\ ~Ready' => BootPart'
  BY DEF BootInv, BootPart

LEMMA BootReady == ASSUME BootInv, Ready, UNCHANGED <<foreign, boot, status>> PROVE BootInv'
  BY DEF BootInv, Ready

LEMMA RunningReady == ASSUME BootInv, NEW s \in Slots, Running(s) PROVE Ready
  BY DEF BootInv, Running, Idle

LEMMA BootOthers ==
    ASSUME TypeOK, BootInv, (\E s \in Slots : Repair(s)) \/ Write \/ Reboot \/ CommandStep
    PROVE  BootInv'
  <1>. USE DEF fixed, disks, mounts, homes, booting
  <1>1. ASSUME NEW s \in Slots, Repair(s) PROVE BootInv'
    <2>1. Running(s)
      BY <1>1 DEF Repair, Format, MountBacking, MakeSource, CopyOne, CopyEnds, Verify, Move,
         MakeTarget, Bind, PersistDisk,
         PersistBind, MountAll, ScriptFails, Signalled, Killed, At, Running
    <2>2. UNCHANGED <<foreign, boot, status>>
      BY <1>1 DEF Repair, Format, MountBacking, MakeSource, CopyOne, CopyEnds, Verify, Move,
         MakeTarget, Bind, PersistDisk,
         PersistBind, MountAll, ScriptFails, Signalled, Killed
    <2>. QED  BY <2>1, <2>2, RunningReady, BootReady
  <1>2. CASE Write
    BY <1>2, BootReady DEF Write
  <1>3. CASE Reboot
    <2>1. boot'.at = (IF boot.at = "done" THEN "done" ELSE "dead") /\ UNCHANGED <<foreign, status>>
      BY <1>3 DEF Reboot, TypeOK
    <2>2. Ready'
      BY <2>1 DEF Ready
    <2>. QED  BY <2>1, <2>2 DEF BootInv
  <1>4. CASE CommandStep
    <2>1. Ready
      <3>1. ~Ready => cmd.at = "idle"
        BY DEF BootInv, NoCmd
      <3>. QED  BY <1>4, <3>1 DEF CommandStep, ProbeAndPlan, ProbeFails, Confirm, Launch, Reprobe,
                   Collect, Drop
    <2>. QED  BY <1>4, <2>1, CommandFrame, BootReady
  <1>. QED  BY <1>1, <1>2, <1>3, <1>4

\* A command of a section: the section goes on.
LEMMA SectionGoes ==
    ASSUME TypeOK, BootInv, NEW at \in {"mount", "copy", "swap", "mkdir", "bind", "persist",
           "clean"},
           ~Ready, Section \in Roles, boot' = [boot EXCEPT !.at = at],
           UNCHANGED <<foreign, script, cmd, ledger, status>>,
           \A r \in Roles \ boot.todo : Healthy(r) => Healthy(r)',
           \A r \in boot.todo \ {Section} : bound'[r] = bound[r],
           SectionAt(Section, at)', Section = "home" => HomeAt(at)'
    PROVE  BootInv'
  <1>1. boot'.at = at /\ boot'.todo = boot.todo /\ Section' = Section /\ at # "finalize"
    BY DEF TypeOK, Section
  <1>2. Section # "net" /\ foreign' = {} /\ status' = "unknown"
    BY ConstantsAssumption DEF BootInv, Ready
  <1>3. ~Ready' /\ cmd' = NoCmd /\ (\A s \in Slots : script'[s] = Idle)
        /\ \A r \in Roles \ boot'.todo : ledger'[r] # "none" /\ (ledger'[r] = "ok" => Healthy(r)')
    BY <1>1 DEF BootInv, Ready
  <1>4. (Section # "net" => SectionAt(Section, boot.at))' /\ (Section = "home" => HomeAt(boot.at))'
    BY <1>1 DEF SectionAt, HomeAt
  <1>5. \A r \in boot'.todo \ {Section'} : bound'[r] = "no"
    BY <1>1 DEF BootInv
  <1>. QED  BY <1>1, <1>2, <1>3, <1>4, <1>5 DEF BootInv

LEMMA SectionEnds ==
    ASSUME TypeOK, BootInv, ~Ready, NEW q \in Roles, q = Section, NEW row \in {"ok", "failed"},
           Ends(row),
           UNCHANGED <<foreign, script, cmd, status, bound>>,
           \A r \in Roles \ boot.todo : Healthy(r) => Healthy(r)', row = "ok" => Healthy(q)'
    PROVE  BootInv'
  <1>1. Section \in boot.todo /\ Section # "net"
    BY ConstantsAssumption DEF Section
  <1>2. boot' = [at |-> "wait", todo |-> boot.todo \ {Section}] /\ ledger' = [ledger EXCEPT ![Section] = row]
    BY <1>1 DEF Ends
  <1>3. Section' = (IF "tmp" \in boot.todo \ {Section} THEN "tmp" ELSE "net")
    BY <1>2, ConstantsAssumption DEF Section, TypeOK
  <1>4. ~Ready' /\ foreign' = {} /\ status' = "unknown" /\ boot'.at = "wait"
    BY <1>2 DEF BootInv, Ready
  <1>5. cmd' = NoCmd /\ \A s \in Slots : script'[s] = Idle
    BY DEF BootInv
  <1>6. \A r \in Roles \ boot'.todo : ledger'[r] # "none" /\ (ledger'[r] = "ok" => Healthy(r)')
    <2>. SUFFICES ASSUME NEW r \in Roles, r \notin boot'.todo PROVE ledger'[r] # "none" /\ (ledger'[r] = "ok" => Healthy(r)')
      OBVIOUS
    <2>1. CASE r = q
      BY <1>1, <1>2, <2>1 DEF TypeOK
    <2>2. CASE r # q
      <3>1. ledger'[r] = ledger[r] /\ r \notin boot.todo
        BY <1>2, <2>2 DEF TypeOK
      <3>. QED  BY <3>1 DEF BootInv
    <2>. QED  BY <2>1, <2>2
  <1>7. \A r \in boot'.todo : bound'[r] = "no"
    BY <1>2 DEF BootInv
  <1>8. Section' # "net" => Section' \in boot'.todo
    BY <1>2, <1>3
  <1>9. (Section # "net" => SectionAt(Section, boot.at) /\ boot.at # "finalize")'
    BY <1>4, <1>7, <1>8 DEF SectionAt
  <1>10. (Section = "net" => boot.at \in {"wait", "finalize"})' /\ (Section = "home" => HomeAt(boot.at))'
    BY <1>3, <1>4
  <1>. QED  BY <1>4, <1>5, <1>6, <1>7, <1>9, <1>10 DEF BootInv

LEMMA BootRuns == ASSUME TypeOK, DiskInv, DataInv, BootInv, CloudInit, UNCHANGED cmd PROVE BootInv'
  <1>. USE DEF fixed, disks, mounts, homes, Step
  <1>0. UNCHANGED <<foreign, script>>
    BY DEF CloudInit, BootMkfs, BootMount, BootCopy, BootSwap, BootMkdir, BootBind, BootPersist,
       BootClean, SectionFails,
       BootNet, Finalize
  <1>1. CASE BootMkfs
    <2>1. Section \in Roles /\ Section \in device /\ ~Ready /\ boot.at = "wait"
      BY <1>1 DEF BootMkfs, TypeOK, Ready
    <2>2. Mkfs(Section) /\ UNCHANGED <<device, mounted, bound, fstab, ledger, status>> /\ boot' = [boot EXCEPT !.at = "mount"]
      BY <1>1 DEF BootMkfs
    <2>3. Section # "net" /\ SectionAt(Section, "wait") /\ (Section = "home" => HomeAt("wait"))
      BY <2>1, ConstantsAssumption DEF BootInv
    <2>4. Section' = Section
      BY <2>2 DEF TypeOK, Section
    <2>5. SectionAt(Section, "mount")'
      BY <2>1, <2>2, <2>3, <2>4, MkfsTyped DEF SectionAt
    <2>6. Section = "home" => HomeAt("mount")'
      BY <2>2, <2>3 DEF HomeAt, Mkfs, TypeOK, Places
    <2>7. \A r \in Roles \ boot.todo : Healthy(r) => Healthy(r)'
      BY <2>1, <2>2, DurableMkfs DEF Healthy
    <2>. QED  BY <1>0, <2>1, <2>2, <2>5, <2>6, <2>7, SectionGoes
  <1>2. CASE BootMount
    <2>1. Section \in Roles /\ ~Ready /\ SectionAt(Section, "mount") /\ (Section = "home" => HomeAt("mount"))
      BY <1>2, SectionFacts DEF BootMount
    <2>2. UNCHANGED <<device, fs, bound, fstab, ledger, status>> /\ mounted' = mounted \cup {Section}
      BY <1>2 DEF BootMount
    <2>3. \A r \in Roles \ boot.todo : Healthy(r) => Healthy(r)'
      BY <2>2, DurableFrame DEF Healthy
    <2>4. Section' = Section
      BY <1>2 DEF BootMount, TypeOK, Section
    <2>5. CASE Section = "home"
      <3>1. boot' = [boot EXCEPT !.at = "copy"] /\ dirs' = dirs \cup {"disk"} /\ files' = files
        BY <1>2, <2>5 DEF BootMount, MakeDir
      <3>2. SectionAt(Section, "copy")'
        BY <2>1, <2>2, <2>4, <2>5 DEF SectionAt
      <3>3. HomeAt("copy")'
        BY <2>1, <2>5, <3>1 DEF HomeAt, DataInv, Places
      <3>. QED  BY <1>0, <2>1, <2>2, <2>3, <3>1, <3>2, <3>3, SectionGoes
    <2>6. CASE Section # "home"
      <3>1. boot' = [boot EXCEPT !.at = "bind"]
        BY <1>2, <2>6 DEF BootMount
      <3>2. SectionAt(Section, "bind")'
        BY <2>1, <2>2, <2>4 DEF SectionAt
      <3>. QED  BY <1>0, <2>1, <2>2, <2>3, <2>6, <3>1, <3>2, SectionGoes
    <2>. QED  BY <2>5, <2>6
  <1>3. CASE BootCopy \/ BootSwap \/ BootMkdir
    <2>1. Section = "home" /\ Section \in Roles /\ ~Ready /\ SectionAt("home", boot.at) /\ HomeAt(boot.at)
      BY <1>3, SectionFacts DEF BootCopy, BootSwap, BootMkdir, SectionAt
    <2>2. UNCHANGED <<device, fs, mounted, bound, fstab, ledger, status>>
      BY <1>3 DEF BootCopy, BootSwap, BootMkdir
    <2>3. \A r \in Roles \ boot.todo : Healthy(r) => Healthy(r)'
      BY <2>2, DurableFrame DEF Healthy
    <2>4. CASE BootCopy
      <3>1. boot' = [boot EXCEPT !.at = "swap"] /\ Section' = "home"
        BY <2>1, <2>4 DEF BootCopy, TypeOK, Section
      <3>2. SectionAt(Section, "swap")'
        BY <2>1, <2>2, <2>4, <3>1 DEF BootCopy, SectionAt
      <3>3. HomeAt("swap")'
        BY <2>1, <2>4 DEF BootCopy, HomeAt, TypeOK, Places
      <3>. QED  BY <1>0, <2>1, <2>2, <2>3, <3>1, <3>2, <3>3, SectionGoes
    <2>5. CASE BootSwap
      <3>1. boot' = [boot EXCEPT !.at = "mkdir"] /\ Section' = "home" /\ Rename("os", "old")
        BY <2>1, <2>5 DEF BootSwap, TypeOK, Section
      <3>2. SectionAt(Section, "mkdir")'
        BY <2>1, <2>2, <2>5, <3>1 DEF BootSwap, SectionAt
      <3>3. HomeAt("mkdir")'
        BY <2>1, <2>5, <3>1, RenameTyped DEF BootSwap, HomeAt, Places
      <3>. QED  BY <1>0, <2>1, <2>2, <2>3, <3>1, <3>2, <3>3, SectionGoes
    <2>6. CASE BootMkdir
      <3>1. boot' = [boot EXCEPT !.at = "bind"] /\ Section' = "home" /\ dirs' = dirs \cup {"os"} /\ files' = files
        BY <2>1, <2>6 DEF BootMkdir, TypeOK, Section, MakeDir
      <3>2. SectionAt(Section, "bind")'
        BY <2>1, <2>2, <2>6, <3>1 DEF BootMkdir, SectionAt
      <3>3. HomeAt("bind")'
        BY <2>1, <2>6, <3>1 DEF BootMkdir, HomeAt, DataInv, Places
      <3>. QED  BY <1>0, <2>1, <2>2, <2>3, <3>1, <3>2, <3>3, SectionGoes
    <2>. QED  BY <1>3, <2>4, <2>5, <2>6
  <1>4. CASE BootBind
    <2>1. Section \in Roles /\ ~Ready /\ SectionAt(Section, "bind") /\ (Section = "home" => HomeAt("bind")) /\ Section \in boot.todo
      BY <1>4, SectionFacts DEF BootBind
    <2>2. boot' = [boot EXCEPT !.at = "persist"] /\ bound' = [bound EXCEPT ![Section] = "disk"]
          /\ UNCHANGED <<device, fs, mounted, fstab, ledger, status, dirs, files>>
      BY <1>4 DEF BootBind
    <2>3. Section' = Section
      BY <2>2 DEF TypeOK, Section
    <2>4. \A r \in Roles \ boot.todo : Healthy(r) => Healthy(r)'
      BY <2>1, <2>2, DurableFrame DEF Healthy, TypeOK
    <2>5. SectionAt(Section, "persist")' /\ (Section = "home" => HomeAt("persist")')
      BY <2>1, <2>2, <2>3 DEF SectionAt, HomeAt, TypeOK
    <2>6. \A r \in boot.todo \ {Section} : bound'[r] = bound[r]
      BY <2>2 DEF TypeOK
    <2>. QED  BY <1>0, <2>1, <2>2, <2>4, <2>5, <2>6, SectionGoes
  <1>5. CASE BootPersist
    <2>1. Section \in Roles /\ ~Ready /\ SectionAt(Section, "persist") /\ (Section = "home" => HomeAt("persist"))
      BY <1>5, SectionFacts DEF BootPersist
    <2>2. boot' = [boot EXCEPT !.at = "clean"]
          /\ fstab' = [fstab EXCEPT ![Section] = [uuids |-> @.uuids \cup {fs[Section]}, bind |-> TRUE]]
          /\ UNCHANGED <<device, fs, mounted, bound, ledger, status, dirs, files>>
      BY <1>5 DEF BootPersist
    <2>3. Section' = Section
      BY <2>2 DEF TypeOK, Section
    <2>4. \A r \in Roles \ boot.todo : Healthy(r) => Healthy(r)'
      BY <2>1, <2>2, DurableFstab DEF Healthy
    <2>5. Persisted(Section)'
      BY <2>1, <2>2, <2>3 DEF Persisted, TypeOK
    <2>6. SectionAt(Section, "clean")' /\ (Section = "home" => HomeAt("clean")')
      BY <2>1, <2>2, <2>3, <2>5 DEF SectionAt, HomeAt
    <2>. QED  BY <1>0, <2>1, <2>2, <2>4, <2>6, SectionGoes
  <1>6. CASE BootClean
    <2>1. Section \in Roles /\ ~Ready /\ SectionAt(Section, "clean")
      BY <1>6, SectionFacts DEF BootClean
    <2>2. UNCHANGED <<device, fs, mounted, bound, fstab, status>> /\ Ends("ok")
      BY <1>6 DEF BootClean
    <2>3. \A r \in Roles : Healthy(r) => Healthy(r)'
      BY <2>2, DurableFrame DEF Healthy
    <2>4. PICK r \in Roles : r = Section
      BY <2>1
    <2>5. Healthy(r)
      BY <2>1, <2>4 DEF SectionAt, Healthy, Durable
    <2>. QED  BY <1>0, <2>1, <2>2, <2>3, <2>4, <2>5, SectionEnds
  <1>7. CASE SectionFails
    <2>1. Section \in Roles /\ ~Ready
      BY <1>7 DEF SectionFails, Section, TypeOK, Ready
    <2>2. UNCHANGED <<device, fs, mounted, bound, fstab, status>> /\ Ends("failed")
      BY <1>7 DEF SectionFails
    <2>3. \A r \in Roles : Healthy(r) => Healthy(r)'
      BY <2>2, DurableFrame DEF Healthy
    <2>. QED  BY <1>0, <2>1, <2>2, <2>3, SectionEnds
  <1>8. CASE BootNet
    <2>1. Section = "net" /\ boot.at = "wait" /\ UNCHANGED <<device, fs, mounted, bound, fstab, status, dirs, files>>
      BY <1>8 DEF BootNet
    <2>2. boot.todo = {} /\ boot' = [at |-> "finalize", todo |-> {}]
      <3>1. "home" \notin boot.todo /\ "tmp" \notin boot.todo
        BY <2>1 DEF Section
      <3>2. boot.todo = {}
        BY <3>1, ConstantsAssumption DEF TypeOK
      <3>. QED  BY <1>8, <2>1, <3>2 DEF BootNet, Ends
    <2>3. PICK row : ledger' = [ledger EXCEPT !["net"] = row]
      BY <1>8, <2>1 DEF BootNet, Ends
    <2>4. Section' = "net" /\ ~Ready /\ ~Ready'
      BY <2>1, <2>2 DEF Section, Ready
    <2>5. \A r \in Roles : ledger'[r] = ledger[r]
      BY <2>3, ConstantsAssumption DEF TypeOK
    <2>6. \A r \in Roles : Healthy(r) => Healthy(r)'
      BY <2>1, DurableFrame DEF Healthy
    <2>. QED  BY <1>0, <2>1, <2>2, <2>4, <2>5, <2>6 DEF BootInv
  <1>9. CASE Finalize
    <2>1. boot.at = "finalize" /\ boot'.at = "done" /\ ~Ready
      BY <1>9 DEF Finalize, TypeOK, Ready
    <2>2. foreign' = {}
      BY <1>0, <2>1 DEF BootInv
    <2>. QED  BY <2>1, <2>2 DEF BootInv, Ready
  <1>. QED  BY <1>1, <1>2, <1>3, <1>4, <1>5, <1>6, <1>7, <1>8, <1>9 DEF CloudInit

-----------------------------------------------------------------------------
(* status=ok. *)

LEMMA HealthyIsShown ==
    ASSUME TypeOK, DiskInv, NEW r \in Roles
    PROVE  Stage(r) = "healthy" => r \in device /\ r \in mounted /\ bound[r] = "disk"
  BY DEF Stage, Probe

LEMMA BackingIsMounted == ASSUME NEW r PROVE Stage(r) = "backing-mounted" => r \in mounted
  BY DEF Stage, Probe

LEMMA HealthyStage == ASSUME TypeOK, DiskInv, NEW r \in Roles, Healthy(r) PROVE Stage(r) = "healthy"
  <1>1. r \in device /\ fs[r] # Blank /\ r \in mounted /\ bound[r] = "disk"
    BY DEF DiskInv, Healthy, Durable, Blank
  <1>. QED  BY <1>1 DEF Stage, Probe

LEMMA StatusFrame ==
    ASSUME StatusInv, UNCHANGED <<device, fs, mounted, bound, fstab, status, script>>,
           cmd'.at = cmd.at
    PROVE  StatusInv'
  BY DEF StatusInv, Healthy, Durable, Persisted

LEMMA StatusKept == ASSUME TypeOK, DiskInv, BootInv, StatusInv, Next PROVE StatusInv'
  <1>. USE DEF fixed, disks, mounts, homes, booting
  <1>1. CASE Finalize /\ UNCHANGED cmd
    <2>1. boot.at = "finalize" /\ ~Ready /\ UNCHANGED <<device, fs, mounted, bound, fstab, script>>
      BY <1>1 DEF Finalize, Step, Ready
    <2>2. SUFFICES ASSUME status' = "ok" PROVE StatusInv'
      BY DEF StatusInv
    <2>3. \A r \in Roles : ledger[r] # "failed"
      BY <1>1, <2>2 DEF Finalize, TypeOK
    <2>4. "home" \notin boot.todo /\ "tmp" \notin boot.todo
      BY <2>1 DEF BootInv, Section
    <2>5. \A r \in Roles : Healthy(r)
      BY <2>1, <2>3, <2>4, ConstantsAssumption DEF BootInv, TypeOK
    <2>6. cmd'.at = "idle" /\ \A s \in Slots : script'[s] = Idle
      BY <1>1, <2>1 DEF BootInv, NoCmd
    <2>. QED  BY <2>1, <2>5, <2>6 DEF StatusInv, Healthy, Durable, Persisted
  <1>2. CASE ~(Finalize /\ UNCHANGED cmd) /\ status' = "ok"
    <2>1. status = "ok"
      BY <1>2 DEF Next, VmNext, CloudInit, BootMkfs, BootMount, BootCopy, BootSwap, BootMkdir,
         BootBind, BootPersist, BootClean,
         SectionFails, BootNet, Repair, Format, MountBacking, MakeSource, CopyOne, CopyEnds, Verify, Move, MakeTarget, Bind,
         PersistDisk, PersistBind, MountAll, ScriptFails, Signalled, Killed, Write, Reboot, ProbeAndPlan, ProbeFails, Confirm,
         Launch, Reprobe, Collect, Drop, vmVars
    <2>2. boot.at = "done" /\ cmd.at = "idle" /\ (\A s \in Slots : script[s] = Idle) /\ \A r \in Roles : Healthy(r)
      BY <2>1 DEF BootInv, StatusInv
    <2>3. ~CloudInit \/ Finalize
      BY <2>2 DEF CloudInit, BootMkfs, BootMount, BootCopy, BootSwap, BootMkdir, BootBind,
         BootPersist, BootClean, SectionFails,
         BootNet, Step
    <2>4. ~Finalize
      BY <2>2 DEF Finalize, Step
    <2>5. \A s \in Slots : ~Repair(s) /\ ~Collect(s) /\ ~Drop(s)
      BY <2>2 DEF Idle, Repair, Format, MountBacking, MakeSource, CopyOne, CopyEnds, Verify, Move,
         MakeTarget, Bind, PersistDisk,
         PersistBind, MountAll, ScriptFails, Signalled, Killed, At, Running, Collect, Drop
    <2>6. CASE Write /\ UNCHANGED cmd
      BY <2>6, StatusFrame DEF Write
    <2>7. CASE Reboot /\ UNCHANGED cmd
      <3>1. UNCHANGED <<device, fs, fstab, cmd>> /\ mounted' = ByFstab({})
        BY <2>7 DEF Reboot
      <3>2. \A s \in Slots : script'[s] = Idle
        BY <2>2, <2>7, RebootScripts, IdleIsScript DEF TypeOK
      <3>3. \A r \in Roles : r \in mounted'
        BY <2>2, <3>1 DEF ByFstab, Healthy, Durable, Persisted
      <3>4. \A r \in Roles : bound'[r] = "disk"
        BY <2>2, <2>7, <3>3 DEF Reboot, Healthy, Durable, Persisted, DiskInv
      <3>. QED  BY <2>2, <3>1, <3>2, <3>3, <3>4 DEF StatusInv, Healthy, Durable, Persisted
    <2>8. CASE ProbeAndPlan
      <3>1. \A r \in Roles : Stage(r) = "healthy"
        BY <2>2, HealthyStage
      <3>2. cmd' = [NoCmd EXCEPT !.verdict = "ok"] /\ UNCHANGED vmVars
        BY <2>8, <3>1 DEF ProbeAndPlan
      <3>3. cmd'.at = "idle"
        BY <3>2 DEF NoCmd
      <3>. QED  BY <2>2, <3>2, <3>3, StatusFrame DEF vmVars
    <2>9. CASE ProbeFails
      BY <2>2, <2>9, StatusFrame DEF ProbeFails, vmVars, NoCmd
    <2>10. ~Confirm /\ ~Launch /\ ~Reprobe
      BY <2>2 DEF Confirm, Launch, Reprobe
    <2>. QED  BY <1>2, <2>3, <2>4, <2>5, <2>6, <2>7, <2>8, <2>9, <2>10 DEF Next, VmNext
  <1>3. CASE status' # "ok"
    BY <1>3 DEF StatusInv
  <1>. QED  BY <1>1, <1>2, <1>3

-----------------------------------------------------------------------------
(* The command. *)

LEMMA CmdFrame ==
    ASSUME CmdInv, UNCHANGED cmd, consent \subseteq consent', Ready => Ready'
    PROVE  CmdInv'
  BY DEF CmdInv, Reformats

LEMMA CmdIdle == ASSUME cmd'.at = "idle" PROVE CmdInv'
  BY DEF CmdInv

LEMMA CmdVm == ASSUME TypeOK, CmdInv, VmNext, UNCHANGED cmd PROVE CmdInv'
  <1>. USE DEF fixed, disks, mounts, homes, booting
  <1>1. consent' = consent
    BY DEF VmNext, CloudInit, BootMkfs, BootMount, BootCopy, BootSwap, BootMkdir, BootBind,
       BootPersist, BootClean,
       SectionFails, BootNet, Finalize, Repair, Format, MountBacking, MakeSource, CopyOne, CopyEnds, Verify, Move, MakeTarget,
       Bind, PersistDisk, PersistBind, MountAll, ScriptFails, Signalled, Killed, Write, Reboot
  <1>2. Ready => Ready'
    <2>1. ASSUME CloudInit, Ready PROVE FALSE
      BY <2>1 DEF Ready, CloudInit, BootMkfs, BootMount, BootCopy, BootSwap, BootMkdir, BootBind,
         BootPersist, BootClean,
         SectionFails, BootNet, Finalize, Step
    <2>2. CASE (\E s \in Slots : Repair(s)) \/ Write
      BY <2>2 DEF Ready, Repair, Format, MountBacking, MakeSource, CopyOne, CopyEnds, Verify, Move,
         MakeTarget, Bind, PersistDisk,
         PersistBind, MountAll, ScriptFails, Signalled, Killed, Write
    <2>3. CASE Reboot
      <3>1. boot'.at = (IF boot.at = "done" THEN "done" ELSE "dead")
        BY <2>3 DEF Reboot, TypeOK
      <3>. QED  BY <3>1 DEF Ready
    <2>. QED  BY <2>1, <2>2, <2>3 DEF VmNext
  <1>. QED  BY <1>1, <1>2, CmdFrame

LEMMA CmdCommands == ASSUME TypeOK, DiskInv, CmdInv, CommandStep PROVE CmdInv'
  <1>. USE DEF booting, vmVars
  <1>1. CASE ProbeAndPlan
    <2>. DEFINE stages == [r \in Roles |-> Stage(r)]
    <2>1. PICK force \in BOOLEAN :
            LET plan == {r \in Roles : Buildable(r, stages[r], force)}
            IN  IF \A r \in Roles : stages[r] = "healthy" THEN cmd' = [NoCmd EXCEPT !.verdict = "ok"]
                ELSE IF plan = {} THEN cmd' = [NoCmd EXCEPT !.verdict = "bail"]
                ELSE cmd' = [NoCmd EXCEPT !.stages = stages, !.force = force, !.todo = plan,
                             !.at = IF \E r \in plan : Reformats(r, stages[r], force) THEN "confirm" ELSE "run"]
      BY <1>1 DEF ProbeAndPlan
    <2>. DEFINE plan == {r \in Roles : Buildable(r, stages[r], force)}
    <2>2. CASE cmd' = [NoCmd EXCEPT !.verdict = "ok"] \/ cmd' = [NoCmd EXCEPT !.verdict = "bail"]
      BY <2>2, CmdIdle DEF NoCmd
    <2>3. CASE cmd' = [NoCmd EXCEPT !.stages = stages, !.force = force, !.todo = plan,
                       !.at = IF \E r \in plan : Reformats(r, stages[r], force) THEN "confirm" ELSE "run"]
      <3>1. \A r \in plan : stages[r] \in ToBuild
        BY DEF Buildable, Stage, Probe, ToBuild
      <3>2. Ready /\ Ready'
        BY <1>1 DEF ProbeAndPlan, Ready
      <3>3. cmd'.todo = plan /\ cmd'.stages = stages /\ cmd'.force = force /\ cmd'.ran = {} /\ cmd'.verdict = "none"
        /\ cmd'.at = (IF \E r \in plan : Reformats(r, stages[r], force) THEN "confirm" ELSE "run")
        <4>. HIDE DEF stages, plan
        <4>. QED  BY <2>3 DEF NoCmd
      <3>. HIDE DEF stages, plan
      <3>. QED  BY <3>1, <3>2, <3>3 DEF CmdInv
    <2>. QED  BY <2>1, <2>2, <2>3
  <1>2. CASE ProbeFails \/ Reprobe
    BY <1>2, CmdIdle DEF ProbeFails, Reprobe, Finish, NoCmd
  <1>3. CASE Confirm
    <2>1. Ready /\ Ready' /\ cmd \in Cmd
      BY <1>3 DEF Confirm, CmdInv, Ready, TypeOK
    <2>2. CASE cmd' = [NoCmd EXCEPT !.verdict = "declined"]
      BY <2>2, CmdIdle DEF NoCmd
    <2>3. CASE cmd' = [cmd EXCEPT !.at = "run"]
               /\ consent' = consent \cup {r \in cmd.todo : Reformats(r, cmd.stages[r], cmd.force)}
      <3>1. cmd'.todo = cmd.todo /\ cmd'.stages = cmd.stages /\ cmd'.force = cmd.force /\ cmd'.at = "run"
            /\ cmd'.verdict = cmd.verdict
        BY <2>1, <2>3 DEF Cmd
      <3>2. cmd.verdict # "ok"
        BY <1>3 DEF Confirm, CmdInv
      <3>. QED  BY <1>3, <2>1, <2>3, <3>1, <3>2 DEF Confirm, CmdInv
    <2>. QED  BY <1>3, <2>2, <2>3 DEF Confirm
  <1>4. CASE Launch
    <2>1. Ready /\ Ready' /\ cmd \in Cmd /\ UNCHANGED consent
      BY <1>4 DEF Launch, CmdInv, Ready, TypeOK, disks
    <2>2. cmd'.todo = cmd.todo \ {Next1} /\ cmd'.stages = cmd.stages /\ cmd'.force = cmd.force /\ cmd'.at = "wait"
          /\ cmd'.verdict = cmd.verdict
      BY <1>4, <2>1 DEF Launch, Cmd
    <2>. QED  BY <1>4, <2>1, <2>2 DEF Launch, CmdInv
  <1>5. ASSUME NEW s \in Slots, Collect(s) \/ Drop(s) PROVE CmdInv'
    <2>1. Ready /\ Ready' /\ cmd \in Cmd /\ UNCHANGED consent
      BY <1>5 DEF Collect, Drop, CmdInv, Ready, TypeOK, disks
    <2>2. cmd'.todo = cmd.todo /\ cmd'.stages = cmd.stages /\ cmd'.force = cmd.force /\ cmd'.at = "run"
          /\ cmd'.verdict = cmd.verdict
      BY <1>5, <2>1 DEF Collect, Drop, Cmd
    <2>. QED  BY <1>5, <2>1, <2>2 DEF Collect, Drop, CmdInv
  <1>. QED  BY <1>1, <1>2, <1>3, <1>4, <1>5 DEF CommandStep

-----------------------------------------------------------------------------
(* The ok of azlin disk repair. *)

LEMMA OkQuiet ==
    ASSUME cmd'.at = "idle", cmd'.verdict # "ok", \A s \in Slots : ~script'[s].heard
    PROVE  OkInv'
  BY DEF OkInv, TodoOk, RanOk, VerdictOk

LEMMA OkBoot == ASSUME TypeOK, BootInv, CloudInit, UNCHANGED cmd PROVE OkInv'
  <1>1. ~Ready /\ script' = script
    BY DEF Ready, CloudInit, BootMkfs, BootMount, BootCopy, BootSwap, BootMkdir, BootBind,
       BootPersist, BootClean,
       SectionFails, BootNet, Finalize, Step
  <1>2. cmd = NoCmd /\ \A s \in Slots : script[s] = Idle
    BY <1>1 DEF BootInv
  <1>. QED  BY <1>1, <1>2, IdleIsScript, OkQuiet DEF NoCmd

LEMMA HeardIdle == ASSUME OkInv, cmd.at # "wait" PROVE \A s \in Slots : ~script[s].heard
  BY DEF OkInv, HeardOk

LEMMA OkReboot ==
    ASSUME TypeOK, DiskInv, BootInv, ScriptInv, CmdInv, OkInv, Next, Reboot, UNCHANGED cmd
    PROVE  OkInv'
  <1>. USE DEF fixed, disks, mounts, homes, booting
  <1>0. script \in [Slots -> Script] /\ cmd.ran \subseteq Roles
    BY DEF TypeOK, Cmd
  <1>2. \A s \in Slots : script[s].heard => script'[s].heard /\ script'[s].at = "failed" /\ script'[s].role = script[s].role
    <2>. SUFFICES ASSUME NEW s \in Slots, script[s].heard
                  PROVE  script'[s].heard /\ script'[s].at = "failed" /\ script'[s].role = script[s].role
      OBVIOUS
    <2>1. script'[s] = [at |-> "failed", role |-> script[s].role, reform |-> script[s].reform,
                        stage |-> script[s].stage, moved |-> script[s].moved, heard |-> TRUE]
      BY <1>0, RebootScripts
    <2>. QED  BY <2>1
  <1>1. \A s \in Slots : script'[s] = Idle \/ (script[s].heard /\ script'[s].heard /\ script'[s].at = "failed"
                                              /\ script'[s].role = script[s].role)
    BY <1>0, <1>2, RebootScripts
  <1>3. \A s \in Slots : script'[s].heard => HeardOk(s)'
    BY <1>1, <1>2, IdleIsScript DEF OkInv, HeardOk, Past, HomeAts
  <1>4. TodoOk'
    BY <1>1, IdleIsScript DEF TodoOk, Running
  <1>5. RanOk'
    BY <1>0, <1>2, DurableStays DEF OkInv, RanOk
  <1>6. VerdictOk'
    <2>. SUFFICES ASSUME cmd.verdict = "ok", NEW r \in cmd.ran PROVE bound'[r] = "disk"
      BY DEF VerdictOk
    <2>1. \A s \in Slots : ~script[s].heard
      BY HeardIdle DEF CmdInv
    <2>2. Durable(r) /\ bound[r] = "disk" /\ r \in Roles
      BY <1>0, <2>1 DEF OkInv, RanOk, VerdictOk
    <2>3. r = "home" => "disk" \in dirs
      BY <2>2 DEF DiskInv
    <2>4. r \in mounted' /\ fstab[r].bind
      BY <2>2 DEF Reboot, ByFstab, Durable, Persisted
    <2>. QED  BY <2>2, <2>3, <2>4 DEF Reboot
  <1>. QED  BY <1>3, <1>4, <1>5, <1>6 DEF OkInv

\* Nothing that OkInv speaks of changes but the command's own record.
LEMMA OkSame ==
    ASSUME OkInv, UNCHANGED <<device, fs, mounted, fstab, script, cmd>>, VerdictOk' PROVE OkInv'
  BY DEF OkInv, HeardOk, TodoOk, RanOk, Durable, Persisted, Alone, Running

LEMMA OkCommands ==
    ASSUME TypeOK, DiskInv, ScriptInv, BootInv, CmdInv, OkInv, CommandStep
    PROVE  OkInv'
  <1>. USE DEF booting, vmVars, mounts, fixed, disks
  <1>0. script \in [Slots -> Script] /\ cmd \in Cmd /\ UNCHANGED <<device, fs, mounted, bound, fstab>>
    BY CommandFrame DEF TypeOK
  <1>1. CASE ProbeAndPlan
    <2>1. \A s \in Slots : ~script[s].heard /\ script'[s] = script[s]
      BY <1>1, HeardIdle DEF ProbeAndPlan
    <2>. DEFINE stages == [r \in Roles |-> Stage(r)]
    <2>2. PICK force \in BOOLEAN :
            LET plan == {r \in Roles : Buildable(r, stages[r], force)}
            IN  IF \A r \in Roles : stages[r] = "healthy" THEN cmd' = [NoCmd EXCEPT !.verdict = "ok"]
                ELSE IF plan = {} THEN cmd' = [NoCmd EXCEPT !.verdict = "bail"]
                ELSE cmd' = [NoCmd EXCEPT !.stages = stages, !.force = force, !.todo = plan,
                             !.at = IF \E r \in plan : Reformats(r, stages[r], force) THEN "confirm" ELSE "run"]
      BY <1>1 DEF ProbeAndPlan
    <2>. DEFINE plan == {r \in Roles : Buildable(r, stages[r], force)}
    <2>3. CASE cmd' = [NoCmd EXCEPT !.verdict = "ok"] \/ cmd' = [NoCmd EXCEPT !.verdict = "bail"]
      <3>1. cmd'.at = "idle" /\ cmd'.ran = {}
        BY <2>3 DEF NoCmd
      <3>. QED  BY <2>1, <3>1 DEF OkInv, TodoOk, RanOk, VerdictOk
    <2>4. CASE cmd' = [NoCmd EXCEPT !.stages = stages, !.force = force, !.todo = plan,
                       !.at = IF \E r \in plan : Reformats(r, stages[r], force) THEN "confirm" ELSE "run"]
      <3>1. cmd'.todo = plan /\ cmd'.stages = stages /\ cmd'.ran = {} /\ cmd'.verdict = "none"
        <4>. HIDE DEF stages, plan
        <4>. QED  BY <2>4 DEF NoCmd
      <3>2. \A r \in plan : stages[r] = "backing-mounted" => r \in mounted
        <4>1. \A r \in plan : stages[r] = Stage(r)
          OBVIOUS
        <4>. HIDE DEF stages, plan
        <4>. QED  BY <4>1, BackingIsMounted
      <3>3. TodoOk'
        <4>. HIDE DEF stages, plan
        <4>. QED  BY <1>0, <3>1, <3>2 DEF TodoOk
      <3>. HIDE DEF stages, plan
      <3>. QED  BY <2>1, <3>1, <3>3 DEF OkInv, RanOk, VerdictOk
    <2>. QED  BY <2>2, <2>3, <2>4
  <1>2. CASE ProbeFails
    <2>1. \A s \in Slots : ~script[s].heard /\ script'[s] = script[s]
      BY <1>0, <1>2, HeardIdle DEF ProbeFails, Cmd
    <2>. QED  BY <1>2, <2>1, OkQuiet DEF ProbeFails, NoCmd
  <1>3. CASE Confirm
    <2>1. \A s \in Slots : ~script[s].heard /\ script'[s] = script[s]
      BY <1>3, HeardIdle DEF Confirm
    <2>2. CASE cmd' = [NoCmd EXCEPT !.verdict = "declined"]
      BY <2>1, <2>2, OkQuiet DEF NoCmd
    <2>3. CASE cmd' = [cmd EXCEPT !.at = "run"]
      <3>1. cmd'.todo = cmd.todo /\ cmd'.stages = cmd.stages /\ cmd'.ran = {} /\ cmd'.verdict # "ok" /\ cmd'.at = "run"
        BY <1>0, <1>3, <2>3 DEF Cmd, CmdInv, Confirm
      <3>2. TodoOk'
        BY <1>0, <1>3, <2>1, <3>1 DEF OkInv, TodoOk, Running, Confirm
      <3>. QED  BY <2>1, <3>1, <3>2 DEF OkInv, RanOk, VerdictOk
    <2>. QED  BY <1>3, <2>2, <2>3 DEF Confirm
  <1>4. CASE Launch
    <2>1. \A s \in Slots : ~script[s].heard
      BY <1>4, HeardIdle DEF Launch
    <2>2. PICK r \in Roles : r = Next1 /\ r \in cmd.todo
      BY <1>0, <1>4, ConstantsAssumption DEF Launch, Next1, Cmd
    <2>3. PICK s \in Slots : At(s, "idle") /\ script' = [script EXCEPT ![s] =
            [at |-> "format", role |-> Next1, stage |-> cmd.stages[Next1], moved |-> FALSE, heard |-> TRUE,
             reform |-> Reformats(Next1, cmd.stages[Next1], cmd.force)]]
      BY <1>4 DEF Launch
    <2>4. \A t \in Slots \ {s} : script'[t] = script[t]
      BY <1>0, <2>2, <2>3
    <2>5. script'[s].at = "format" /\ script'[s].role = r /\ script'[s].stage = cmd.stages[r] /\ script'[s].heard
      BY <1>0, <2>2, <2>3
    <2>6. cmd'.todo = cmd.todo \ {r} /\ cmd'.stages = cmd.stages /\ cmd'.ran = cmd.ran \cup {r}
          /\ cmd'.failed = cmd.failed /\ cmd'.at = "wait" /\ cmd'.verdict = cmd.verdict
      BY <1>0, <1>4, <2>2 DEF Launch, Cmd
    <2>7. cmd.at = "run" /\ cmd.verdict # "ok"
      BY <1>4 DEF Launch, CmdInv
    <2>8. cmd.stages[r] = "backing-mounted" => r \in mounted \/ \A t \in Slots : script[t].role = r => ~Running(t)
      BY <2>2, <2>7 DEF OkInv, TodoOk
    <2>9. \A t \in Slots \ {s} : Running(t)' <=> Running(t)
      BY <2>4 DEF Running
    <2>10. HeardOk(s)'
      <3>1. script'[s].stage = "backing-mounted" => r \in mounted' \/ Alone(s, r)'
        BY <1>0, <2>4, <2>5, <2>8 DEF Alone, Running
      <3>2. \A t \in Slots : script'[t].heard => t = s
        BY <2>1, <2>4
      <3>3. r \in cmd'.ran \ cmd'.todo
        BY <2>6
      <3>4. script'[s].at \notin Past
        BY <2>5 DEF Past, HomeAts
      <3>. QED  BY <2>5, <2>6, <3>1, <3>2, <3>3, <3>4 DEF HeardOk
    <2>11. \A t \in Slots : script'[t].heard => t = s
      BY <2>1, <2>4
    <2>12. TodoOk'
      BY <1>0, <2>4, <2>5, <2>6, <2>7, <2>9 DEF OkInv, TodoOk
    <2>13. RanOk'
      <3>1. ~cmd.failed => \A q \in cmd.ran : Durable(q)
        BY <2>1, <2>7 DEF OkInv, RanOk
      <3>. QED  BY <1>0, <2>5, <2>6, <2>7, <3>1 DEF RanOk, Durable, Persisted
    <2>. QED  BY <2>6, <2>7, <2>10, <2>11, <2>12, <2>13 DEF OkInv, VerdictOk
  <1>5. ASSUME NEW s \in Slots, Collect(s) PROVE OkInv'
    <2>1. script'[s] = Idle /\ \A t \in Slots \ {s} : script'[t] = script[t]
      BY <1>0, <1>5 DEF Collect
    <2>2. cmd'.todo = cmd.todo /\ cmd'.stages = cmd.stages /\ cmd'.ran = cmd.ran /\ cmd'.at = "run"
          /\ cmd'.verdict = cmd.verdict /\ (~cmd'.failed => ~cmd.failed /\ script[s].at = "ok")
      BY <1>0, <1>5 DEF Collect, At, Cmd
    <2>3. cmd.at = "wait" /\ cmd.verdict # "ok" /\ script[s].heard
      BY <1>5 DEF Collect, CmdInv
    <2>4. \A t \in Slots : ~script'[t].heard
      BY <2>1, <2>3, IdleIsScript DEF OkInv, HeardOk
    <2>5. \A t \in Slots : Running(t)' => Running(t) /\ script'[t].role = script[t].role
      BY <2>1, IdleIsScript DEF Running
    <2>6. TodoOk'
      BY <1>0, <2>2, <2>3, <2>5 DEF OkInv, TodoOk
    <2>7. RanOk'
      <3>1. script[s].at = "ok" => Durable(script[s].role)
        BY <2>3 DEF OkInv, HeardOk
      <3>2. \A t \in Slots : script[t].heard => t = s
        BY <2>3 DEF OkInv, HeardOk
      <3>3. ~cmd'.failed => \A r \in cmd.ran : Durable(r)
        BY <2>2, <2>3, <3>1, <3>2 DEF OkInv, RanOk
      <3>. QED  BY <1>0, <2>2, <2>3, <3>3 DEF RanOk, Durable, Persisted
    <2>. QED  BY <2>2, <2>3, <2>4, <2>6, <2>7 DEF OkInv, VerdictOk
  <1>6. ASSUME NEW s \in Slots, Drop(s) PROVE OkInv'
    <2>1. /\ \A t \in Slots \ {s} : script'[t] = script[t]
          /\ script'[s].at = script[s].at /\ script'[s].role = script[s].role /\ ~script'[s].heard
      BY <1>0, <1>6, DropFacts DEF Drop
    <2>2. cmd'.todo = cmd.todo /\ cmd'.stages = cmd.stages /\ cmd'.ran = cmd.ran /\ cmd'.at = "run"
          /\ cmd'.verdict = cmd.verdict /\ cmd'.failed
      BY <1>0, <1>6 DEF Drop, Cmd
    <2>3. cmd.at = "wait" /\ cmd.verdict # "ok" /\ script[s].heard
      BY <1>6 DEF Drop, CmdInv
    <2>4. \A t \in Slots : ~script'[t].heard
      BY <2>1, <2>3 DEF OkInv, HeardOk
    <2>5. \A t \in Slots : (Running(t)' <=> Running(t)) /\ script'[t].role = script[t].role
      BY <2>1 DEF Running
    <2>6. TodoOk'
      BY <1>0, <2>2, <2>3, <2>5 DEF OkInv, TodoOk
    <2>. QED  BY <2>2, <2>3, <2>4, <2>6 DEF OkInv, RanOk, VerdictOk
  <1>7. CASE Reprobe
    <2>1. \A s \in Slots : ~script[s].heard /\ script'[s] = script[s]
      BY <1>7, HeardIdle DEF Reprobe
    <2>2. CASE cmd.failed \/ \E r \in Roles : Stage(r) # "healthy"
      <3>1. cmd' = [NoCmd EXCEPT !.ran = {}, !.verdict = "bail"]
        BY <1>7, <2>2 DEF Reprobe, Finish
      <3>. QED  BY <2>1, <3>1, OkQuiet DEF NoCmd
    <2>3. CASE ~cmd.failed /\ \A r \in Roles : Stage(r) = "healthy"
      <3>1. cmd' = [NoCmd EXCEPT !.ran = cmd.ran, !.verdict = "ok"]
        BY <1>7, <2>3 DEF Reprobe, Finish
      <3>2. cmd'.at = "idle" /\ cmd'.ran = cmd.ran /\ cmd.ran \subseteq Roles
        BY <1>0, <3>1 DEF NoCmd, Cmd
      <3>3. \A r \in cmd.ran : Durable(r) /\ bound[r] = "disk"
        BY <1>7, <2>1, <2>3, <3>2, HealthyIsShown DEF Reprobe, OkInv, RanOk
      <3>. QED  BY <1>0, <2>1, <3>2, <3>3 DEF OkInv, TodoOk, RanOk, VerdictOk, Durable, Persisted
    <2>. QED  BY <2>2, <2>3 DEF TypeOK, Cmd
  <1>. QED  BY <1>1, <1>2, <1>3, <1>4, <1>5, <1>6, <1>7 DEF CommandStep

\* What no step of a script does.
LEMMA RepairRuns == ASSUME NEW t \in Slots, Repair(t) PROVE Running(t)
  BY DEF Repair, Format, MountBacking, MakeSource, CopyOne, CopyEnds, Verify, Move, MakeTarget,
     Bind, PersistDisk,
     PersistBind, MountAll, ScriptFails, Signalled, Killed, At, Running

LEMMA RepairKeeps ==
    ASSUME TypeOK, ScriptInv, NEW t \in Slots, Repair(t)
    PROVE  /\ mounted \subseteq mounted' /\ device' = device
           /\ \A q \in Roles : fs'[q] = fs[q] \/ (q = script[t].role /\ q \notin mounted)
           /\ \A q \in Roles : fstab[q].uuids \subseteq fstab'[q].uuids /\ (fstab[q].bind => fstab'[q].bind)
  <1>. DEFINE r == script[t].role
  <1>. USE DEF fixed, disks, mounts, homes, booting
  <1>0. r \in Roles
    BY RepairRuns, RunningFacts
  <1>1. CASE Format(t)
    BY <1>0, <1>1, MkfsTyped DEF Format
  <1>2. CASE PersistDisk(t)
    <2>1. fstab' = [fstab EXCEPT ![r].uuids = @ \cup {fs[r]}] /\ UNCHANGED <<device, fs, mounted>>
      BY <1>2 DEF PersistDisk
    <2>. QED  BY <1>0, <2>1 DEF TypeOK
  <1>3. CASE PersistBind(t)
    <2>1. fstab' = [fstab EXCEPT ![r].bind = TRUE] /\ UNCHANGED <<device, fs, mounted>>
      BY <1>3 DEF PersistBind
    <2>. QED  BY <1>0, <2>1 DEF TypeOK
  <1>4. CASE MountAll(t)
    BY <1>4 DEF MountAll, ByFstab
  <1>5. CASE MountBacking(t) \/ MakeSource(t) \/ CopyOne(t) \/ CopyEnds(t) \/ Verify(t) \/ Move(t)
             \/ MakeTarget(t) \/ Bind(t) \/ ScriptFails(t) \/ Signalled(t) \/ Killed(t)
    BY <1>5 DEF MountBacking, MakeSource, CopyOne, CopyEnds, Verify, Move, MakeTarget, Bind,
       ScriptFails, Signalled, Killed
  <1>. QED  BY <1>1, <1>2, <1>3, <1>4, <1>5 DEF Repair

\* A script goes on to a place or ends, and keeps what it was started with.
LEMMA RepairMoves ==
    ASSUME TypeOK, ScriptInv, NEW t \in Slots, Repair(t)
    PROVE  /\ \A s \in Slots \ {t} : script'[s] = script[s]
           /\ \/ script'[t] = Idle /\ ~script[t].heard
              \/ script'[t].role = script[t].role /\ script'[t].stage = script[t].stage
                 /\ (script'[t].heard <=> script[t].heard)
  <1>. USE DEF fixed, disks, mounts, homes, booting
  <1>0. script \in [Slots -> Script]
    BY DEF TypeOK
  <1>1. ASSUME NEW at \in ScriptAts, Goto(t, at)
        PROVE  /\ \A s \in Slots \ {t} : script'[s] = script[s]
               /\ script'[t].role = script[t].role /\ script'[t].stage = script[t].stage
               /\ (script'[t].heard <=> script[t].heard)
    BY <1>0, <1>1, GotoFields
  <1>2. ASSUME NEW rc \in {"ok", "failed"}, Exit(t, rc)
        PROVE  /\ \A s \in Slots \ {t} : script'[s] = script[s]
               /\ \/ script'[t] = Idle /\ ~script[t].heard
                  \/ script'[t].role = script[t].role /\ script'[t].stage = script[t].stage
                     /\ (script'[t].heard <=> script[t].heard)
    BY <1>0, <1>2, ExitFields
  <1>3. CASE script' = [script EXCEPT ![t].at = "mkdir", ![t].moved = TRUE]
    BY <1>0, <1>3, MovedFields
  <1>4. CASE script' = script
    BY <1>4
  <1>5. (\E at \in ScriptAts : Goto(t, at)) \/ (\E rc \in {"ok", "failed"} : Exit(t, rc)) \/ script' = script
        \/ script' = [script EXCEPT ![t].at = "mkdir", ![t].moved = TRUE]
    <2>. USE DEF ScriptAts, Past, HomeAts
    <2>1. CASE Format(t) \/ MountBacking(t) \/ MakeSource(t) \/ CopyEnds(t) \/ MakeTarget(t) \/ Bind(t) \/ PersistDisk(t) \/ PersistBind(t)
      BY <2>1 DEF Format, MountBacking, MakeSource, CopyEnds, MakeTarget, Bind, PersistDisk,
         PersistBind
    <2>2. CASE Verify(t) \/ Move(t) \/ MountAll(t) \/ ScriptFails(t) \/ Killed(t)
      BY <2>2 DEF Verify, Move, MountAll, ScriptFails, Killed
    <2>3. CASE CopyOne(t) \/ Signalled(t)
      BY <2>3 DEF CopyOne, Signalled
    <2>. QED  BY <2>1, <2>2, <2>3 DEF Repair
  <1>. QED  BY <1>1, <1>2, <1>3, <1>4, <1>5

\* The places of a script azlin listens to, and what each says of its disk.
HeardAt(s, r) ==
    /\ script[s].at = "ok" => Durable(r)
    /\ script[s].at \in {"fstab-bind", "mount-a"} => fs[r] \in fstab[r].uuids
    /\ script[s].at = "mount-a" => fstab[r].bind
    /\ script[s].at \in Past \/ (script[s].at = "format" /\ script[s].stage = "backing-mounted")
         => r \in mounted \/ Alone(s, r)

LEMMA HeardFails ==
    ASSUME NEW t, NEW r, script'[t].at = "failed" PROVE HeardAt(t, r)'
  BY DEF HeardAt, Past, HomeAts

LEMMA HeardEnds ==
    ASSUME TypeOK, NEW t \in Slots, NEW r, NEW rc \in {"ok", "failed"}, script[t].heard, Exit(t,
           rc), rc = "ok" => Durable(r)'
    PROVE  HeardAt(t, r)'
  <1>1. script'[t].at = rc
    BY ExitFields DEF TypeOK
  <1>. QED  BY <1>1 DEF HeardAt, Past, HomeAts

LEMMA HeardGoes ==
    ASSUME TypeOK, NEW t \in Slots, NEW r, NEW at \in Past \ {"fstab-bind", "mount-a"}, Goto(t, at),
           r \in mounted' \/ Alone(t, r)'
    PROVE  HeardAt(t, r)'
  <1>1. script'[t].at = at
    BY GotoFields DEF TypeOK, ScriptAts
  <1>. QED  BY <1>1 DEF HeardAt, Past, HomeAts

LEMMA RepairGets ==
    ASSUME TypeOK, ScriptInv, OkInv, NEW t \in Slots, Repair(t), script[t].heard, NEW r \in Roles,
           r = script[t].role
    PROVE  HeardAt(t, r)'
  <1>. USE DEF fixed, disks, mounts, homes, booting, At
  <1>2. script \in [Slots -> Script] /\ HeardAt(t, r) /\ script[t].stage \in ToBuild
    BY RepairRuns, RunningFacts DEF TypeOK, OkInv, HeardOk, HeardAt
  <1>3. mounted \subseteq mounted' /\ (Alone(t, r) => Alone(t, r)')
    BY RepairKeeps, RepairMoves DEF Alone, Running
  <1>4. {"source", "copy", "verify", "move", "mkdir", "bind", "fstab"} \subseteq Past \ {"fstab-bind", "mount-a"}
        /\ "fstab-bind" \in Past /\ "mount-a" \in Past /\ {"ok", "failed", "mount"} \cap Past = {}
    BY DEF Past, HomeAts
  <1>5. script[t].at \in Past => r \in mounted' \/ Alone(t, r)'
    BY <1>2, <1>3 DEF HeardAt
  <1>6. CASE Format(t)
    <2>1. CASE Goto(t, "mount")
      <3>1. script'[t].at = "mount"
        BY <1>2, <2>1, GotoFields DEF ScriptAts
      <3>. QED  BY <3>1, <1>4 DEF HeardAt
    <2>2. CASE Goto(t, "source") /\ script[t].stage \notin {"raw", "formatted"}
      <3>1. r \in mounted' \/ Alone(t, r)'
        BY <1>2, <1>3, <1>6, <2>2 DEF HeardAt, Format, ToBuild
      <3>. QED  BY <1>4, <2>2, <3>1, HeardGoes
    <2>. QED  BY <1>6, <2>1, <2>2 DEF Format
  <1>7. CASE MountBacking(t)
    <2>1. r \in mounted' /\ Goto(t, "source")
      BY <1>7 DEF MountBacking
    <2>. QED  BY <1>4, <2>1, HeardGoes
  <1>9. CASE MakeSource(t) \/ CopyEnds(t) \/ MakeTarget(t) \/ Bind(t)
    <2>1. script[t].at \in Past
      BY <1>9, <1>4 DEF MakeSource, CopyEnds, MakeTarget, Bind
    <2>2. PICK at \in {"source", "copy", "verify", "move", "mkdir", "bind", "fstab"} : Goto(t, at)
      BY <1>9 DEF MakeSource, CopyEnds, MakeTarget, Bind
    <2>. QED  BY <1>4, <1>5, <2>1, <2>2, HeardGoes
  <1>10. CASE Verify(t)
    <2>1. script[t].at \in Past
      BY <1>10, <1>4 DEF Verify
    <2>2. Goto(t, "move") \/ Exit(t, "failed")
      BY <1>10 DEF Verify
    <2>. QED  BY <1>4, <1>5, <2>1, <2>2, HeardGoes, HeardEnds
  <1>11. CASE Move(t)
    <2>1. script[t].at \in Past
      BY <1>11, <1>4 DEF Move
    <2>2. CASE Goto(t, "mkdir") \/ Exit(t, "failed")
      BY <1>4, <1>5, <2>1, <2>2, HeardGoes, HeardEnds
    <2>3. CASE script' = [script EXCEPT ![t].at = "mkdir", ![t].moved = TRUE]
      <3>1. script'[t].at = "mkdir"
        BY <1>2, <2>3, MovedFields
      <3>. QED  BY <1>5, <2>1, <3>1 DEF HeardAt
    <2>. QED  BY <1>11, <2>2, <2>3 DEF Move
  <1>12. CASE PersistDisk(t)
    <2>1. script[t].at = "fstab" /\ Goto(t, "fstab-bind") /\ fstab' = [fstab EXCEPT ![r].uuids = @ \cup {fs[r]}] /\ fs' = fs
      BY <1>12 DEF PersistDisk
    <2>2. script'[t].at = "fstab-bind"
      BY <1>2, <2>1, GotoFields DEF ScriptAts, Past
    <2>3. fs'[r] \in fstab'[r].uuids
      BY <2>1 DEF TypeOK
    <2>. QED  BY <1>4, <1>5, <2>1, <2>2, <2>3 DEF HeardAt
  <1>13. CASE PersistBind(t)
    <2>1. script[t].at = "fstab-bind" /\ Goto(t, "mount-a") /\ fstab' = [fstab EXCEPT ![r].bind = TRUE] /\ fs' = fs
      BY <1>13 DEF PersistBind
    <2>2. script'[t].at = "mount-a"
      BY <1>2, <2>1, GotoFields DEF ScriptAts, Past
    <2>3. fs[r] \in fstab[r].uuids
      BY <1>2, <2>1 DEF HeardAt
    <2>4. fs'[r] \in fstab'[r].uuids /\ fstab'[r].bind
      BY <2>1, <2>3 DEF TypeOK
    <2>. QED  BY <1>4, <1>5, <2>1, <2>2, <2>4 DEF HeardAt
  <1>14. CASE MountAll(t)
    <2>0. script[t].at = "mount-a"
      BY <1>14 DEF MountAll
    <2>1. fs[r] \in fstab[r].uuids /\ fstab[r].bind /\ r \in device
      BY <1>2, <1>4, <2>0 DEF HeardAt, ScriptInv, ScriptOk
    <2>2. UNCHANGED <<device, fs, fstab>> /\ mounted' = ByFstab(mounted)
      BY <1>14 DEF MountAll
    <2>3. Durable(r)'
      BY <2>1, <2>2 DEF Durable, Persisted, ByFstab
    <2>4. Exit(t, "ok") \/ Exit(t, "failed")
      BY <1>14 DEF MountAll
    <2>. QED  BY <2>3, <2>4, HeardEnds
  <1>15. CASE ScriptFails(t) \/ Killed(t)
    <2>1. Exit(t, "failed")
      BY <1>15 DEF ScriptFails, Killed
    <2>. QED  BY <2>1, HeardEnds
  <1>16. CASE CopyOne(t) \/ Signalled(t)
    <2>1. script[t].at \in {"copy", "mkdir", "bind"} /\ script' = script
      BY <1>16 DEF CopyOne, Signalled, Armed
    <2>. QED  BY <1>4, <1>5, <2>1 DEF HeardAt
  <1>. QED  BY <1>6, <1>7, <1>9, <1>10, <1>11, <1>12, <1>13, <1>14, <1>15, <1>16 DEF Repair

\* A script that goes on spares the disk of another that is heard: that one is
\* mounted, or no other script has the same disk.
LEMMA HeardElsewhere ==
    ASSUME TypeOK, BootInv, ScriptInv, OkInv, Next, NEW t \in Slots, Repair(t),
           NEW s \in Slots \ {t}, script[s].heard,
           NEW r \in Roles, r = script[s].role
    PROVE  HeardAt(s, r)'
  <1>1. HeardAt(s, r) /\ Running(t) /\ script'[s] = script[s]
    BY RepairRuns, RepairMoves DEF OkInv, HeardOk, HeardAt
  <1>2. Alone(s, r) => Alone(s, r)' /\ script[t].role # r
    BY <1>1, RepairMoves, IdleIsScript DEF Alone, Running
  <1>3. mounted \subseteq mounted' /\ (r \in mounted \/ Alone(s, r) => fs'[r] = fs[r])
        /\ fstab[r].uuids \subseteq fstab'[r].uuids /\ (fstab[r].bind => fstab'[r].bind)
    BY <1>2, RepairKeeps
  <1>4. Durable(r) => Durable(r)'
    BY DurableStays
  <1>5. script[s].at \in {"fstab-bind", "mount-a"} => script[s].at \in Past
    BY DEF Past
  <1>. QED  BY <1>1, <1>2, <1>3, <1>4, <1>5 DEF HeardAt

LEMMA BoundStays ==
    ASSUME TypeOK, ScriptInv, NEW t \in Slots, Repair(t), NEW r \in Roles, r \in mounted,
           bound[r] = "disk"
    PROVE  bound'[r] = "disk"
  <1>. USE DEF mounts
  <1>1. CASE Bind(t)
    BY <1>1 DEF Bind, Backing, TypeOK
  <1>2. CASE MountAll(t)
    BY <1>2 DEF MountAll, BindsBy
  <1>3. CASE ~Bind(t) /\ ~MountAll(t)
    BY <1>3 DEF Repair, Format, MountBacking, MakeSource, CopyOne, CopyEnds, Verify, Move,
       MakeTarget, PersistDisk,
       PersistBind, ScriptFails, Signalled, Killed
  <1>. QED  BY <1>1, <1>2, <1>3

LEMMA OkRepairs ==
    ASSUME TypeOK, BootInv, ScriptInv, CmdInv, OkInv, Next, NEW t \in Slots, Repair(t),
           UNCHANGED cmd PROVE OkInv'
  <1>0. script \in [Slots -> Script] /\ cmd.ran \subseteq Roles /\ cmd.todo \subseteq Roles
    BY DEF TypeOK, Cmd
  <1>1. \A s \in Slots : script'[s].heard => script[s].heard /\ script'[s].role = script[s].role
    BY RepairMoves, IdleIsScript
  <1>2. \A s \in Slots : script[s].heard => script'[s].heard /\ script'[s].role = script[s].role
    BY RepairMoves
  <1>3. ASSUME NEW s \in Slots, script'[s].heard PROVE HeardOk(s)'
    <2>1. script[s].heard /\ script'[s].role = script[s].role
      BY <1>1, <1>3
    <2>2. HeardOk(s)
      BY <2>1 DEF OkInv
    <2>3. PICK r \in Roles : r = script[s].role
      BY <1>0, <2>2 DEF HeardOk
    <2>4. HeardAt(s, r)'
      BY <2>1, <2>3, HeardElsewhere, RepairGets
    <2>. QED  BY <1>1, <2>1, <2>2, <2>3, <2>4 DEF HeardOk, HeardAt
  <1>4. TodoOk'
    <2>1. Running(t) /\ \A s \in Slots : Running(s)' => Running(s) /\ script'[s].role = script[s].role
      BY RepairRuns, RepairMoves, IdleIsScript DEF Running
    <2>2. mounted \subseteq mounted'
      BY RepairKeeps
    <2>. QED  BY <2>1, <2>2 DEF OkInv, TodoOk
  <1>5. RanOk'
    <2>1. \A r \in cmd.ran : Durable(r) => Durable(r)'
      BY <1>0, DurableStays
    <2>. QED  BY <1>2, <2>1 DEF OkInv, RanOk
  <1>6. VerdictOk'
    <2>. SUFFICES ASSUME cmd.verdict = "ok", NEW r \in cmd.ran PROVE bound'[r] = "disk"
      BY DEF VerdictOk
    <2>1. \A s \in Slots : ~script[s].heard
      BY HeardIdle DEF CmdInv
    <2>2. r \in Roles /\ r \in mounted /\ bound[r] = "disk"
      BY <1>0, <2>1 DEF OkInv, RanOk, VerdictOk, Durable
    <2>. QED  BY <2>2, BoundStays
  <1>. QED  BY <1>3, <1>4, <1>5, <1>6 DEF OkInv

-----------------------------------------------------------------------------
(* The invariant holds. *)

LEMMA InitOk == Init => IInv
  <1>. SUFFICES ASSUME Init PROVE IInv
    OBVIOUS
  <1>. USE DEF Init, VmInit
  <1>1. PICK at \in {"wait", "dead"} : boot = [at |-> at, todo |-> Roles]
                                      /\ foreign \in SUBSET (IF at = "dead" THEN device ELSE {})
    OBVIOUS
  <1>2. boot.at = at /\ boot.todo = Roles /\ \A s \in Slots : script[s] = Idle
    BY <1>1
  <1>3. NoCmd \in Cmd /\ NoCmd.at = "idle" /\ NoCmd.verdict = "none" /\ NoCmd.todo = {} /\ NoCmd.ran = {}
    BY DEF NoCmd, Cmd, Stages
  <1>4. TypeOK
    <2>1. foreign \subseteq device /\ boot \in [at : Seeds, todo : SUBSET Roles]
      BY <1>1 DEF Seeds
    <2>2. script \in [Slots -> Script]
      BY IdleIsScript
    <2>3. files \in [Places -> SUBSET AllFiles] /\ dirs \subseteq Places
      BY DEF Places, AllFiles
    <2>4. fs \in [Roles -> Int] /\ fstab \in [Roles -> [uuids : SUBSET (Nat \ {0}), bind : BOOLEAN]]
      BY DEF Foreign, Blank
    <2>. QED  BY <1>3, <2>1, <2>2, <2>3, <2>4 DEF TypeOK
  <1>5. DiskInv
    BY DEF DiskInv
  <1>6. DataInv
    BY <1>1 DEF DataInv, HomeSafe, Places
  <1>7. ScriptInv
    BY <1>2, IdleIsScript DEF ScriptInv, ScriptOk, Running, Past, HomeAts, Idle, Home
  <1>8. BootInv
    <2>1. foreign # {} => boot.at = "dead"
      BY <1>1
    <2>2. CASE boot.at = "wait"
      <3>1. boot.at \notin {"finalize", "done", "dead", "mount", "copy", "swap", "mkdir", "persist", "clean"}
        BY <2>2
      <3>2. Section # "net" => Section \in Roles
        BY <1>2 DEF Section
      <3>3. dirs = {"os"} /\ HomeFiles \subseteq files["os"]
        BY DEF Places
      <3>4. Section # "net" => SectionAt(Section, boot.at)
        BY <2>2, <3>1, <3>2 DEF SectionAt
      <3>5. HomeAt(boot.at)
        BY <2>2, <3>3 DEF HomeAt
      <3>6. cmd = NoCmd /\ status = "unknown" /\ (\A r \in Roles : bound[r] = "no") /\ boot.todo = Roles
        BY <1>2
      <3>. HIDE DEF Init, VmInit
      <3>. QED  BY <1>2, <2>1, <2>2, <3>1, <3>4, <3>5, <3>6 DEF BootInv
    <2>3. CASE boot.at = "dead"
      BY <2>1, <2>3 DEF BootInv, Ready
    <2>. QED  BY <1>2, <2>2, <2>3
  <1>9. StatusInv /\ CmdInv
    BY <1>3 DEF StatusInv, CmdInv
  <1>10. OkInv
    BY <1>2, <1>3, IdleIsScript DEF OkInv, TodoOk, RanOk, VerdictOk
  <1>. QED  BY <1>4, <1>5, <1>6, <1>7, <1>8, <1>9, <1>10 DEF IInv

LEMMA StepOk == ASSUME IInv, Next PROVE IInv'
  <1>. USE DEF IInv
  <1>0. StatusInv'
    BY StatusKept
  <1>1. \A r \in Roles : Durable(r) => Durable(r)'
    BY DurableStays
  <1>2. "home" \in Roles /\ Durable("home") => Durable("home")'
    BY <1>1
  <1>3. CASE CloudInit /\ UNCHANGED cmd
    <2>1. VmNext
      BY <1>3 DEF VmNext
    <2>2. ScriptInv'
      BY <1>3, ScriptAllFrame DEF CloudInit, BootMkfs, BootMount, BootCopy, BootSwap, BootMkdir,
         BootBind, BootPersist,
         BootClean, SectionFails, BootNet, Finalize, fixed, disks
    <2>. QED  BY <1>0, <1>2, <1>3, <2>1, <2>2, BootTyped, DiskBoot, DataBoot, BootRuns, CmdVm,
                 OkBoot
  <1>4. ASSUME NEW s \in Slots, Repair(s), UNCHANGED cmd PROVE IInv'
    <2>1. VmNext
      BY <1>4 DEF VmNext
    <2>. QED  BY <1>0, <1>2, <1>4, <2>1, RepairTyped, DiskRepairs, DataRepairs, ScriptRepairs,
                 BootOthers, CmdVm, OkRepairs
  <1>5. CASE Write /\ UNCHANGED cmd
    <2>1. VmNext
      BY <1>5 DEF VmNext
    <2>2. ScriptInv'
      BY <1>5, ScriptAllFrame DEF Write, disks
    <2>3. OkInv'
      BY <1>5, OkSame DEF Write, disks, mounts, OkInv, VerdictOk
    <2>. QED  BY <1>0, <1>2, <1>5, <2>1, <2>2, <2>3, RestTyped, DiskRest, DataRest, BootOthers,
                 CmdVm
  <1>6. CASE Reboot /\ UNCHANGED cmd
    <2>1. VmNext
      BY <1>6 DEF VmNext
    <2>. QED  BY <1>0, <1>2, <1>6, <2>1, RestTyped, DiskRest, DataRest, ScriptReboot, BootOthers,
                 CmdVm, OkReboot
  <1>7. CASE CommandStep
    <2>1. TypeOK' /\ DiskInv' /\ DataInv'
      BY <1>2, <1>7, CmdTyped, DiskRest, DataRest DEF CommandStep
    <2>2. ScriptInv' /\ CmdInv'
      BY <1>7, ScriptCommands, CmdCommands
    <2>3. BootInv' /\ OkInv'
      BY <1>7, BootOthers, OkCommands
    <2>. QED  BY <1>0, <2>1, <2>2, <2>3
  <1>. QED  BY <1>3, <1>4, <1>5, <1>6, <1>7 DEF Next, VmNext, CommandStep

LEMMA StutterOk == ASSUME IInv, UNCHANGED vars PROVE IInv'
  <1>. USE DEF IInv, vars, vmVars, fixed, disks, mounts, homes, booting
  <1>1. TypeOK'
    BY DEF TypeOK
  <1>2. DiskInv'
    BY DEF DiskInv
  <1>3. DataInv'
    BY DEF DataInv, HomeSafe, Kept, Durable, Persisted
  <1>4. ScriptInv'
    BY ScriptAllFrame
  <1>5. BootInv'
    BY DEF BootInv, Ready, Section, SectionAt, HomeAt, Healthy, Durable, Persisted
  <1>6. StatusInv' /\ CmdInv'
    BY StatusFrame, CmdFrame DEF Ready
  <1>7. OkInv'
    BY OkSame DEF OkInv, VerdictOk
  <1>. QED  BY <1>1, <1>2, <1>3, <1>4, <1>5, <1>6, <1>7

LEMMA Invariance == Spec => []IInv
  <1>1. IInv /\ [Next]_vars => IInv'
    BY StepOk, StutterOk
  <1>. QED  BY <1>1, InitOk, PTL DEF Spec

-----------------------------------------------------------------------------
(* The home is there. *)

Sane   == ~stranded /\ ~Astray
Filled == files["disk"] # {}
Listed == fs["home"] \in fstab["home"].uuids

\* cloud-init, or script s, has moved the home aside and shows nothing yet.
SwapBoot == Section = "home" /\ boot.at \in {"mkdir", "bind"}
Aside(s) == Home(s) /\ script[s].moved /\ (At(s, "mkdir") \/ (At(s, "bind") /\ "os" \in dirs))

\* Numbers are given out in order, and fstab holds none that is to come.
Counted == \A r \in Roles : fs[r] <= made /\ \A u \in fstab[r].uuids : u <= made

\* A script of the home that has looked for its source: the disk is mounted,
\* from the copy's end on it is filled, and then it is in fstab.
ScriptThere(s) == Home(s) /\ script[s].at \in Past \ {"source"} =>
    /\ "home" \in mounted
    /\ At(s, "copy") \/ Filled
    /\ script[s].at \in {"fstab-bind", "mount-a"} => Listed

\* What is shown, or comes up at the next boot, is filled.
DiskThere == "home" \in Roles =>
    /\ bound["home"] # "no" => bound["home"] = "disk" /\ Filled
    /\ Listed => "home" \in mounted /\ Filled
    /\ fstab["home"].bind => Listed

\* A home that is empty on the OS disk has been moved aside by a script that
\* still runs, or is covered by a bind that a reboot is known to restore.
OsThere == files["os"] = {} /\ ~SwapBoot =>
    /\ "home" \in Roles
    /\ bound["home"] = "no" => files["old"] # {} /\ \E s \in Slots : Aside(s)
    /\ bound["home"] # "no" => "old" \in dirs \/ Persisted("home")

Reach == (\A s \in Slots : ScriptThere(s)) /\ DiskThere /\ OsThere

LEMMA CountedFrame ==
    ASSUME Counted, UNCHANGED <<fs, made, fstab>> PROVE Counted'
  BY DEF Counted

LEMMA CountedMkfs ==
    ASSUME TypeOK, Counted, NEW r \in Roles, Mkfs(r), UNCHANGED fstab PROVE Counted'
  <1>1. /\ made \in Int /\ made' = made + 1 /\ fs'[r] = made + 1
        /\ \A q \in Roles : fs[q] \in Int /\ (q # r => fs'[q] = fs[q])
        /\ \A q \in Roles : \A u \in fstab[q].uuids : u \in Int
    BY DEF TypeOK, Mkfs
  <1>. QED  BY <1>1 DEF Counted

LEMMA CountedFstab ==
    ASSUME TypeOK, Counted, NEW q \in Roles, UNCHANGED <<fs, made>>,
           \/ fstab' = [fstab EXCEPT ![q] = [uuids |-> @.uuids \cup {fs[q]}, bind |-> TRUE]]
           \/ fstab' = [fstab EXCEPT ![q].uuids = @ \cup {fs[q]}]
           \/ fstab' = [fstab EXCEPT ![q].bind = TRUE]
    PROVE  Counted'
  <1>1. \A r \in Roles : fstab'[r].uuids \subseteq fstab[r].uuids \cup {fs[r]}
    <2>1. CASE fstab' = [fstab EXCEPT ![q] = [uuids |-> @.uuids \cup {fs[q]}, bind |-> TRUE]]
      BY <2>1 DEF TypeOK
    <2>2. CASE fstab' = [fstab EXCEPT ![q].uuids = @ \cup {fs[q]}]
      BY <2>2 DEF TypeOK
    <2>3. CASE fstab' = [fstab EXCEPT ![q].bind = TRUE]
      BY <2>3 DEF TypeOK
    <2>. QED  BY <2>1, <2>2, <2>3
  <1>. QED  BY <1>1 DEF Counted

LEMMA CountedStays == ASSUME TypeOK, BootInv, ScriptInv, Counted, Next PROVE Counted'
  <1>. USE DEF fixed, disks, mounts, homes, booting
  <1>1. CASE BootMkfs
    <2>1. Section \in Roles
      BY <1>1 DEF BootMkfs, TypeOK
    <2>. QED  BY <1>1, <2>1, CountedMkfs DEF BootMkfs
  <1>2. CASE BootPersist
    <2>1. Section \in Roles
      BY <1>2, SectionFacts DEF BootPersist, Step
    <2>. QED  BY <1>2, <2>1, CountedFstab DEF BootPersist
  <1>3. CASE BootMount \/ BootCopy \/ BootSwap \/ BootMkdir \/ BootBind \/ BootClean \/ SectionFails \/ BootNet \/ Finalize
    BY <1>3, CountedFrame DEF BootMount, BootCopy, BootSwap, BootMkdir, BootBind, BootClean,
       SectionFails, BootNet, Finalize
  <1>4. ASSUME NEW s \in Slots, Format(s) PROVE Counted'
    <2>1. script[s].role \in Roles
      BY <1>4, RunningFacts DEF Format, Running, At
    <2>. QED  BY <1>4, <2>1, CountedMkfs, CountedFrame DEF Format
  <1>5. ASSUME NEW s \in Slots, PersistDisk(s) \/ PersistBind(s) PROVE Counted'
    <2>1. script[s].role \in Roles
      BY <1>5, RunningFacts DEF PersistDisk, PersistBind, Running, At
    <2>. QED  BY <1>5, <2>1, CountedFstab DEF PersistDisk, PersistBind
  <1>6. ASSUME NEW s \in Slots, MountBacking(s) \/ MakeSource(s) \/ CopyOne(s) \/ CopyEnds(s) \/ Verify(s) \/ Move(s)
                                  \/ MakeTarget(s) \/ Bind(s) \/ MountAll(s) \/ ScriptFails(s) \/ Signalled(s) \/ Killed(s)
        PROVE  Counted'
    BY <1>6, CountedFrame DEF MountBacking, MakeSource, CopyOne, CopyEnds, Verify, Move,
       MakeTarget, Bind, MountAll, ScriptFails, Signalled, Killed
  <1>7. CASE Write \/ Reboot
    BY <1>7, CountedFrame DEF Write, Reboot
  <1>8. CASE CommandStep
    BY <1>8, CommandFrame, CountedFrame
  <1>. QED  BY <1>1, <1>2, <1>3, <1>4, <1>5, <1>6, <1>7, <1>8 DEF Next, VmNext, CloudInit, Repair,
               CommandStep

\* What has been cut off, or written beneath a mount point, stays so.
LEMMA SaneBefore == ASSUME TypeOK, Next, Sane' PROVE Sane
  <1>. USE DEF fixed, disks, mounts, homes, booting
  <1>1. stranded => stranded'
    BY DEF Next, VmNext, CloudInit, BootMkfs, BootMount, BootCopy, BootSwap, BootMkdir, BootBind, BootPersist,
       BootClean, SectionFails, BootNet, Finalize, Repair, Format, MountBacking, MakeSource, CopyOne, CopyEnds,
       Verify, Move, MakeTarget, Bind, PersistDisk, PersistBind, MountAll, ScriptFails, Signalled, Killed, Write,
       Reboot, ProbeAndPlan, ProbeFails, Confirm, Launch, Reprobe, Collect, Drop, vmVars
  <1>2. "under" \in dirs => "under" \in dirs'
    <2>1. CASE CloudInit
      BY <2>1 DEF CloudInit, BootMkfs, BootMount, BootCopy, BootSwap, BootMkdir, BootBind, BootPersist,
         BootClean, SectionFails, BootNet, Finalize, Mkfs, MakeDir, Rename, RollBack
    <2>2. ASSUME NEW s \in Slots, Repair(s) PROVE "under" \in dirs => "under" \in dirs'
      BY <2>2 DEF Repair, Format, MountBacking, MakeSource, CopyOne, CopyEnds, Verify, Move, MakeTarget, Bind,
         PersistDisk, PersistBind, MountAll, ScriptFails, Signalled, Killed, Mkfs, MakeDir, Rename, Restore
    <2>3. CASE Write \/ Reboot
      BY <2>3 DEF Write, Reboot
    <2>4. CASE CommandStep
      BY <2>4, CommandFrame
    <2>. QED  BY <2>1, <2>2, <2>3, <2>4 DEF Next, VmNext, CommandStep
  <1>. QED  BY <1>1, <1>2 DEF Sane, Astray

\* A step of cloud-init finds no script.
LEMMA BootScripts ==
    ASSUME BootInv, CloudInit PROVE ~Ready /\ UNCHANGED script /\ \A s \in Slots : script'[s] = Idle
  <1>. USE DEF Step, fixed, disks, mounts, homes
  <1>1. ~Ready
    BY DEF CloudInit, BootMkfs, BootMount, BootCopy, BootSwap, BootMkdir, BootBind, BootPersist,
       BootClean, SectionFails, BootNet, Finalize, Ready
  <1>2. UNCHANGED script
    BY DEF CloudInit, BootMkfs, BootMount, BootCopy, BootSwap, BootMkdir, BootBind, BootPersist,
       BootClean, SectionFails, BootNet, Finalize
  <1>. QED  BY <1>1, <1>2 DEF BootInv

LEMMA IdleThere == ASSUME NEW s, script'[s] = Idle PROVE ScriptThere(s)' /\ ~Aside(s)'
  BY IdleIsScript DEF ScriptThere, Aside, Past, HomeAts, At

\* A step of a script leaves what another, or the home, relies on: a mounted
\* disk is not reformatted.
LEMMA RepairLeaves ==
    ASSUME TypeOK, ScriptInv, NEW t \in Slots, Repair(t), "home" \in Roles
    PROVE  /\ mounted \subseteq mounted'
           /\ "home" \in mounted => fs'["home"] = fs["home"] /\ (Filled => Filled') /\ (Listed => Listed')
           /\ Persisted("home") /\ "home" \in mounted => Persisted("home")'
  <1>. USE DEF fixed, disks, mounts, homes, booting
  <1>1. mounted \subseteq mounted' /\ ("home" \in mounted => fs'["home"] = fs["home"])
        /\ fstab["home"].uuids \subseteq fstab'["home"].uuids /\ (fstab["home"].bind => fstab'["home"].bind)
    BY RepairKeeps
  <1>2. "home" \in mounted /\ Filled => Filled'
    <2>1. CASE Format(t)
      <3>1. "home" \in mounted => UNCHANGED files
        BY <2>1 DEF Format, Mkfs
      <3>. QED  BY <3>1 DEF Filled
    <2>2. CASE CopyOne(t)
      <3>1. PICK f : files' = [files EXCEPT ![Backing("home")] = @ \cup {f}]
        BY <2>2 DEF CopyOne
      <3>2. files["disk"] \subseteq files'["disk"]
        BY <3>1, BackingTyped DEF TypeOK, Places
      <3>. QED  BY <3>2 DEF Filled
    <2>3. CASE Move(t) \/ ScriptFails(t) \/ Signalled(t)
      <3>1. files'["disk"] = files["disk"]
        BY <2>3, RenameTyped DEF Move, ScriptFails, Signalled, Restore, Places
      <3>. QED  BY <3>1 DEF Filled
    <2>4. CASE MountBacking(t) \/ MakeSource(t) \/ CopyEnds(t) \/ Verify(t) \/ MakeTarget(t) \/ Bind(t)
               \/ PersistDisk(t) \/ PersistBind(t) \/ MountAll(t) \/ Killed(t)
      <3>1. UNCHANGED files
        BY <2>4 DEF MountBacking, MakeSource, CopyEnds, Verify, MakeTarget, MakeDir, Bind, PersistDisk,
           PersistBind, MountAll, Killed
      <3>. QED  BY <3>1 DEF Filled
    <2>. QED  BY <2>1, <2>2, <2>3, <2>4 DEF Repair
  <1>. QED  BY <1>1, <1>2 DEF Listed, Persisted

LEMMA ThereElsewhere ==
    ASSUME TypeOK, ScriptInv, NEW t \in Slots, Repair(t), NEW s \in Slots \ {t}, ScriptThere(s)
    PROVE  ScriptThere(s)'
  <1>1. script'[s] = script[s]
    BY RepairMoves
  <1>. SUFFICES ASSUME Home(s), script[s].at \in Past \ {"source"} PROVE ScriptThere(s)'
    BY <1>1 DEF ScriptThere, Home
  <1>2. "home" \in Roles
    <2>1. Running(s)
      BY DEF Running, Past, HomeAts
    <2>. QED  BY <2>1, RunningFacts
  <1>. QED  BY <1>1, <1>2, RepairLeaves DEF ScriptThere, At, Home

\* Where a script is after its own step: the disk is still what it was.
LEMMA ThereGoes ==
    ASSUME TypeOK, ScriptInv, NEW s \in Slots, Repair(s), ScriptThere(s), NEW at \in ScriptAts, Goto(s, at),
           at \in Past \ {"source"} /\ Home(s) =>
             /\ "home" \in mounted'
             /\ at = "copy" \/ Filled'
             /\ at \in {"fstab-bind", "mount-a"} => Listed'
    PROVE  ScriptThere(s)'
  <1>1. script'[s].at = at /\ script'[s].role = script[s].role
    BY GotoFields DEF TypeOK
  <1>. QED  BY <1>1 DEF ScriptThere, At, Home

LEMMA ThereEnds ==
    ASSUME TypeOK, NEW s \in Slots, NEW rc \in {"ok", "failed"}, Exit(s, rc)
    PROVE  ScriptThere(s)'
  <1>1. script'[s] = Idle \/ script'[s].at = rc
    BY ExitFields DEF TypeOK
  <1>2. rc \notin Past
    BY DEF Past, HomeAts
  <1>. QED  BY <1>1, <1>2, IdleThere DEF ScriptThere

\* An empty home is one that a script has moved aside to a filled disk.
LEMMA EmptyIsAside ==
    ASSUME TypeOK, BootInv, Reach, Ready, "home" \in Roles, Shown \in dirs, files[Shown] = {}
    PROVE  Filled
  <1>1. CASE bound["home"] # "no"
    BY <1>1 DEF Reach, DiskThere
  <1>2. CASE bound["home"] = "no"
    <2>1. Shown = "os"
      BY <1>2 DEF Shown, HomeBind
    <2>2. ~SwapBoot
      BY DEF SwapBoot, Ready
    <2>3. PICK t \in Slots : Aside(t)
      BY <1>2, <2>1, <2>2 DEF Reach, OsThere
    <2>4. ScriptThere(t)
      BY DEF Reach
    <2>. QED  BY <2>3, <2>4 DEF ScriptThere, Aside, At, Past, HomeAts
  <1>. QED  BY <1>1, <1>2

LEMMA ThereHere ==
    ASSUME TypeOK, DataInv, DiskInv, ScriptInv, BootInv, Reach, NEW s \in Slots, Repair(s), ~Astray'
    PROVE  ScriptThere(s)'
  <1>. USE DEF fixed, disks, mounts, homes, booting
  <1>0. ScriptThere(s)
    BY DEF Reach
  <1>a. Ready /\ script[s].role \in Roles /\ (Home(s) => "home" \in Roles)
    BY RepairRuns, RunningReady, RunningFacts
  <1>b. Past \subseteq ScriptAts /\ {"mount", "format"} \subseteq ScriptAts /\ "mount" \notin Past
    BY DEF Past, HomeAts, ScriptAts
  <1>1. CASE Format(s)
    <2>1. Goto(s, "mount") \/ Goto(s, "source")
      BY <1>1 DEF Format
    <2>. QED  BY <1>0, <1>b, <2>1, ThereGoes DEF Past
  <1>2. CASE MountBacking(s)
    BY <1>0, <1>2, <1>b, ThereGoes DEF MountBacking, Past
  <1>3. CASE MakeSource(s)
    <2>1. CASE ~Home(s)
      BY <1>0, <1>3, <1>b, <2>1, ThereGoes DEF MakeSource, Past
    <2>2. CASE Home(s)
      <3>1. dirs' = dirs \cup {Backing("home")} /\ UNCHANGED <<files, mounted>>
        BY <1>3, <2>2 DEF MakeSource
      <3>2. "home" \in mounted /\ Backing("home") = "disk"
        BY <3>1 DEF Astray, Backing
      <3>3. Goto(s, "copy") \/ (Goto(s, "move") /\ Filled)
        BY <1>3, <2>2, <3>2 DEF MakeSource, Filled
      <3>. QED  BY <1>0, <1>b, <3>1, <3>2, <3>3, ThereGoes DEF Past, HomeAts, Filled
    <2>. QED  BY <2>1, <2>2
  <1>4. CASE CopyOne(s)
    <2>1. UNCHANGED script /\ At(s, "copy")
      BY <1>4 DEF CopyOne
    <2>2. Home(s)
      BY <2>1 DEF ScriptInv, ScriptOk, At, HomeAts
    <2>. QED  BY <1>0, <1>a, <2>1, <2>2, RepairLeaves DEF ScriptThere, At, Home, Past, HomeAts
  <1>5. CASE CopyEnds(s)
    <2>1. /\ Shown \in dirs /\ files[Shown] \subseteq Content(Backing("home")) /\ Goto(s, "verify") /\ At(s, "copy")
          /\ UNCHANGED <<files, mounted>>
      BY <1>5 DEF CopyEnds
    <2>2. Home(s)
      BY <2>1 DEF ScriptInv, ScriptOk, At, HomeAts
    <2>3. "home" \in mounted
      BY <1>0, <2>1, <2>2 DEF ScriptThere, At, Past, HomeAts
    <2>4. Filled
      <3>1. CASE files[Shown] = {}
        BY <1>a, <2>1, <2>2, <3>1, EmptyIsAside
      <3>2. CASE files[Shown] # {}
        BY <2>1, <2>3, <3>2 DEF Content, Backing, Filled
      <3>. QED  BY <3>1, <3>2
    <2>. QED  BY <1>0, <1>b, <2>1, <2>3, <2>4, ThereGoes DEF Past, HomeAts, Filled
  <1>6. CASE Verify(s) \/ Move(s) \/ MakeTarget(s) \/ Bind(s)
    <2>0. Home(s) => "home" \in mounted /\ Filled /\ UNCHANGED mounted
      <3>1. Home(s) => "home" \in mounted /\ Filled
        BY <1>0, <1>6 DEF ScriptThere, At, Past, HomeAts, Verify, Move, MakeTarget, Bind
      <3>. QED  BY <1>6, <3>1 DEF Verify, Move, MakeTarget, Bind
    <2>1. Home(s) => "home" \in mounted' /\ Filled'
      BY <1>a, <2>0, RepairLeaves
    <2>2. \/ Goto(s, "move") \/ Goto(s, "mkdir") \/ Goto(s, "bind") \/ Goto(s, "fstab") \/ Exit(s, "failed")
          \/ script' = [script EXCEPT ![s].at = "mkdir", ![s].moved = TRUE]
      BY <1>6 DEF Verify, Move, MakeTarget, Bind
    <2>3. CASE script' = [script EXCEPT ![s].at = "mkdir", ![s].moved = TRUE]
      <3>1. script'[s].at = "mkdir" /\ script'[s].role = script[s].role
        BY <2>3, MovedFields DEF TypeOK
      <3>. QED  BY <2>1, <3>1 DEF ScriptThere, Home, At
    <2>4. CASE \E at \in {"move", "mkdir", "bind", "fstab"} : Goto(s, at)
      <3>1. PICK at \in {"move", "mkdir", "bind", "fstab"} : Goto(s, at)
        BY <2>4
      <3>. QED  BY <1>0, <1>b, <2>1, <3>1, ThereGoes DEF Past, HomeAts
    <2>5. CASE Exit(s, "failed")
      BY <2>5, ThereEnds
    <2>. QED  BY <2>2, <2>3, <2>4, <2>5
  <1>7. CASE PersistDisk(s)
    <2>1. /\ fstab' = [fstab EXCEPT ![script[s].role].uuids = @ \cup {fs[script[s].role]}] /\ UNCHANGED <<fs, mounted, files>>
          /\ Goto(s, "fstab-bind") /\ At(s, "fstab")
      BY <1>7 DEF PersistDisk
    <2>2. Home(s) => "home" \in mounted /\ Filled
      BY <1>0, <2>1 DEF ScriptThere, At, Past, HomeAts
    <2>3. Home(s) => Listed'
      BY <1>a, <2>1 DEF Home, Listed, TypeOK
    <2>. QED  BY <1>0, <1>b, <2>1, <2>2, <2>3, ThereGoes DEF Past, HomeAts, Filled
  <1>8. CASE PersistBind(s)
    <2>1. At(s, "fstab-bind") /\ Goto(s, "mount-a")
      BY <1>8 DEF PersistBind
    <2>2. Home(s) => "home" \in mounted /\ Filled /\ Listed
      BY <1>0, <2>1 DEF ScriptThere, At, Past, HomeAts
    <2>3. Home(s) => "home" \in mounted' /\ Filled' /\ Listed'
      BY <1>a, <2>2, RepairLeaves
    <2>. QED  BY <1>0, <1>b, <2>1, <2>3, ThereGoes DEF Past
  <1>9. CASE MountAll(s) \/ ScriptFails(s) \/ Killed(s)
    BY <1>9, ThereEnds DEF MountAll, ScriptFails, Killed
  <1>10. CASE Signalled(s)
    <2>1. UNCHANGED script /\ Armed(s) /\ Home(s)
      BY <1>10 DEF Signalled
    <2>2. "home" \in mounted /\ Filled
      BY <1>0, <2>1 DEF ScriptThere, Armed, At, Past, HomeAts
    <2>3. "home" \in mounted' /\ Filled'
      BY <1>a, <2>1, <2>2, RepairLeaves
    <2>. QED  BY <2>1, <2>3 DEF ScriptThere, Armed, At, Home
  <1>. QED  BY <1>1, <1>2, <1>3, <1>4, <1>5, <1>6, <1>7, <1>8, <1>9, <1>10 DEF Repair

LEMMA ThereCommands ==
    ASSUME TypeOK, CommandStep, NEW s \in Slots, ScriptThere(s)
    PROVE  ScriptThere(s)'
  <1>0. UNCHANGED <<mounted, fs, fstab, files>>
    BY CommandFrame DEF mounts, homes
  <1>1. CASE UNCHANGED script
    BY <1>0, <1>1 DEF ScriptThere, Home, At, Filled, Listed
  <1>2. ASSUME NEW t \in Slots, Collect(t) PROVE ScriptThere(s)'
    <2>1. s # t => script'[s] = script[s]
      BY <1>2 DEF Collect, TypeOK
    <2>2. s = t => script'[s] = Idle
      BY <1>2 DEF Collect, TypeOK
    <2>. QED  BY <1>0, <2>1, <2>2, IdleThere DEF ScriptThere, Home, At, Filled, Listed
  <1>3. ASSUME NEW t \in Slots, Drop(t) PROVE ScriptThere(s)'
    <2>1. s # t => script'[s] = script[s]
      BY <1>3, DropFacts DEF Drop, TypeOK
    <2>2. s = t => script'[s].at = script[s].at /\ script'[s].role = script[s].role
      <3>1. script'[t] = [at |-> script[t].at, role |-> script[t].role, reform |-> script[t].reform,
                          stage |-> script[t].stage, moved |-> script[t].moved, heard |-> FALSE]
        BY <1>3, DropFacts DEF Drop, TypeOK
      <3>. QED  BY <3>1
    <2>. QED  BY <1>0, <2>1, <2>2 DEF ScriptThere, Home, At, Filled, Listed
  <1>4. CASE Launch
    <2>1. PICK t \in Slots : script' = [script EXCEPT ![t] =
              [at |-> "format", role |-> Next1, stage |-> cmd.stages[Next1], moved |-> FALSE, heard |-> TRUE,
               reform |-> Reformats(Next1, cmd.stages[Next1], cmd.force)]]
      BY <1>4 DEF Launch
    <2>2. s # t => script'[s] = script[s]
      BY <2>1 DEF TypeOK
    <2>3. s = t => script'[s].at = "format"
      BY <2>1 DEF TypeOK
    <2>. QED  BY <1>0, <2>2, <2>3 DEF ScriptThere, Home, At, Filled, Listed, Past, HomeAts
  <1>. QED  BY <1>1, <1>2, <1>3, <1>4 DEF CommandStep, ProbeAndPlan, ProbeFails, Confirm, Reprobe, vmVars

LEMMA ScriptsThere ==
    ASSUME IInv, Reach, Next, Sane', NEW s \in Slots
    PROVE  ScriptThere(s)'
  <1>. USE DEF IInv
  <1>0. ScriptThere(s)
    BY DEF Reach
  <1>1. CASE CloudInit
    BY <1>1, BootScripts, IdleThere
  <1>2. ASSUME NEW t \in Slots, Repair(t) PROVE ScriptThere(s)'
    <2>1. CASE s = t
      BY <1>2, <2>1, ThereHere DEF Sane
    <2>2. CASE s # t
      BY <1>0, <1>2, <2>2, ThereElsewhere
    <2>. QED  BY <2>1, <2>2
  <1>3. CASE Write
    <2>1. PICK f : files' = [files EXCEPT ![Shown] = @ \cup {f}]
      BY <1>3 DEF Write
    <2>2. files["disk"] \subseteq files'["disk"]
      BY <2>1, ShownTyped DEF TypeOK, Places
    <2>3. UNCHANGED <<mounted, fs, fstab, script>>
      BY <1>3 DEF Write, disks, mounts
    <2>. QED  BY <1>0, <2>2, <2>3 DEF ScriptThere, Home, At, Filled, Listed
  <1>4. CASE Reboot
    <2>1. script'[s] = Idle \/ script'[s].at = "failed"
      <3>1. script[s].heard => script'[s] =
                [at |-> "failed", role |-> script[s].role, reform |-> script[s].reform,
                 stage |-> script[s].stage, moved |-> script[s].moved, heard |-> TRUE]
        BY <1>4, RebootScripts DEF TypeOK
      <3>2. ~script[s].heard => script'[s] = Idle
        BY <1>4, RebootScripts DEF TypeOK
      <3>. QED  BY <3>1, <3>2
    <2>. QED  BY <2>1, IdleThere DEF ScriptThere, Past, HomeAts
  <1>5. CASE CommandStep
    BY <1>0, <1>5, ThereCommands
  <1>. QED  BY <1>1, <1>2, <1>3, <1>4, <1>5 DEF Next, VmNext, CommandStep

LEMMA DiskThereFrame ==
    ASSUME DiskThere, bound'["home"] = bound["home"], fs'["home"] = fs["home"], fstab'["home"] = fstab["home"],
           mounted \subseteq mounted', Filled => Filled'
    PROVE  DiskThere'
  BY DEF DiskThere, Listed

\* A home disk that is formatted is not mounted, so nothing shows it and
\* fstab does not list it; the number it gets is a new one.
LEMMA DiskThereMkfs ==
    ASSUME TypeOK, DiskInv, Counted, DiskThere, "home" \in Roles, Mkfs("home"), UNCHANGED <<mounted, bound, fstab>>
    PROVE  DiskThere'
  <1>1. bound["home"] = "no" /\ ~fstab["home"].bind
    BY DEF Mkfs, DiskThere, DiskInv
  <1>2. ~Listed'
    <2>1. made \in Int /\ fs'["home"] = made + 1 /\ \A u \in fstab["home"].uuids : u \in Int /\ u <= made
      BY DEF TypeOK, Mkfs, Counted
    <2>. QED  BY <2>1 DEF Listed
  <1>. QED  BY <1>1, <1>2 DEF DiskThere

LEMMA DiskThereBoot ==
    ASSUME HomeFiles # {}, TypeOK, DiskInv, BootInv, Counted, DiskThere, CloudInit
    PROVE  DiskThere'
  <1>. USE DEF fixed, disks, mounts, homes, Step
  <1>. SUFFICES ASSUME "home" \in Roles PROVE DiskThere'
    BY DEF DiskThere
  <1>1. CASE BootMkfs
    <2>1. Section \in Roles /\ Mkfs(Section) /\ UNCHANGED <<mounted, bound, fstab>>
      BY <1>1 DEF BootMkfs, TypeOK
    <2>2. Section # "home" => fs'["home"] = fs["home"] /\ UNCHANGED files
      BY <2>1, MkfsTyped DEF Mkfs
    <2>. QED  BY <2>1, <2>2, DiskThereMkfs, DiskThereFrame DEF Filled
  <1>2. CASE BootMount \/ BootMkdir
    BY <1>2, DiskThereFrame DEF BootMount, BootMkdir, MakeDir, Filled
  <1>3. CASE BootCopy
    <2>1. files["disk"] \subseteq files'["disk"]
      BY <1>3 DEF BootCopy, TypeOK, Places
    <2>2. UNCHANGED <<mounted, bound, fstab, fs>>
      BY <1>3 DEF BootCopy
    <2>. QED  BY <2>1, <2>2, DiskThereFrame DEF Filled
  <1>4. CASE BootSwap
    <2>1. files'["disk"] = files["disk"]
      BY <1>4, RenameTyped DEF BootSwap, Places
    <2>2. UNCHANGED <<mounted, bound, fstab, fs>>
      BY <1>4 DEF BootSwap
    <2>. QED  BY <2>1, <2>2, DiskThereFrame DEF Filled
  <1>5. CASE BootBind
    <2>1. Section \in Roles /\ (Section = "home" => HomeAt("bind"))
      BY <1>5, SectionFacts DEF BootBind
    <2>2. UNCHANGED <<mounted, fstab, fs, files>> /\ bound' = [bound EXCEPT ![Section] = "disk"]
      BY <1>5 DEF BootBind
    <2>3. Section = "home" => Filled
      BY <2>1 DEF HomeAt, Filled
    <2>4. CASE Section = "home"
      BY <2>1, <2>2, <2>3, <2>4 DEF DiskThere, Filled, Listed, TypeOK
    <2>5. CASE Section # "home"
      BY <2>1, <2>2, <2>5, DiskThereFrame DEF Filled, TypeOK
    <2>. QED  BY <2>4, <2>5
  <1>6. CASE BootPersist
    <2>1. Section \in Roles /\ SectionAt(Section, "persist") /\ (Section = "home" => HomeAt("persist"))
      BY <1>6, SectionFacts DEF BootPersist
    <2>2. UNCHANGED <<mounted, bound, fs, files>>
          /\ fstab' = [fstab EXCEPT ![Section] = [uuids |-> @.uuids \cup {fs[Section]}, bind |-> TRUE]]
      BY <1>6 DEF BootPersist
    <2>3. CASE Section = "home"
      <3>1. "home" \in mounted /\ Filled
        BY <2>1, <2>3 DEF SectionAt, HomeAt, Filled
      <3>2. Listed'
        BY <2>1, <2>2, <2>3 DEF Listed, TypeOK
      <3>. QED  BY <2>2, <3>1, <3>2 DEF DiskThere, Filled
    <2>4. CASE Section # "home"
      <3>1. fstab'["home"] = fstab["home"]
        BY <2>1, <2>2, <2>4 DEF TypeOK
      <3>. QED  BY <2>2, <3>1, DiskThereFrame DEF Filled
    <2>. QED  BY <2>3, <2>4
  <1>7. CASE BootClean
    <2>1. files'["disk"] = files["disk"]
      BY <1>7 DEF BootClean, TypeOK, Places
    <2>. QED  BY <1>7, <2>1, DiskThereFrame DEF BootClean, Filled
  <1>8. CASE SectionFails
    <2>0. UNCHANGED <<mounted, bound, fstab, fs>>
      BY <1>8 DEF SectionFails
    <2>1. CASE boot.at = "copy"
      <3>1. Section = "home" /\ files["disk"] = {}
        BY <2>1, SectionFacts DEF SectionAt, HomeAt
      <3>2. Filled => Filled'
        BY <3>1 DEF Filled
      <3>. QED  BY <2>0, <3>2, DiskThereFrame
    <2>2. CASE boot.at # "copy"
      <3>1. files'["disk"] = files["disk"]
        BY <1>8, <2>2, RenameTyped DEF SectionFails, RollBack, Places
      <3>. QED  BY <2>0, <3>1, DiskThereFrame DEF Filled
    <2>. QED  BY <2>1, <2>2
  <1>9. CASE BootNet \/ Finalize
    BY <1>9, DiskThereFrame DEF BootNet, Finalize, Filled
  <1>. QED  BY <1>1, <1>2, <1>3, <1>4, <1>5, <1>6, <1>7, <1>8, <1>9 DEF CloudInit

LEMMA DiskThereRepair ==
    ASSUME TypeOK, DiskInv, ScriptInv, BootInv, Counted, Reach, NEW s \in Slots, Repair(s)
    PROVE  DiskThere'
  <1>. DEFINE r == script[s].role
  <1>. USE DEF fixed, disks, mounts, homes, booting
  <1>. SUFFICES ASSUME "home" \in Roles PROVE DiskThere'
    BY DEF DiskThere
  <1>0. DiskThere /\ ScriptThere(s)
    BY DEF Reach
  <1>a. r \in Roles
    BY RepairRuns, RunningFacts
  <1>1. CASE Format(s)
    <2>1. UNCHANGED <<mounted, bound, fstab>> /\ (Mkfs(r) \/ UNCHANGED <<fs, files>>)
      BY <1>1 DEF Format
    <2>2. CASE Mkfs(r) /\ r # "home"
      <3>1. fs'["home"] = fs["home"] /\ UNCHANGED files
        BY <1>a, <2>2, MkfsTyped DEF Mkfs
      <3>. QED  BY <1>0, <2>1, <3>1, DiskThereFrame DEF Filled
    <2>. QED  BY <1>0, <2>1, <2>2, DiskThereMkfs, DiskThereFrame DEF Filled
  <1>2. CASE Bind(s)
    <2>1. /\ UNCHANGED <<mounted, fstab, fs, files>> /\ bound' = [bound EXCEPT ![r] = Backing(r)] /\ At(s, "bind")
      BY <1>2 DEF Bind
    <2>2. CASE Home(s)
      <3>1. "home" \in mounted /\ Filled
        BY <1>0, <2>1, <2>2 DEF ScriptThere, At, Past, HomeAts
      <3>2. bound'["home"] = "disk"
        BY <2>1, <2>2, <3>1 DEF Home, Backing, TypeOK
      <3>. QED  BY <1>0, <2>1, <3>1, <3>2 DEF DiskThere, Filled, Listed
    <2>3. CASE ~Home(s)
      <3>1. bound'["home"] = bound["home"]
        BY <1>a, <2>1, <2>3 DEF Home, TypeOK
      <3>. QED  BY <1>0, <2>1, <3>1, DiskThereFrame DEF Filled
    <2>. QED  BY <2>2, <2>3
  <1>3. CASE PersistDisk(s)
    <2>1. /\ UNCHANGED <<mounted, bound, fs, files>> /\ fstab' = [fstab EXCEPT ![r].uuids = @ \cup {fs[r]}] /\ At(s, "fstab")
      BY <1>3 DEF PersistDisk
    <2>2. CASE Home(s)
      <3>1. "home" \in mounted /\ Filled
        BY <1>0, <2>1, <2>2 DEF ScriptThere, At, Past, HomeAts
      <3>2. Listed'
        BY <2>1, <2>2 DEF Home, Listed, TypeOK
      <3>. QED  BY <1>0, <2>1, <3>1, <3>2 DEF DiskThere, Filled
    <2>3. CASE ~Home(s)
      <3>1. fstab'["home"] = fstab["home"]
        BY <1>a, <2>1, <2>3 DEF Home, TypeOK
      <3>. QED  BY <1>0, <2>1, <3>1, DiskThereFrame DEF Filled
    <2>. QED  BY <2>2, <2>3
  <1>4. CASE PersistBind(s)
    <2>1. /\ UNCHANGED <<mounted, bound, fs, files>> /\ fstab' = [fstab EXCEPT ![r].bind = TRUE] /\ At(s, "fstab-bind")
      BY <1>4 DEF PersistBind
    <2>2. CASE Home(s)
      <3>1. Listed
        BY <1>0, <2>1, <2>2 DEF ScriptThere, At, Past, HomeAts
      <3>2. fstab'["home"].uuids = fstab["home"].uuids
        BY <1>a, <2>1 DEF TypeOK
      <3>. QED  BY <1>0, <2>1, <3>1, <3>2 DEF DiskThere, Filled, Listed
    <2>3. CASE ~Home(s)
      <3>1. fstab'["home"] = fstab["home"]
        BY <1>a, <2>1, <2>3 DEF Home, TypeOK
      <3>. QED  BY <1>0, <2>1, <3>1, DiskThereFrame DEF Filled
    <2>. QED  BY <2>2, <2>3
  <1>5. CASE MountAll(s)
    <2>1. UNCHANGED <<fstab, fs, files>> /\ mounted \subseteq mounted' /\ bound' = BindsBy(mounted')
      BY <1>5 DEF MountAll, ByFstab
    <2>2. CASE bound'["home"] = bound["home"]
      BY <1>0, <2>1, <2>2, DiskThereFrame DEF Filled
    <2>3. CASE bound'["home"] # bound["home"]
      <3>1. fstab["home"].bind /\ ("home" \in mounted' => bound'["home"] = "disk")
        BY <2>1, <2>3 DEF BindsBy
      <3>2. "home" \in mounted /\ Filled /\ Listed
        BY <1>0, <3>1 DEF DiskThere
      <3>. QED  BY <1>0, <2>1, <3>1, <3>2 DEF DiskThere, Filled, Listed
    <2>. QED  BY <2>2, <2>3
  <1>6. CASE CopyOne(s)
    <2>1. PICK f : files' = [files EXCEPT ![Backing("home")] = @ \cup {f}]
      BY <1>6 DEF CopyOne
    <2>2. files["disk"] \subseteq files'["disk"]
      BY <2>1, BackingTyped DEF TypeOK, Places
    <2>3. UNCHANGED <<mounted, bound, fstab, fs>>
      BY <1>6 DEF CopyOne
    <2>. QED  BY <1>0, <2>2, <2>3, DiskThereFrame DEF Filled
  <1>7. CASE Move(s) \/ ScriptFails(s) \/ Signalled(s)
    <2>1. files'["disk"] = files["disk"]
      BY <1>7, RenameTyped DEF Move, ScriptFails, Signalled, Restore, Places
    <2>2. UNCHANGED <<mounted, bound, fstab, fs>>
      BY <1>7 DEF Move, ScriptFails, Signalled
    <2>. QED  BY <1>0, <2>1, <2>2, DiskThereFrame DEF Filled
  <1>8. CASE MountBacking(s) \/ MakeSource(s) \/ CopyEnds(s) \/ Verify(s) \/ MakeTarget(s) \/ Killed(s)
    <2>1. UNCHANGED <<bound, fstab, fs, files>> /\ mounted \subseteq mounted'
      BY <1>8 DEF MountBacking, MakeSource, CopyEnds, Verify, MakeTarget, MakeDir, Killed
    <2>. QED  BY <1>0, <2>1, DiskThereFrame DEF Filled
  <1>. QED  BY <1>1, <1>2, <1>3, <1>4, <1>5, <1>6, <1>7, <1>8 DEF Repair

LEMMA DiskThereStays ==
    ASSUME HomeFiles # {}, IInv, Counted, Reach, Next
    PROVE  DiskThere'
  <1>. USE DEF IInv
  <1>0. DiskThere
    BY DEF Reach
  <1>1. CASE CloudInit
    BY <1>0, <1>1, DiskThereBoot
  <1>2. ASSUME NEW s \in Slots, Repair(s) PROVE DiskThere'
    BY <1>2, DiskThereRepair
  <1>3. CASE Write
    <2>1. PICK f : files' = [files EXCEPT ![Shown] = @ \cup {f}]
      BY <1>3 DEF Write
    <2>2. files["disk"] \subseteq files'["disk"]
      BY <2>1, ShownTyped DEF TypeOK, Places
    <2>3. UNCHANGED <<mounted, bound, fstab, fs>>
      BY <1>3 DEF Write, disks, mounts
    <2>. QED  BY <1>0, <2>2, <2>3, DiskThereFrame DEF Filled
  <1>4. CASE Reboot
    <2>1. /\ mounted' = {q \in device : fs[q] \in fstab[q].uuids} /\ UNCHANGED <<fs, fstab, files>>
          /\ bound' = [q \in Roles |-> IF fstab[q].bind /\ q \in mounted' /\ (q = "home" => "disk" \in dirs)
                                         THEN "disk" ELSE "no"]
      BY <1>4 DEF Reboot, ByFstab, disks, homes
    <2>. SUFFICES ASSUME "home" \in Roles PROVE DiskThere'
      BY DEF DiskThere
    <2>2. Listed => "home" \in mounted'
      BY <1>0, <2>1 DEF DiskThere, DiskInv, Listed
    <2>3. bound'["home"] \in {"disk", "no"} /\ (bound'["home"] = "disk" => fstab["home"].bind)
      BY <2>1
    <2>. QED  BY <1>0, <2>1, <2>2, <2>3 DEF DiskThere, Filled, Listed
  <1>5. CASE CommandStep
    BY <1>0, <1>5, CommandFrame, DiskThereFrame DEF mounts, homes, Filled
  <1>. QED  BY <1>1, <1>2, <1>3, <1>4, <1>5 DEF Next, VmNext, CommandStep

\* An empty home stays explained as long as what explains it does.
LEMMA OsThereFrame ==
    ASSUME OsThere,
           files'["os"] = {} => files["os"] = {},
           SwapBoot => SwapBoot',
           bound'["home"] = bound["home"],
           files["old"] # {} => files'["old"] # {},
           "old" \in dirs => "old" \in dirs',
           bound["home"] # "no" /\ Persisted("home") => Persisted("home")',
           \A s \in Slots : Aside(s) => Aside(s)'
    PROVE  OsThere'
  BY DEF OsThere

LEMMA OsThereFull == ASSUME files'["os"] # {} PROVE OsThere'
  BY DEF OsThere

LEMMA SwapReady == ASSUME Ready PROVE ~SwapBoot
  BY DEF Ready, SwapBoot

LEMMA HomeInOs ==
    ASSUME HomeFiles # {}, HomeFiles \subseteq files["os"], files'["os"] = files["os"] PROVE OsThere'
  BY OsThereFull

LEMMA OsThereBoot ==
    ASSUME HomeFiles # {}, TypeOK, DiskInv, DataInv, BootInv, ScriptInv, OsThere, CloudInit,
           "home" \in Roles /\ Durable("home") => Durable("home")'
    PROVE  OsThere'
  <1>. USE DEF fixed, disks, mounts, homes, Step
  <1>0. ~Ready /\ \A s \in Slots : ~Aside(s)
    <2>1. ~Ready /\ \A s \in Slots : script[s] = Idle
      BY BootScripts DEF BootInv
    <2>. QED  BY <2>1, IdleIsScript DEF Aside
  <1>1. CASE BootMkfs
    <2>1. Section \in Roles /\ Mkfs(Section) /\ UNCHANGED <<mounted, bound, fstab>> /\ boot.at = "wait"
      BY <1>1 DEF BootMkfs, TypeOK
    <2>2. files'["os"] = files["os"] /\ files'["old"] = files["old"] /\ ("old" \in dirs => "old" \in dirs')
      BY <2>1 DEF Mkfs, TypeOK, Places
    <2>3. bound["home"] # "no" /\ Persisted("home") /\ "home" \in Roles => Persisted("home")'
      <3>. SUFFICES ASSUME bound["home"] # "no", Persisted("home"), "home" \in Roles PROVE Persisted("home")'
        OBVIOUS
      <3>1. CASE Section = "home"
        BY <2>1, <3>1, <1>0 DEF BootInv, SectionAt, Section
      <3>2. CASE Section # "home"
        BY <2>1, <3>2, MkfsTyped DEF Persisted
      <3>. QED  BY <3>1, <3>2
    <2>4. CASE "home" \in Roles
      BY <1>0, <2>1, <2>2, <2>3, <2>4, OsThereFrame DEF SwapBoot
    <2>5. CASE "home" \notin Roles
      BY <2>1, <2>2, <2>5 DEF OsThere, SwapBoot
    <2>. QED  BY <2>4, <2>5
  <1>2. CASE BootMount
    <2>1. UNCHANGED <<bound, files, fs, fstab>> /\ dirs \subseteq dirs' /\ boot.at = "mount"
      BY <1>2 DEF BootMount, MakeDir
    <2>. QED  BY <1>0, <2>1, OsThereFrame DEF SwapBoot, Persisted
  <1>3. CASE BootCopy
    <2>1. UNCHANGED <<bound, dirs, fs, fstab>> /\ boot.at = "copy"
      BY <1>3 DEF BootCopy
    <2>2. files'["os"] = files["os"] /\ files'["old"] = files["old"]
      BY <1>3 DEF BootCopy, TypeOK, Places
    <2>. QED  BY <1>0, <2>1, <2>2, OsThereFrame DEF SwapBoot, Persisted
  <1>4. CASE BootSwap
    <2>1. boot.at = "swap" /\ boot'.at = "mkdir" /\ boot'.todo = boot.todo
      BY <1>4 DEF BootSwap, TypeOK
    <2>2. Section = "home"
      BY <2>1, SectionFacts DEF SectionAt
    <2>. QED  BY <2>1, <2>2 DEF OsThere, SwapBoot, Section
  <1>5. CASE BootMkdir
    <2>1. boot.at = "mkdir" /\ boot'.at = "bind" /\ boot'.todo = boot.todo
      BY <1>5 DEF BootMkdir, TypeOK
    <2>2. Section = "home"
      BY <2>1, SectionFacts DEF SectionAt
    <2>. QED  BY <2>1, <2>2 DEF OsThere, SwapBoot, Section
  <1>6. CASE BootBind
    <2>1. Section \in Roles /\ (Section = "home" => HomeAt("bind"))
      BY <1>6, SectionFacts DEF BootBind
    <2>2. UNCHANGED <<fs, fstab, files, dirs>> /\ bound' = [bound EXCEPT ![Section] = "disk"]
      BY <1>6 DEF BootBind
    <2>3. CASE Section = "home"
      <3>1. "old" \in dirs' /\ bound'["home"] = "disk" /\ "home" \in Roles
        BY <2>1, <2>2, <2>3 DEF HomeAt, TypeOK
      <3>. QED  BY <3>1 DEF OsThere
    <2>4. CASE Section # "home"
      <3>1. bound'["home"] = bound["home"]
        BY <2>1, <2>2, <2>4 DEF TypeOK
      <3>. QED  BY <1>0, <2>2, <2>4, <3>1, OsThereFrame DEF SwapBoot, Persisted
    <2>. QED  BY <2>3, <2>4
  <1>7. CASE BootPersist
    <2>1. Section \in Roles /\ (Section = "home" => HomeAt("persist") /\ SectionAt("home", "persist"))
      BY <1>7, SectionFacts DEF BootPersist
    <2>2. UNCHANGED <<fs, files, dirs, bound>> /\ boot.at = "persist"
          /\ fstab' = [fstab EXCEPT ![Section] = [uuids |-> @.uuids \cup {fs[Section]}, bind |-> TRUE]]
      BY <1>7 DEF BootPersist
    <2>3. CASE Section = "home"
      BY <2>1, <2>2, <2>3 DEF HomeAt, SectionAt, OsThere
    <2>4. CASE Section # "home" /\ "home" \in Roles
      <3>1. fstab'["home"] = fstab["home"]
        BY <2>1, <2>2, <2>4 DEF TypeOK
      <3>. QED  BY <1>0, <2>2, <2>4, <3>1, OsThereFrame DEF SwapBoot, Persisted
    <2>5. CASE "home" \notin Roles
      BY <2>1, <2>2, <2>5 DEF OsThere, SwapBoot
    <2>. QED  BY <2>3, <2>4, <2>5
  <1>8. CASE BootClean
    <2>1. boot.at = "clean" /\ UNCHANGED <<fs, fstab, bound>>
      BY <1>8 DEF BootClean
    <2>2. CASE Section = "home"
      <3>1. "home" \in Roles /\ bound["home"] # "no" /\ Persisted("home")
        BY <2>1, <2>2, SectionFacts DEF SectionAt
      <3>. QED  BY <2>1, <3>1 DEF OsThere, Persisted
    <2>3. CASE Section # "home"
      <3>1. UNCHANGED <<dirs, files>>
        BY <1>8, <2>3 DEF BootClean
      <3>. QED  BY <1>0, <2>1, <3>1, OsThereFrame DEF SwapBoot, Persisted
    <2>. QED  BY <2>2, <2>3
  <1>9. CASE SectionFails
    <2>0. /\ UNCHANGED <<fs, fstab, bound>> /\ Section \in Roles /\ boot.at \notin {"clean", "finalize", "done", "dead"}
          /\ boot.at \in Seeds
      BY <1>9 DEF SectionFails, Section, TypeOK
    <2>1. CASE Section # "home"
      <3>1. UNCHANGED <<dirs, files>>
        <4>1. boot.at # "copy"
          BY <2>1, SectionFacts DEF SectionAt
        <4>. QED  BY <1>9, <2>1, <4>1 DEF SectionFails, RollBack
      <3>. QED  BY <1>0, <2>0, <2>1, <3>1, OsThereFrame DEF SwapBoot, Persisted
    <2>2. CASE Section = "home"
      <3>1. HomeAt(boot.at) /\ SectionAt("home", boot.at)
        BY <1>0, <2>0, <2>2 DEF BootInv
      <3>2. CASE boot.at \in {"wait", "mount", "copy", "swap"}
        <4>1. HomeFiles \subseteq files["os"]
          BY <3>1, <3>2 DEF HomeAt
        <4>2. files'["os"] = files["os"]
          <5>1. CASE boot.at = "copy"
            BY <1>9, <5>1 DEF SectionFails, TypeOK, Places
          <5>2. CASE boot.at # "copy"
            BY <1>9, <3>2, <5>2 DEF SectionFails, RollBack
          <5>. QED  BY <5>1, <5>2
        <4>. QED  BY <4>1, <4>2, HomeInOs
      <3>3. CASE boot.at \in {"mkdir", "bind"}
        <4>1. HomeFiles \subseteq files["old"] /\ bound["home"] = "no"
          BY <3>1, <3>3 DEF HomeAt, SectionAt
        <4>2. HomeBind = "no"
          BY <4>1 DEF HomeBind
        <4>3. Rename("old", "os")
          BY <1>9, <2>2, <3>3, <4>2 DEF SectionFails, RollBack
        <4>4. files'["os"] = files["old"]
          BY <4>3, RenameTyped DEF Places
        <4>. QED  BY <4>1, <4>4, OsThereFull
      <3>4. CASE boot.at = "persist"
        <4>1. "old" \in dirs /\ bound["home"] = "disk" /\ "home" \in Roles
          BY <2>0, <2>2, <3>1, <3>4 DEF HomeAt, SectionAt
        <4>2. UNCHANGED <<dirs, files>>
          BY <1>9, <3>4, <4>1 DEF SectionFails, RollBack, HomeBind
        <4>. QED  BY <2>0, <4>1, <4>2 DEF OsThere
      <3>. QED  BY <2>0, <3>2, <3>3, <3>4 DEF Seeds
    <2>. QED  BY <2>1, <2>2
  <1>10. CASE BootNet \/ Finalize
    <2>1. UNCHANGED <<fs, fstab, bound, dirs, files>> /\ boot.at \in {"wait", "finalize"}
      BY <1>10 DEF BootNet, Finalize
    <2>. QED  BY <1>0, <2>1, OsThereFrame DEF SwapBoot, Persisted
  <1>. QED  BY <1>1, <1>2, <1>3, <1>4, <1>5, <1>6, <1>7, <1>8, <1>9, <1>10 DEF CloudInit

\* A home that was empty without being shown elsewhere was moved to .old.
LEMMA OldIsThere ==
    ASSUME TypeOK, DataInv, OsThere, Ready, files["os"] = {}, bound["home"] = "no"
    PROVE  files["old"] # {} /\ "old" \in dirs /\ "home" \in Roles
  <1>1. ~SwapBoot
    BY SwapReady
  <1>. QED  BY <1>1 DEF OsThere, DataInv, Places

\* A bind of the home is not undone, and what fstab says of it stays.
LEMMA ShownStays ==
    ASSUME TypeOK, DiskInv, ScriptInv, Reach, NEW s \in Slots, Repair(s), "home" \in Roles, bound["home"] # "no"
    PROVE  bound'["home"] # "no" /\ (Persisted("home") => Persisted("home")')
  <1>1. bound["home"] = "disk" /\ "home" \in mounted
    BY DEF Reach, DiskThere, DiskInv
  <1>2. bound'["home"] = "disk"
    BY <1>1, BoundStays
  <1>. QED  BY <1>1, <1>2, RepairLeaves

LEMMA AsideElsewhere ==
    ASSUME TypeOK, ScriptInv, NEW s \in Slots, Repair(s), NEW t \in Slots \ {s}, Aside(t), "os" \in dirs => "os" \in dirs'
    PROVE  Aside(t)'
  <1>1. script'[t] = script[t]
    BY RepairMoves
  <1>. QED  BY <1>1 DEF Aside, Home, At

\* A step of a script that touches neither places is harmless, if it has not
\* moved the home aside itself or still has after the step.
LEMMA OsThereQuiet ==
    ASSUME TypeOK, DiskInv, DataInv, ScriptInv, BootInv, Reach, NEW s \in Slots, Repair(s),
           files'["os"] = files["os"], files'["old"] = files["old"], "old" \in dirs => "old" \in dirs',
           "os" \in dirs => "os" \in dirs', UNCHANGED boot,
           Aside(s) => Aside(s)' \/ bound'["home"] # "no"
    PROVE  OsThere'
  <1>0. Ready /\ OsThere /\ ~SwapBoot /\ ~SwapBoot'
    BY RepairRuns, RunningReady DEF Reach, Ready, SwapBoot
  <1>. SUFFICES ASSUME files'["os"] = {} PROVE OsThere'
    BY OsThereFull
  <1>1. "home" \in Roles
    BY <1>0 DEF OsThere
  <1>2. CASE bound["home"] = "no"
    <2>1. files["old"] # {} /\ "old" \in dirs
      BY <1>0, <1>2, OldIsThere
    <2>2. PICK t \in Slots : Aside(t)
      BY <1>0, <1>2 DEF OsThere
    <2>3. Aside(t)' \/ bound'["home"] # "no"
      BY <2>2, AsideElsewhere
    <2>. QED  BY <1>1, <2>1, <2>3 DEF OsThere
  <1>3. CASE bound["home"] # "no"
    <2>1. bound'["home"] # "no" /\ (Persisted("home") => Persisted("home")')
      BY <1>1, <1>3, ShownStays
    <2>2. "old" \in dirs \/ Persisted("home")
      BY <1>0, <1>3 DEF OsThere
    <2>. QED  BY <1>1, <2>1, <2>2 DEF OsThere
  <1>. QED  BY <1>2, <1>3

\* The trap of a script that armed it.
LEMMA OsThereRestore ==
    ASSUME TypeOK, DiskInv, DataInv, ScriptInv, BootInv, Reach, NEW s \in Slots, Repair(s), UNCHANGED <<bound, boot>>,
           Restore(s), At(s, "bind") \/ UNCHANGED script
    PROVE  OsThere'
  <1>0. Ready /\ OsThere
    BY RepairRuns, RunningReady DEF Reach
  <1>1. CASE ~UNCHANGED <<dirs, files>>
    <2>1. HomeBind = "no" /\ files["os"] = {} /\ Rename("old", "os") /\ script[s].moved
      BY <1>1 DEF Restore
    <2>2. "home" \in Roles
      BY <1>0, <2>1, SwapReady DEF OsThere
    <2>3. bound["home"] = "no"
      BY <2>1, <2>2 DEF HomeBind
    <2>4. files'["os"] = files["old"]
      BY <2>1, RenameTyped DEF Places
    <2>5. files["old"] # {}
      BY <1>0, <2>1, <2>3, OldIsThere
    <2>. QED  BY <2>4, <2>5, OsThereFull
  <1>2. CASE UNCHANGED <<dirs, files>> /\ UNCHANGED script
    BY <1>2, OsThereQuiet DEF Aside, Home, At
  <1>3. CASE UNCHANGED <<dirs, files>> /\ At(s, "bind")
    <2>1. CASE files["os"] = {} /\ bound["home"] = "no"
      <3>1. "old" \in dirs /\ "home" \in Roles /\ files["old"] # {}
        BY <1>0, <2>1, OldIsThere
      <3>2. ~Aside(s)
        <4>1. ASSUME Aside(s) PROVE FALSE
          <5>1. script[s].moved /\ HomeBind = "no" /\ "os" \in dirs
            BY <1>3, <2>1, <3>1, <4>1 DEF Aside, HomeBind, At
          <5>2. Rename("old", "os")
            BY <2>1, <3>1, <5>1 DEF Restore
          <5>3. files'["os"] = files["old"]
            BY <5>2, RenameTyped DEF Places
          <5>. QED  BY <1>3, <2>1, <3>1, <5>3
        <4>. QED  BY <4>1
      <3>. QED  BY <1>3, <3>2, OsThereQuiet
    <2>2. CASE files["os"] # {}
      BY <1>3, <2>2, OsThereFull
    <2>3. CASE bound["home"] # "no"
      BY <1>3, <2>3, OsThereQuiet
    <2>. QED  BY <2>1, <2>2, <2>3
  <1>. QED  BY <1>1, <1>2, <1>3

LEMMA OsThereRepair ==
    ASSUME TypeOK, DiskInv, DataInv, ScriptInv, BootInv, Reach, NEW s \in Slots, Repair(s), Sane'
    PROVE  OsThere'
  <1>. DEFINE r == script[s].role
  <1>. USE DEF fixed, disks, mounts, homes, booting
  <1>0. UNCHANGED boot
    BY DEF Repair, Format, MountBacking, MakeSource, CopyOne, CopyEnds, Verify, Move, MakeTarget, Bind,
       PersistDisk, PersistBind, MountAll, ScriptFails, Signalled, Killed
  <1>a. Ready /\ OsThere /\ ~SwapBoot /\ r \in Roles /\ (Home(s) => "home" \in Roles)
    BY RepairRuns, RunningReady, SwapReady, RunningFacts DEF Reach
  <1>1. CASE Format(s)
    <2>1. ~Aside(s)
      BY <1>1 DEF Format, Aside, At
    <2>2. files'["os"] = files["os"] /\ files'["old"] = files["old"] /\ dirs \ {"disk"} \subseteq dirs'
      BY <1>1 DEF Format, Mkfs, TypeOK, Places
    <2>. QED  BY <1>0, <2>1, <2>2, OsThereQuiet
  <1>2. CASE MountBacking(s) \/ MakeSource(s) \/ CopyEnds(s) \/ Verify(s)
    <2>1. ~Aside(s)
      BY <1>2 DEF MountBacking, MakeSource, CopyEnds, Verify, Aside, At
    <2>2. UNCHANGED files /\ dirs \subseteq dirs'
      BY <1>2 DEF MountBacking, MakeSource, CopyEnds, Verify
    <2>. QED  BY <1>0, <2>1, <2>2, OsThereQuiet
  <1>3. CASE CopyOne(s)
    <2>1. ~Aside(s) /\ UNCHANGED dirs
      BY <1>3 DEF CopyOne, Aside, At
    <2>2. PICK f : files' = [files EXCEPT ![Backing("home")] = @ \cup {f}]
      BY <1>3 DEF CopyOne
    <2>3. files'["os"] = files["os"] /\ files'["old"] = files["old"]
      BY <2>2, BackingTyped DEF TypeOK, Places
    <2>. QED  BY <1>0, <2>1, <2>3, OsThereQuiet
  <1>4. CASE Move(s)
    <2>1. ~Aside(s)
      BY <1>4 DEF Move, Aside, At
    <2>2. CASE UNCHANGED <<dirs, files>>
      BY <1>0, <2>1, <2>2, OsThereQuiet
    <2>3. CASE Content(Shown) # {} /\ Shown = "os" /\ Rename("os", "old")
               /\ script' = [script EXCEPT ![s].at = "mkdir", ![s].moved = TRUE]
      <3>1. Home(s)
        BY <1>4 DEF Move, At, ScriptInv, ScriptOk, HomeAts
      <3>2. bound["home"] = "no"
        BY <1>a, <2>3, <3>1, ShownTyped DEF Shown, HomeBind
      <3>3. files'["old"] = files["os"] /\ files["os"] # {} /\ UNCHANGED bound
        BY <1>4, <2>3, RenameTyped DEF Content, Places, Move
      <3>4. script'[s].at = "mkdir" /\ script'[s].moved /\ script'[s].role = script[s].role
        BY <2>3, MovedFields DEF TypeOK
      <3>5. Aside(s)'
        BY <3>1, <3>4 DEF Aside, At, Home
      <3>. QED  BY <1>a, <3>1, <3>2, <3>3, <3>5 DEF OsThere
    <2>. QED  BY <1>4, <2>2, <2>3 DEF Move
  <1>5. CASE MakeTarget(s)
    <2>1. UNCHANGED <<files, bound>> /\ dirs' = dirs \cup {Shown} /\ Goto(s, "bind")
      BY <1>5 DEF MakeTarget, MakeDir
    <2>2. script'[s].at = "bind" /\ script'[s].role = script[s].role /\ (script'[s].moved <=> script[s].moved)
      BY <2>1, GotoFields DEF TypeOK, ScriptAts, Past
    <2>3. Aside(s) => Aside(s)' \/ bound'["home"] # "no"
      BY <1>a, <2>1, <2>2 DEF Aside, At, Home, Shown, HomeBind
    <2>. QED  BY <1>0, <2>1, <2>3, OsThereQuiet
  <1>6. CASE Bind(s)
    <2>1. UNCHANGED <<files, dirs>> /\ bound' = [bound EXCEPT ![r] = Backing(r)]
      BY <1>6 DEF Bind
    <2>2. Aside(s) => bound'["home"] # "no"
      BY <1>a, <2>1 DEF Aside, Home, Backing, TypeOK
    <2>. QED  BY <1>0, <2>1, <2>2, OsThereQuiet
  <1>7. CASE PersistDisk(s) \/ PersistBind(s) \/ MountAll(s)
    <2>1. UNCHANGED <<files, dirs>> /\ ~Aside(s)
      BY <1>7 DEF PersistDisk, PersistBind, MountAll, Aside, At
    <2>. QED  BY <1>0, <2>1, OsThereQuiet
  <1>8. CASE ScriptFails(s)
    <2>1. UNCHANGED bound
      BY <1>8 DEF ScriptFails
    <2>2. ~(Home(s) /\ At(s, "mkdir"))
      BY <1>8 DEF ScriptFails, Sane, At
    <2>3. CASE Armed(s)
      <3>1. At(s, "bind") /\ Restore(s)
        <4>1. At(s, "mkdir") => Home(s)
          BY DEF ScriptInv, ScriptOk, HomeAts, At
        <4>. QED  BY <1>8, <2>2, <2>3, <4>1 DEF ScriptFails, Armed, At
      <3>. QED  BY <1>0, <2>1, <3>1, OsThereRestore
    <2>4. CASE ~Armed(s)
      <3>1. UNCHANGED <<files, dirs>> /\ ~Aside(s)
        BY <1>8, <2>4 DEF ScriptFails, Armed, Aside, At
      <3>. QED  BY <1>0, <3>1, OsThereQuiet
    <2>. QED  BY <2>3, <2>4
  <1>9. CASE Signalled(s)
    BY <1>0, <1>9, OsThereRestore DEF Signalled
  <1>10. CASE Killed(s)
    <2>1. UNCHANGED <<files, dirs>> /\ ~Aside(s)
      BY <1>10 DEF Killed, Sane, Swapping, Aside, At
    <2>. QED  BY <1>0, <2>1, OsThereQuiet
  <1>. QED  BY <1>1, <1>2, <1>3, <1>4, <1>5, <1>6, <1>7, <1>8, <1>9, <1>10 DEF Repair

\* A reboot leaves an empty home only where the bind comes back.
LEMMA OsThereReboot ==
    ASSUME TypeOK, DiskInv, DataInv, BootInv, Reach, Reboot, Sane'
    PROVE  OsThere'
  <1>. SUFFICES ASSUME files'["os"] = {} PROVE OsThere'
    BY OsThereFull
  <1>1. /\ mounted' = {q \in device : fs[q] \in fstab[q].uuids} /\ UNCHANGED <<fs, fstab, files, dirs>>
        /\ bound' = [q \in Roles |-> IF fstab[q].bind /\ q \in mounted' /\ (q = "home" => "disk" \in dirs)
                                       THEN "disk" ELSE "no"]
    BY DEF Reboot, ByFstab, disks, homes
  <1>2. "home" \in Roles /\ "old" \in dirs => bound["home"] = "disk" /\ Persisted("home")
    BY DEF Reboot, Sane
  <1>3. ~SwapBoot
    <2>. SUFFICES ASSUME SwapBoot PROVE FALSE
      OBVIOUS
    <2>1. Section = "home" /\ HomeAt(boot.at) /\ SectionAt("home", boot.at) /\ "home" \in Roles
      BY SectionFacts DEF SwapBoot
    <2>2. "old" \in dirs /\ bound["home"] = "no"
      BY <2>1 DEF SwapBoot, HomeAt, SectionAt
    <2>. QED  BY <1>2, <2>1, <2>2
  <1>4. "home" \in Roles
    BY <1>1, <1>3 DEF Reach, OsThere
  <1>5. bound["home"] # "no"
    <2>. SUFFICES ASSUME bound["home"] = "no" PROVE FALSE
      OBVIOUS
    <2>1. files["old"] # {}
      BY <1>1, <1>3 DEF Reach, OsThere
    <2>. QED  BY <1>2, <1>4, <2>1 DEF DataInv, Places
  <1>6. Persisted("home") /\ "home" \in mounted /\ "disk" \in dirs /\ "home" \in device
    BY <1>1, <1>2, <1>3, <1>4, <1>5 DEF Reach, OsThere, DiskThere, DiskInv
  <1>7. bound'["home"] = "disk" /\ Persisted("home")'
    BY <1>1, <1>4, <1>6 DEF Persisted
  <1>. QED  BY <1>4, <1>7 DEF OsThere

LEMMA OsThereCommands == ASSUME TypeOK, OsThere, CommandStep PROVE OsThere'
  <1>0. UNCHANGED <<bound, fs, fstab, files, dirs, boot>>
    BY CommandFrame DEF mounts, homes, booting
  <1>. SUFFICES ASSUME NEW s \in Slots, Aside(s) PROVE Aside(s)'
    BY <1>0, OsThereFrame DEF SwapBoot, Section, Persisted
  <1>a. script[s].at \in {"mkdir", "bind"}
    BY DEF Aside, At
  <1>1. CASE script'[s] = script[s]
    BY <1>0, <1>1 DEF Aside, Home, At
  <1>2. ASSUME NEW t \in Slots, Collect(t) PROVE script'[s] = script[s]
    BY <1>2, <1>a DEF Collect, TypeOK
  <1>3. ASSUME NEW t \in Slots, Drop(t) PROVE Aside(s)'
    <2>1. CASE s # t
      BY <1>1, <1>3, <2>1, DropFacts DEF Drop, TypeOK
    <2>2. CASE s = t
      <3>1. script'[s] = [at |-> script[s].at, role |-> script[s].role, reform |-> script[s].reform,
                          stage |-> script[s].stage, moved |-> script[s].moved, heard |-> FALSE]
        BY <1>3, <2>2, DropFacts DEF Drop, TypeOK
      <3>2. script'[s].at = script[s].at /\ script'[s].role = script[s].role /\ script'[s].moved = script[s].moved
        BY <3>1
      <3>. QED  BY <1>0, <3>2 DEF Aside, Home, At
    <2>. QED  BY <2>1, <2>2
  <1>4. CASE Launch
    BY <1>1, <1>4, <1>a DEF Launch, At, TypeOK
  <1>. QED  BY <1>1, <1>2, <1>3, <1>4 DEF CommandStep, ProbeAndPlan, ProbeFails, Confirm, Reprobe, vmVars

LEMMA OsThereWrite == ASSUME TypeOK, OsThere, Write PROVE OsThere'
  <1>1. PICK f : files' = [files EXCEPT ![Shown] = @ \cup {f}]
    BY DEF Write
  <1>2. \A p \in Places : files[p] \subseteq files'[p]
    BY <1>1, ShownTyped DEF TypeOK
  <1>3. UNCHANGED <<bound, fs, fstab, dirs, boot, script>>
    BY DEF Write, disks, mounts, booting
  <1>4. files["os"] \subseteq files'["os"] /\ files["old"] \subseteq files'["old"]
    BY <1>2 DEF Places
  <1>. QED  BY <1>3, <1>4, OsThereFrame DEF SwapBoot, Section, Persisted, Aside, Home, At

LEMMA OsThereStays ==
    ASSUME HomeFiles # {}, IInv, Reach, Next, Sane' PROVE OsThere'
  <1>. USE DEF IInv
  <1>0. OsThere
    BY DEF Reach
  <1>1. CASE CloudInit
    <2>1. "home" \in Roles /\ Durable("home") => Durable("home")'
      BY DurableStays
    <2>. QED  BY <1>0, <1>1, <2>1, OsThereBoot
  <1>2. ASSUME NEW s \in Slots, Repair(s) PROVE OsThere'
    BY <1>2, OsThereRepair
  <1>3. CASE Write \/ Reboot \/ CommandStep
    BY <1>0, <1>3, OsThereWrite, OsThereReboot, OsThereCommands
  <1>. QED  BY <1>1, <1>2, <1>3 DEF Next, VmNext, CommandStep

ReachInv == Counted /\ (Sane => Reach)

LEMMA ReachInit == ASSUME HomeFiles # {}, Init PROVE ReachInv
  <1>1. /\ fs = [r \in Roles |-> IF r \in foreign THEN Foreign ELSE Blank] /\ made = 0
        /\ bound = [r \in Roles |-> "no"] /\ fstab = [r \in Roles |-> [uuids |-> {}, bind |-> FALSE]]
        /\ files["os"] = HomeFiles /\ \A s \in Slots : script[s] = Idle
    BY DEF Init, VmInit, Places
  <1>2. Counted
    BY <1>1 DEF Counted, Foreign, Blank
  <1>3. \A s \in Slots : ScriptThere(s)
    BY <1>1, IdleIsScript DEF ScriptThere, Past, HomeAts
  <1>4. DiskThere /\ OsThere
    BY <1>1 DEF DiskThere, OsThere, Listed
  <1>. QED  BY <1>2, <1>3, <1>4 DEF ReachInv, Reach

LEMMA ReachStep == ASSUME HomeFiles # {}, IInv, ReachInv, Next PROVE ReachInv'
  <1>1. Counted'
    BY CountedStays DEF IInv, ReachInv
  <1>2. ASSUME Sane' PROVE Reach'
    <2>1. Reach /\ Counted
      BY <1>2, SaneBefore DEF IInv, ReachInv
    <2>2. DiskThere' /\ OsThere' /\ \A s \in Slots : ScriptThere(s)'
      BY <1>2, <2>1, DiskThereStays, OsThereStays, ScriptsThere
    <2>. QED  BY <2>2 DEF Reach
  <1>. QED  BY <1>1, <1>2 DEF ReachInv

LEMMA ReachStutter == ASSUME ReachInv, UNCHANGED vars PROVE ReachInv'
  <1>. USE DEF vars, vmVars, fixed, disks, mounts, homes, booting
  <1>1. Counted'
    BY CountedFrame DEF ReachInv
  <1>2. Sane' => Sane
    BY DEF Sane, Astray
  <1>3. Reach => (\A s \in Slots : ScriptThere(s)') /\ DiskThere' /\ OsThere'
    BY DEF Reach, ScriptThere, DiskThere, OsThere, SwapBoot, Section, Aside, Home, At, Filled, Listed, Persisted
  <1>. QED  BY <1>1, <1>2, <1>3 DEF ReachInv, Reach

LEMMA ReachInvariance == Spec => []ReachInv
  <1>1. IInv /\ ReachInv /\ [Next]_vars => ReachInv'
    BY ConstantsAssumption, ReachStep, ReachStutter
  <1>2. Init => ReachInv
    BY ConstantsAssumption, ReachInit
  <1>. QED  BY <1>1, <1>2, Invariance, PTL DEF Spec

-----------------------------------------------------------------------------
(* The home is whole. *)

Sealed == marker["disk"] = "complete"
Whole  == (files["old"] \cup files["os"]) \ late \subseteq files["disk"]

\* A script of the home that copies, and one that takes the copy for verified.
Copying(s) == Home(s) /\ script[s].at \in {"copy", "verify"}
Beyond(s)  == Home(s) /\ script[s].at \in Past \ {"source", "copy", "verify"}

\* Something has come of a copy, or will at the next boot.
Covered == "old" \in dirs \/ bound["home"] # "no" \/ Listed \/ \E s \in Slots : Beyond(s)

\* While a copy can still be verified it holds nothing that its original lacks:
\* then a count that agrees says that they are the same.
Tight == bound["home"] = "no" /\ (~Sealed \/ \E s \in Slots : Copying(s))
           => files["disk"] \subseteq files["os"] \cup files["old"]

OldOk  == "old" \in dirs => "home" \in mounted /\ Filled
SealOk == Sealed => Filled
MarkOk == \A s \in Slots : Copying(s) => marker["disk"] # "none"

\* A copy that a repair began has a marker; it is covered only once it is
\* sealed, and it is whole from then on.
RepairCopy == copier = "repair" =>
    /\ "home" \in Roles /\ Ready /\ Filled /\ marker["disk"] # "none"
    /\ Covered => Sealed
    /\ Sealed => Whole
    /\ Tight

CopyInv == OldOk /\ SealOk /\ MarkOk /\ RepairCopy

LEMMA DiskGrows ==
    ASSUME IInv, Next
    PROVE  files["disk"] \subseteq files'["disk"] \/ ("home" \in Roles /\ Mkfs("home"))
  <1>. USE DEF IInv, fixed, disks, mounts, homes, booting, Step
  <1>1. CASE BootMkfs
    <2>1. Section \in Roles /\ Mkfs(Section)
      BY <1>1 DEF BootMkfs, TypeOK
    <2>. QED  BY <2>1 DEF Mkfs
  <1>2. CASE BootCopy
    BY <1>2 DEF BootCopy, TypeOK, Places
  <1>3. CASE BootClean
    BY <1>3 DEF BootClean, TypeOK, Places
  <1>4. CASE SectionFails
    <2>1. CASE boot.at = "copy"
      <3>1. files["disk"] = {}
        BY <2>1, SectionFacts DEF SectionAt, HomeAt
      <3>. QED  BY <3>1
    <2>2. CASE boot.at # "copy"
      BY <1>4, <2>2, RenameTyped DEF SectionFails, RollBack, Places
    <2>. QED  BY <2>1, <2>2
  <1>5. CASE BootSwap
    BY <1>5, RenameTyped DEF BootSwap, Places
  <1>6. CASE BootMount \/ BootMkdir \/ BootBind \/ BootPersist \/ BootNet \/ Finalize
    BY <1>6 DEF BootMount, BootMkdir, BootBind, BootPersist, BootNet, Finalize, MakeDir
  <1>7. ASSUME NEW s \in Slots, Repair(s)
        PROVE  files["disk"] \subseteq files'["disk"] \/ ("home" \in Roles /\ Mkfs("home"))
    <2>1. CASE Format(s)
      <3>1. script[s].role \in Roles
        BY <2>1, RunningFacts DEF Format, Running, At
      <3>. QED  BY <2>1, <3>1 DEF Format, Mkfs
    <2>2. CASE CopyOne(s)
      <3>1. PICK f : files' = [files EXCEPT ![Backing("home")] = @ \cup {f}]
        BY <2>2 DEF CopyOne
      <3>. QED  BY <3>1, BackingTyped DEF TypeOK, Places
    <2>3. CASE Move(s) \/ ScriptFails(s) \/ Signalled(s)
      BY <2>3, RenameTyped DEF Move, ScriptFails, Signalled, Restore, Places
    <2>4. CASE MountBacking(s) \/ MakeSource(s) \/ CopyEnds(s) \/ Verify(s) \/ MakeTarget(s) \/ Bind(s)
               \/ PersistDisk(s) \/ PersistBind(s) \/ MountAll(s) \/ Killed(s)
      BY <2>4 DEF MountBacking, MakeSource, CopyEnds, Verify, MakeTarget, MakeDir, Bind, PersistDisk,
         PersistBind, MountAll, Killed
    <2>. QED  BY <1>7, <2>1, <2>2, <2>3, <2>4 DEF Repair
  <1>8. CASE Write
    <2>1. PICK f : files' = [files EXCEPT ![Shown] = @ \cup {f}]
      BY <1>8 DEF Write
    <2>. QED  BY <2>1, ShownTyped DEF TypeOK, Places
  <1>9. CASE Reboot
    BY <1>9 DEF Reboot
  <1>10. CASE CommandStep
    BY <1>10, CommandFrame
  <1>. QED  BY <1>1, <1>2, <1>3, <1>4, <1>5, <1>6, <1>7, <1>8, <1>9, <1>10
            DEF Next, VmNext, CloudInit, CommandStep

\* A mkfs of the home leaves no marker.
LEMMA MkfsMarks == ASSUME TypeOK, Mkfs("home") PROVE ~Sealed' /\ copier' = "nobody"
  BY DEF TypeOK, Mkfs, Sealed

LEMMA SealKept ==
    ASSUME IInv, SealOk, Next, marker'["disk"] = marker["disk"] \/ Mkfs("home")
    PROVE  SealOk'
  BY DiskGrows, MkfsMarks DEF SealOk, Sealed, Filled, IInv

LEMMA OldKept ==
    ASSUME IInv, OldOk, Next, "old" \in dirs' => "old" \in dirs, mounted \subseteq mounted'
    PROVE  OldOk'
  BY DiskGrows DEF OldOk, Filled, Mkfs

\* Where a script that is at none of the home's places has gone.
LEMMA AtNeither ==
    ASSUME NEW s, script'[s] = Idle \/ script'[s].at \notin Past \ {"source"} \/ script'[s].role # "home"
    PROVE  ~Copying(s)' /\ ~Beyond(s)'
  BY IdleIsScript DEF Copying, Beyond, Home, Past, HomeAts

LEMMA CopyBoot == ASSUME HomeFiles # {}, IInv, CopyInv, CloudInit, Next PROVE CopyInv'
  <1>. USE DEF IInv, fixed, disks, mounts, homes, Step
  <1>0. ~Ready /\ \A s \in Slots : script'[s] = Idle
    BY BootScripts
  <1>1. MarkOk'
    BY <1>0, AtNeither DEF MarkOk
  <1>2. RepairCopy'
    <2>1. copier # "repair"
      BY <1>0 DEF CopyInv, RepairCopy
    <2>2. copier' \in {copier, "cloud-init", "nobody"}
      BY DEF CloudInit, BootMkfs, BootMount, BootCopy, BootSwap, BootMkdir, BootBind, BootPersist,
         BootClean, SectionFails, BootNet, Finalize, Mkfs
    <2>. QED  BY <2>1, <2>2 DEF RepairCopy
  <1>3. SealOk'
    <2>1. marker'["disk"] = marker["disk"] \/ Mkfs("home")
      BY DEF CloudInit, BootMkfs, BootMount, BootCopy, BootSwap, BootMkdir, BootBind, BootPersist,
         BootClean, SectionFails, BootNet, Finalize, Mkfs
    <2>. QED  BY <2>1, SealKept DEF CopyInv
  <1>4. OldOk'
    <2>0. mounted \subseteq mounted'
      BY DEF CloudInit, BootMkfs, BootMount, BootCopy, BootSwap, BootMkdir, BootBind, BootPersist,
         BootClean, SectionFails, BootNet, Finalize
    <2>1. CASE BootSwap
      <3>1. Section = "home" /\ HomeAt("swap") /\ SectionAt("home", "swap")
        BY <2>1, SectionFacts DEF BootSwap, SectionAt
      <3>2. "home" \in mounted /\ Filled
        BY <3>1 DEF SectionAt, HomeAt, Filled
      <3>3. files'["disk"] = files["disk"]
        BY <2>1, RenameTyped DEF BootSwap, Places
      <3>. QED  BY <2>0, <3>2, <3>3 DEF OldOk, Filled
    <2>2. CASE ~BootSwap
      <3>1. "old" \in dirs' => "old" \in dirs
        BY <2>2 DEF CloudInit, BootMkfs, BootMount, BootCopy, BootMkdir, BootBind, BootPersist,
           BootClean, SectionFails, BootNet, Finalize, Mkfs, MakeDir, RollBack, Rename
      <3>. QED  BY <2>0, <3>1, OldKept DEF CopyInv
    <2>. QED  BY <2>1, <2>2
  <1>. QED  BY <1>1, <1>2, <1>3, <1>4 DEF CopyInv

\* What the marker becomes in a step of a script of a mounted home.
LEMMA MarkerMoves ==
    ASSUME IInv, Reach, NEW s \in Slots, Repair(s), ~Astray'
    PROVE  \/ marker'["disk"] = marker["disk"]
           \/ Mkfs("home")
           \/ /\ MakeSource(s) /\ Home(s) /\ marker'["disk"] = "in-progress"
              /\ files["disk"] = {} \/ marker["disk"] = "in-progress"
           \/ Verify(s) /\ Home(s) /\ marker'["disk"] = "complete" /\ Goto(s, "move")
  <1>. USE DEF IInv, fixed, disks, mounts, homes, booting
  <1>1. CASE Format(s)
    BY <1>1 DEF Format, Mkfs
  <1>2. CASE MakeSource(s)
    <2>1. CASE ~Home(s)
      BY <1>2, <2>1 DEF MakeSource
    <2>2. CASE Home(s)
      <3>1. Backing("home") = "disk"
        BY <1>2, <2>2 DEF MakeSource, Astray, Backing
      <3>. QED  BY <1>2, <2>2, <3>1 DEF MakeSource, TypeOK
    <2>. QED  BY <2>1, <2>2
  <1>3. CASE Verify(s)
    <2>1. Home(s) /\ Backing("home") = "disk"
      <3>1. Home(s)
        BY <1>3 DEF Verify, At, ScriptInv, ScriptOk, HomeAts
      <3>2. "home" \in mounted
        BY <1>3, <3>1 DEF Verify, At, Reach, ScriptThere, Past, HomeAts
      <3>. QED  BY <3>1, <3>2 DEF Backing
    <2>. QED  BY <1>3, <2>1 DEF Verify, TypeOK
  <1>4. CASE ~Format(s) /\ ~MakeSource(s) /\ ~Verify(s)
    BY <1>4 DEF Repair, MountBacking, CopyOne, CopyEnds, Move, MakeTarget, Bind, PersistDisk, PersistBind,
       MountAll, ScriptFails, Signalled, Killed
  <1>. QED  BY <1>1, <1>2, <1>3, <1>4

LEMMA OldRepairs ==
    ASSUME IInv, Reach, OldOk, NEW s \in Slots, Repair(s), Next
    PROVE  OldOk'
  <1>. USE DEF IInv, fixed, disks, mounts, homes, booting
  <1>0. mounted \subseteq mounted'
    BY RepairKeeps
  <1>1. CASE Move(s)
    <2>1. Home(s) /\ "home" \in Roles
      <3>1. Home(s)
        BY <1>1 DEF Move, At, ScriptInv, ScriptOk, HomeAts
      <3>. QED  BY <3>1, RepairRuns, RunningFacts
    <2>2. "home" \in mounted /\ Filled
      BY <1>1, <2>1 DEF Move, At, Reach, ScriptThere, Past, HomeAts
    <2>. QED  BY <1>0, <2>1, <2>2, RepairLeaves DEF OldOk
  <1>2. CASE ~Move(s)
    <2>1. "old" \in dirs' => "old" \in dirs
      <3>1. Backing("home") # "old" /\ Shown # "old"
        BY BackingTyped, ShownTyped
      <3>. QED  BY <1>2, <3>1 DEF Repair, Format, MountBacking, MakeSource, CopyOne, CopyEnds, Verify, MakeTarget,
               Bind, PersistDisk, PersistBind, MountAll, ScriptFails, Signalled, Killed, Mkfs, MakeDir, Rename, Restore
    <2>. QED  BY <1>0, <2>1, OldKept
  <1>. QED  BY <1>1, <1>2

LEMMA SealRepairs ==
    ASSUME IInv, Reach, SealOk, NEW s \in Slots, Repair(s), Next, ~Astray'
    PROVE  SealOk'
  <1>1. CASE marker'["disk"] = marker["disk"] \/ Mkfs("home")
    BY <1>1, SealKept
  <1>2. CASE marker'["disk"] = "in-progress"
    BY <1>2 DEF SealOk, Sealed
  <1>3. CASE Verify(s) /\ Home(s)
    <2>1. Filled
      BY <1>3 DEF Verify, At, Reach, ScriptThere, Past, HomeAts
    <2>2. UNCHANGED files
      BY <1>3 DEF Verify
    <2>. QED  BY <2>1, <2>2 DEF SealOk, Filled
  <1>. QED  BY <1>1, <1>2, <1>3, MarkerMoves

\* Who copies after a step of script s: s came from the source or was copying.
LEMMA CopyingComes ==
    ASSUME IInv, NEW s \in Slots, Repair(s), NEW t \in Slots, Copying(t)'
    PROVE  Copying(t) \/ (t = s /\ MakeSource(s) /\ Home(s) /\ Goto(s, "copy"))
  <1>. USE DEF IInv
  <1>1. t # s => script'[t] = script[t]
    BY RepairMoves
  <1>2. CASE t # s
    BY <1>1, <1>2 DEF Copying, Home
  <1>3. CASE t = s
    <2>0. script \in [Slots -> Script]
      BY DEF TypeOK
    <2>1. ASSUME NEW rc \in {"ok", "failed"}, Exit(s, rc) PROVE FALSE
      <3>1. script'[s] = Idle \/ script'[s].at = rc
        BY <2>0, <2>1, ExitFields
      <3>. QED  BY <1>3, <3>1, AtNeither DEF Past, HomeAts
    <2>2. ASSUME NEW at \in ScriptAts \ {"copy", "verify"}, Goto(s, at) PROVE FALSE
      <3>1. script'[s].at = at
        BY <2>0, <2>2, GotoFields
      <3>. QED  BY <1>3, <3>1 DEF Copying
    <2>3. CASE Format(s) \/ MountBacking(s) \/ MakeTarget(s) \/ Bind(s) \/ PersistDisk(s) \/ PersistBind(s)
      BY <2>2, <2>3 DEF Format, MountBacking, MakeTarget, Bind, PersistDisk, PersistBind, ScriptAts, Past, HomeAts
    <2>4. CASE MountAll(s) \/ ScriptFails(s) \/ Killed(s)
      BY <2>1, <2>4 DEF MountAll, ScriptFails, Killed
    <2>5. CASE MakeSource(s)
      BY <1>3, <2>2, <2>5 DEF MakeSource, ScriptAts, Past, HomeAts
    <2>6. CASE CopyOne(s) \/ CopyEnds(s) \/ Verify(s)
      BY <1>3, <2>6 DEF CopyOne, CopyEnds, Verify, Copying, At, ScriptInv, ScriptOk, HomeAts
    <2>7. CASE Move(s)
      <3>1. script' = [script EXCEPT ![s].at = "mkdir", ![s].moved = TRUE] => script'[s].at = "mkdir"
        BY <2>0, MovedFields
      <3>. QED  BY <1>3, <2>1, <2>2, <2>7, <3>1 DEF Move, Copying, ScriptAts, Past, HomeAts
    <2>8. CASE Signalled(s)
      BY <1>3, <2>8 DEF Signalled, Copying, Home
    <2>. QED  BY <2>3, <2>4, <2>5, <2>6, <2>7, <2>8 DEF Repair
  <1>. QED  BY <1>2, <1>3

\* Who is beyond the copy after a step of script s.
LEMMA BeyondComes ==
    ASSUME IInv, NEW s \in Slots, Repair(s), NEW t \in Slots, Beyond(t)'
    PROVE  \/ Beyond(t)
           \/ t = s /\ MakeSource(s) /\ Home(s) /\ Goto(s, "move")
           \/ t = s /\ Verify(s) /\ Home(s) /\ Goto(s, "move")
  <1>. USE DEF IInv
  <1>1. t # s => script'[t] = script[t]
    BY RepairMoves
  <1>2. CASE t # s
    BY <1>1, <1>2 DEF Beyond, Home
  <1>3. CASE t = s
    <2>0. script \in [Slots -> Script]
      BY DEF TypeOK
    <2>1. ASSUME NEW rc \in {"ok", "failed"}, Exit(s, rc) PROVE FALSE
      <3>1. script'[s] = Idle \/ script'[s].at = rc
        BY <2>0, <2>1, ExitFields
      <3>. QED  BY <1>3, <3>1, AtNeither DEF Past, HomeAts
    <2>2. ASSUME NEW at \in {"mount", "source", "copy", "verify"}, Goto(s, at) PROVE FALSE
      <3>1. script'[s].at = at
        BY <2>0, <2>2, GotoFields DEF ScriptAts, Past, HomeAts
      <3>. QED  BY <1>3, <3>1 DEF Beyond, Past, HomeAts
    <2>a. ASSUME NEW at \in ScriptAts, Goto(s, at) PROVE Home(s)
      <3>1. script'[s].role = script[s].role
        BY <2>0, <2>a, GotoFields
      <3>. QED  BY <1>3, <3>1 DEF Beyond, Home
    <2>3. CASE Format(s) \/ MountBacking(s) \/ CopyEnds(s)
      BY <2>2, <2>3 DEF Format, MountBacking, CopyEnds
    <2>4. CASE MountAll(s) \/ ScriptFails(s) \/ Killed(s)
      BY <2>1, <2>4 DEF MountAll, ScriptFails, Killed
    <2>5. CASE MakeSource(s)
      <3>1. Home(s)
        BY <2>5, <2>a DEF MakeSource, ScriptAts, Past, HomeAts
      <3>. QED  BY <1>3, <2>2, <2>5, <3>1 DEF MakeSource
    <2>6. CASE CopyOne(s)
      BY <1>3, <2>6 DEF CopyOne, Beyond, Home
    <2>7. CASE Verify(s)
      BY <1>3, <2>1, <2>7, <2>a DEF Verify, ScriptAts, Past, HomeAts
    <2>8. CASE MakeTarget(s) \/ Bind(s) \/ PersistDisk(s) \/ PersistBind(s)
      <3>1. Home(s)
        BY <2>8, <2>a DEF MakeTarget, Bind, PersistDisk, PersistBind, ScriptAts, Past, HomeAts
      <3>. QED  BY <1>3, <2>8, <3>1 DEF MakeTarget, Bind, PersistDisk, PersistBind, Beyond, At, Past, HomeAts
    <2>9. CASE Move(s)
      BY <1>3, <2>9 DEF Move, Beyond, At, Past, HomeAts, ScriptInv, ScriptOk
    <2>10. CASE Signalled(s)
      BY <1>3, <2>10 DEF Signalled, Beyond, Home
    <2>. QED  BY <2>3, <2>4, <2>5, <2>6, <2>7, <2>8, <2>9, <2>10 DEF Repair
  <1>. QED  BY <1>2, <1>3

\* A script is at one place after its step.
LEMMA GoesOnce ==
    ASSUME TypeOK, NEW s \in Slots
    PROVE  ~(Goto(s, "copy") /\ Goto(s, "move")) /\ ~(Goto(s, "move") /\ Exit(s, "failed"))
  <1>1. Goto(s, "copy") => script'[s].at = "copy"
    BY GotoFields DEF TypeOK, ScriptAts, Past, HomeAts
  <1>2. Goto(s, "move") => script'[s].at = "move"
    BY GotoFields DEF TypeOK, ScriptAts, Past, HomeAts
  <1>3. Exit(s, "failed") => script'[s] = Idle \/ script'[s].at = "failed"
    BY ExitFields DEF TypeOK
  <1>. QED  BY <1>1, <1>2, <1>3, IdleIsScript

LEMMA MarkRepairs ==
    ASSUME IInv, Reach, MarkOk, NEW s \in Slots, Repair(s), ~Astray'
    PROVE  MarkOk'
  <1>. USE DEF IInv
  <1>. SUFFICES ASSUME NEW t \in Slots, Copying(t)' PROVE marker'["disk"] # "none"
    BY DEF MarkOk
  <1>1. CASE Copying(t)
    <2>1. marker["disk"] # "none" /\ "home" \in mounted
      BY <1>1 DEF MarkOk, Reach, ScriptThere, Copying, Past, HomeAts
    <2>2. ~Mkfs("home")
      BY <2>1 DEF Mkfs
    <2>. QED  BY <2>1, <2>2, MarkerMoves
  <1>2. CASE MakeSource(s) /\ Home(s) /\ Goto(s, "copy")
    <2>1. Backing("home") = "disk"
      BY <1>2 DEF MakeSource, Astray, Backing, mounts
    <2>2. ~Goto(s, "move")
      BY <1>2, GoesOnce
    <2>. QED  BY <1>2, <2>1, <2>2 DEF MakeSource, TypeOK
  <1>. QED  BY <1>1, <1>2, CopyingComes

\* Two homes of as many files, one of which holds the other, are the same.
LEMMA CountAgrees ==
    ASSUME TypeOK, files["disk"] \subseteq files["os"], Cardinality(files["disk"]) = Cardinality(files["os"])
    PROVE  files["disk"] = files["os"]
  <1>1. IsFiniteSet(AllFiles)
    BY ConstantsAssumption, FS_Union DEF AllFiles
  <1>2. files["os"] \subseteq AllFiles
    BY DEF TypeOK, Places
  <1>3. IsFiniteSet(files["os"])
    BY <1>1, <1>2, FS_Subset
  <1>. QED  BY <1>3, FS_Subset

\* What a step of a repair script does to the home's two places together.
LEMMA OriginalsKept ==
    ASSUME IInv, NEW s \in Slots, Repair(s)
    PROVE  files'["os"] \cup files'["old"] = files["os"] \cup files["old"]
  <1>. USE DEF IInv
  <1>1. CASE Format(s)
    BY <1>1 DEF Format, Mkfs, TypeOK, Places
  <1>2. CASE CopyOne(s)
    <2>1. PICK f : files' = [files EXCEPT ![Backing("home")] = @ \cup {f}]
      BY <1>2 DEF CopyOne
    <2>. QED  BY <2>1, BackingTyped DEF TypeOK, Places
  <1>3. CASE Move(s)
    <2>1. CASE UNCHANGED files
      BY <2>1
    <2>2. CASE Rename("os", "old") /\ "old" \notin dirs
      <3>1. files["old"] = {}
        BY <2>2 DEF DataInv, Places
      <3>2. files'["old"] = files["os"] /\ files'["os"] = {}
        BY <2>2, RenameTyped DEF Places
      <3>. QED  BY <3>1, <3>2
    <2>. QED  BY <1>3, <2>1, <2>2 DEF Move
  <1>4. CASE ScriptFails(s) \/ Signalled(s)
    <2>1. CASE UNCHANGED files
      BY <2>1
    <2>2. CASE Rename("old", "os") /\ files["os"] = {}
      <3>1. files'["os"] = files["old"] /\ files'["old"] = {}
        BY <2>2, RenameTyped DEF Places
      <3>. QED  BY <2>2, <3>1
    <2>. QED  BY <1>4, <2>1, <2>2 DEF ScriptFails, Signalled, Restore
  <1>5. CASE MountBacking(s) \/ MakeSource(s) \/ CopyEnds(s) \/ Verify(s) \/ MakeTarget(s) \/ Bind(s)
               \/ PersistDisk(s) \/ PersistBind(s) \/ MountAll(s) \/ Killed(s)
    BY <1>5 DEF MountBacking, MakeSource, CopyEnds, Verify, MakeTarget, MakeDir, Bind, PersistDisk,
       PersistBind, MountAll, Killed, homes
  <1>. QED  BY <1>1, <1>2, <1>3, <1>4, <1>5 DEF Repair

\* Once a copy is sealed it stays whole, as long as nothing verifies again.
LEMMA WholeStays ==
    ASSUME Whole, files["disk"] \subseteq files'["disk"], UNCHANGED late,
           files'["os"] \cup files'["old"] \subseteq files["os"] \cup files["old"]
    PROVE  Whole'
  BY DEF Whole

\* The copy's first file: there is nothing yet that could cover it.
LEMMA FirstFile ==
    ASSUME IInv, Reach, CopyInv, NEW s \in Slots, Repair(s), CopyOne(s), files["disk"] = {}, copier' = "repair"
    PROVE  RepairCopy'
  <1>. USE DEF IInv, fixed, disks, mounts, homes, booting
  <1>1. Home(s) /\ Ready /\ "home" \in Roles
    <2>1. Home(s)
      BY DEF CopyOne, At, ScriptInv, ScriptOk, HomeAts
    <2>. QED  BY <2>1, RepairRuns, RunningReady, RunningFacts
  <1>2. Backing("home") = "disk"
    BY <1>1 DEF CopyOne, At, Reach, ScriptThere, Past, HomeAts, Backing
  <1>3. PICK f \in files[Shown] : files' = [files EXCEPT !["disk"] = @ \cup {f}]
    BY <1>2 DEF CopyOne
  <1>4. files'["disk"] = {f} /\ files'["os"] = files["os"] /\ files'["old"] = files["old"]
    BY <1>3 DEF TypeOK, Places
  <1>5. UNCHANGED <<fs, mounted, bound, fstab, dirs, marker, boot, script>>
    BY DEF CopyOne
  <1>6. ~Filled
    BY DEF Filled
  <1>7. bound["home"] = "no" /\ ~Listed /\ "old" \notin dirs /\ ~Sealed
    BY <1>1, <1>6 DEF Reach, DiskThere, CopyInv, OldOk, SealOk
  <1>8. \A t \in Slots : ~Beyond(t)
    BY <1>6 DEF Beyond, Reach, ScriptThere, At
  <1>9. marker["disk"] # "none"
    BY <1>1 DEF CopyInv, MarkOk, Copying, CopyOne, At
  <1>10. ~Covered' /\ ~Sealed'
    BY <1>5, <1>7, <1>8 DEF Covered, Listed, Beyond, Home, Sealed
  <1>11. Tight'
    <2>1. Shown = "os"
      BY <1>7 DEF Shown, HomeBind
    <2>. QED  BY <1>3, <1>4, <2>1 DEF Tight
  <1>. QED  BY <1>1, <1>4, <1>5, <1>9, <1>10, <1>11 DEF RepairCopy, Ready, Filled

\* The copy and its original, in a step of a script that goes on with it.
LEMMA TightRepairs ==
    ASSUME IInv, Reach, CopyInv, NEW s \in Slots, Repair(s), ~Astray', ~Mkfs("home"),
           copier = "repair"
    PROVE  Tight'
  <1>. USE DEF IInv, fixed, disks, mounts, homes, booting
  <1>0. "home" \in Roles /\ Filled /\ marker["disk"] # "none" /\ Tight
    BY DEF CopyInv, RepairCopy
  <1>. SUFFICES ASSUME bound'["home"] = "no", ~Sealed' \/ \E t \in Slots : Copying(t)'
                PROVE  files'["disk"] \subseteq files'["os"] \cup files'["old"]
    BY DEF Tight
  <1>1. bound["home"] = "no"
    BY <1>0, ShownStays
  <1>2. ~Sealed \/ \E t \in Slots : Copying(t)
    <2>1. CASE ~Sealed'
      <3>. SUFFICES ASSUME Sealed PROVE FALSE
        OBVIOUS
      <3>1. marker["disk"] = "complete" /\ files["disk"] # {} /\ marker'["disk"] # "complete"
        BY <1>0, <2>1 DEF Sealed, Filled
      <3>. QED  BY <3>1, MarkerMoves
    <2>2. ASSUME NEW t \in Slots, Copying(t)' PROVE ~Sealed \/ \E u \in Slots : Copying(u)
      <3>1. CASE Copying(t)
        BY <3>1
      <3>2. CASE MakeSource(s) /\ Home(s) /\ Goto(s, "copy")
        <4>1. Backing("home") = "disk"
          BY <3>2 DEF MakeSource, Astray, Backing
        <4>2. ~Goto(s, "move")
          BY <3>2, GoesOnce
        <4>3. marker["disk"] = "in-progress"
          BY <1>0, <3>2, <4>1, <4>2 DEF MakeSource, Filled
        <4>. QED  BY <4>3 DEF Sealed
      <3>. QED  BY <2>2, <3>1, <3>2, CopyingComes
    <2>. QED  BY <2>1, <2>2
  <1>3. files["disk"] \subseteq files["os"] \cup files["old"]
    BY <1>0, <1>1, <1>2 DEF Tight
  <1>4. CASE CopyOne(s)
    <2>1. PICK f \in files[Shown] : files' = [files EXCEPT ![Backing("home")] = @ \cup {f}]
      BY <1>4 DEF CopyOne
    <2>2. Shown = "os"
      BY <1>1 DEF Shown, HomeBind
    <2>3. files'["disk"] \subseteq files["disk"] \cup files["os"]
      BY <2>1, <2>2, BackingTyped DEF TypeOK, Places
    <2>. QED  BY <1>3, <2>3, OriginalsKept
  <1>5. CASE ~CopyOne(s)
    <2>1. files'["disk"] = files["disk"]
      <3>1. CASE Format(s)
        <4>1. script[s].role \in Roles
          BY <3>1, RunningFacts DEF Format, Running, At
        <4>. QED  BY <3>1, <4>1 DEF Format, Mkfs
      <3>2. CASE Move(s) \/ ScriptFails(s) \/ Signalled(s)
        BY <3>2, RenameTyped DEF Move, ScriptFails, Signalled, Restore, Places
      <3>3. CASE MountBacking(s) \/ MakeSource(s) \/ CopyEnds(s) \/ Verify(s) \/ MakeTarget(s) \/ Bind(s)
                   \/ PersistDisk(s) \/ PersistBind(s) \/ MountAll(s) \/ Killed(s)
        BY <3>3 DEF MountBacking, MakeSource, CopyEnds, Verify, MakeTarget, MakeDir, Bind, PersistDisk,
           PersistBind, MountAll, Killed
      <3>. QED  BY <1>5, <3>1, <3>2, <3>3 DEF Repair
    <2>. QED  BY <1>3, <2>1, OriginalsKept
  <1>. QED  BY <1>4, <1>5

\* What covers the copy was there before the step, or verified the copy, or
\* found it sealed.
LEMMA CoveredComes ==
    ASSUME IInv, Reach, CopyInv, NEW s \in Slots, Repair(s), ~Astray', ~Mkfs("home"),
           copier = "repair", Covered'
    PROVE  Sealed \/ (Verify(s) /\ Home(s) /\ Goto(s, "move"))
  <1>. USE DEF IInv, fixed, disks, mounts, homes, booting
  <1>. SUFFICES ASSUME ~Sealed, ~(Verify(s) /\ Home(s) /\ Goto(s, "move")) PROVE FALSE
    OBVIOUS
  <1>0. /\ "home" \in Roles /\ Filled /\ marker["disk"] # "none"
        /\ bound["home"] = "no" /\ ~Listed /\ "old" \notin dirs /\ \A t \in Slots : ~Beyond(t)
    BY DEF CopyInv, RepairCopy, Covered
  <1>1. ASSUME Home(s) PROVE script[s].at \notin Past \ {"source", "copy", "verify"}
    BY <1>0, <1>1 DEF Beyond
  <1>2. "old" \notin dirs'
    <2>1. ~Move(s)
      BY <1>1 DEF Move, At, ScriptInv, ScriptOk, Past, HomeAts
    <2>2. Backing("home") # "old" /\ Shown # "old"
      BY BackingTyped, ShownTyped
    <2>. QED  BY <1>0, <2>1, <2>2 DEF Repair, Format, MountBacking, MakeSource, CopyOne, CopyEnds, Verify,
              MakeTarget, Bind, PersistDisk, PersistBind, MountAll, ScriptFails, Signalled, Killed, Mkfs, MakeDir,
              Rename, Restore
  <1>3. fs'["home"] = fs["home"]
    <2>1. CASE Format(s)
      <3>1. script[s].role \in Roles
        BY <2>1, RunningFacts DEF Format, Running, At
      <3>. QED  BY <1>0, <2>1, <3>1, MkfsTyped DEF Format
    <2>2. CASE ~Format(s)
      BY <2>2 DEF Repair, MountBacking, MakeSource, CopyOne, CopyEnds, Verify, Move,
         MakeTarget, Bind, PersistDisk, PersistBind, MountAll, ScriptFails, Signalled, Killed
    <2>. QED  BY <2>1, <2>2
  <1>4. fstab'["home"].uuids = fstab["home"].uuids
    <2>1. CASE PersistDisk(s)
      <3>1. ~Home(s)
        BY <1>1, <2>1 DEF PersistDisk, At, Past, HomeAts
      <3>. QED  BY <1>0, <2>1, <3>1 DEF PersistDisk, Home, TypeOK
    <2>2. CASE PersistBind(s)
      BY <1>0, <2>2 DEF PersistBind, TypeOK
    <2>3. CASE ~PersistDisk(s) /\ ~PersistBind(s)
      BY <2>3 DEF Repair, Format, MountBacking, MakeSource, CopyOne, CopyEnds, Verify, Move,
         MakeTarget, Bind, MountAll, ScriptFails, Signalled, Killed
    <2>. QED  BY <2>1, <2>2, <2>3
  <1>5. bound'["home"] = "no"
    <2>1. CASE Bind(s)
      <3>1. ~Home(s)
        BY <1>1, <2>1 DEF Bind, At, Past, HomeAts
      <3>. QED  BY <1>0, <2>1, <3>1 DEF Bind, Home, TypeOK
    <2>2. CASE MountAll(s)
      <3>1. ~fstab["home"].bind
        BY <1>0 DEF Reach, DiskThere
      <3>. QED  BY <1>0, <2>2, <3>1 DEF MountAll, BindsBy
    <2>3. CASE ~Bind(s) /\ ~MountAll(s)
      BY <1>0, <2>3 DEF Repair, Format, MountBacking, MakeSource, CopyOne, CopyEnds, Verify, Move,
         MakeTarget, PersistDisk, PersistBind, ScriptFails, Signalled, Killed
    <2>. QED  BY <2>1, <2>2, <2>3
  <1>6. ASSUME NEW t \in Slots, Beyond(t)' PROVE FALSE
    <2>1. CASE MakeSource(s) /\ Home(s) /\ Goto(s, "move")
      <3>1. Backing("home") = "disk"
        BY <2>1 DEF MakeSource, Astray, Backing
      <3>2. ~Goto(s, "copy")
        BY <2>1, GoesOnce
      <3>3. marker["disk"] # "in-progress"
        BY <2>1, <3>1, <3>2 DEF MakeSource
      <3>. QED  BY <1>0, <3>3 DEF Sealed, TypeOK
    <2>. QED  BY <1>0, <1>6, <2>1, BeyondComes
  <1>. QED  BY <1>0, <1>2, <1>3, <1>4, <1>5, <1>6 DEF Covered, Listed

\* A verified copy is whole: it holds nothing its original lacks and counts as
\* many, or had been verified before.
LEMMA VerifiedIsWhole ==
    ASSUME IInv, Reach, CopyInv, NEW s \in Slots, Repair(s), Verify(s), Home(s), Goto(s, "move"), copier = "repair"
    PROVE  Whole'
  <1>. USE DEF IInv, fixed, disks, mounts, homes, booting
  <1>0. "home" \in Roles /\ Tight /\ (Covered => Whole)
    BY DEF CopyInv, RepairCopy
  <1>1. Backing("home") = "disk"
    BY DEF Verify, At, Reach, ScriptThere, Past, HomeAts, Backing
  <1>2. Copying(s)
    BY DEF Verify, At, Copying
  <1>3. /\ UNCHANGED <<files, dirs>>
        /\ Cardinality(Content("disk")) = Cardinality(Content(Shown))
        /\ late' = IF Shown = "os" /\ "old" \notin dirs THEN {} ELSE late
    <2>1. ~Exit(s, "failed")
      BY GoesOnce
    <2>. QED  BY <1>1, <2>1 DEF Verify
  <1>4. CASE Shown = "os" /\ "old" \notin dirs
    <2>1. bound["home"] = "no"
      BY <1>0, <1>4, ShownTyped DEF Shown, HomeBind
    <2>2. files["old"] = {}
      BY <1>4 DEF DataInv, Places
    <2>3. files["disk"] \subseteq files["os"]
      BY <1>0, <1>2, <2>1, <2>2 DEF Tight
    <2>4. Content("disk") = files["disk"] /\ Content(Shown) = files["os"]
      BY <1>4 DEF Content, DataInv, Places
    <2>5. files["disk"] = files["os"]
      BY <1>3, <2>3, <2>4, CountAgrees
    <2>. QED  BY <1>3, <2>2, <2>5 DEF Whole
  <1>5. CASE "old" \in dirs \/ Shown # "os"
    <2>1. Covered
      BY <1>0, <1>5 DEF Covered, Shown, HomeBind
    <2>. QED  BY <1>0, <1>3, <1>5, <2>1 DEF Whole
  <1>. QED  BY <1>4, <1>5

LEMMA RepairCopyRepairs ==
    ASSUME IInv, Reach, CopyInv, NEW s \in Slots, Repair(s), Next, ~Astray'
    PROVE  RepairCopy'
  <1>. USE DEF IInv, fixed, disks, mounts, homes, booting
  <1>. SUFFICES ASSUME copier' = "repair" PROVE RepairCopy'
    BY DEF RepairCopy
  <1>0. ~Mkfs("home")
    BY MkfsMarks
  <1>1. CASE copier # "repair"
    <2>1. CopyOne(s) /\ files[Backing("home")] = {}
      BY <1>1 DEF Repair, Format, Mkfs, MountBacking, MakeSource, CopyOne, CopyEnds, Verify, Move, MakeTarget, Bind,
         PersistDisk, PersistBind, MountAll, ScriptFails, Signalled, Killed
    <2>2. Backing("home") = "disk"
      <3>1. Home(s)
        BY <2>1 DEF CopyOne, At, ScriptInv, ScriptOk, HomeAts
      <3>. QED  BY <2>1, <3>1 DEF CopyOne, At, Reach, ScriptThere, Past, HomeAts, Backing
    <2>. QED  BY <2>1, <2>2, FirstFile
  <1>2. CASE copier = "repair"
    <2>1. "home" \in Roles /\ Ready /\ Filled /\ marker["disk"] # "none" /\ (Sealed => Whole) /\ (Covered => Sealed)
      BY <1>2 DEF CopyInv, RepairCopy
    <2>2. files["disk"] \subseteq files'["disk"]
      BY <1>0, DiskGrows
    <2>3. Ready' /\ Filled'
      <3>1. UNCHANGED boot
        BY DEF Repair, Format, MountBacking, MakeSource, CopyOne, CopyEnds, Verify, Move, MakeTarget, Bind,
           PersistDisk, PersistBind, MountAll, ScriptFails, Signalled, Killed
      <3>. QED  BY <2>1, <2>2, <3>1 DEF Ready, Filled
    <2>4. marker'["disk"] # "none"
      BY <1>0, <2>1, MarkerMoves
    <2>5. Sealed => Sealed'
      BY <1>0, <2>1, MarkerMoves DEF Sealed, Filled
    <2>6. CASE Verify(s) /\ Home(s) /\ Goto(s, "move")
      <3>1. Sealed'
        <4>1. Backing("home") = "disk"
          BY <2>6 DEF Verify, At, Reach, ScriptThere, Past, HomeAts, Backing
        <4>2. ~Exit(s, "failed")
          BY <2>6, GoesOnce
        <4>. QED  BY <2>6, <4>1, <4>2 DEF Verify, Sealed, TypeOK
      <3>2. Whole'
        BY <1>2, <2>6, VerifiedIsWhole
      <3>. QED  BY <1>0, <1>2, <2>1, <2>3, <2>4, <3>1, <3>2, TightRepairs DEF RepairCopy
    <2>7. CASE ~(Verify(s) /\ Home(s) /\ Goto(s, "move"))
      <3>1. Covered' => Sealed'
        BY <1>0, <1>2, <2>5, <2>7, CoveredComes
      <3>2. Sealed' => Sealed
        BY <1>0, <2>7, MarkerMoves DEF Sealed
      <3>3. UNCHANGED late
        <4>1. CASE Verify(s)
          <5>1. Home(s)
            BY <4>1 DEF Verify, At, ScriptInv, ScriptOk, HomeAts
          <5>. QED  BY <2>7, <4>1, <5>1 DEF Verify
        <4>2. CASE ~Verify(s)
          BY <4>2 DEF Repair, Format, MountBacking, MakeSource, CopyOne, CopyEnds, Move, MakeTarget, Bind,
             PersistDisk, PersistBind, MountAll, ScriptFails, Signalled, Killed
        <4>. QED  BY <4>1, <4>2
      <3>4. Sealed' => Whole'
        BY <2>1, <2>2, <3>2, <3>3, WholeStays, OriginalsKept
      <3>. QED  BY <1>0, <1>2, <2>1, <2>3, <2>4, <3>1, <3>4, TightRepairs DEF RepairCopy
    <2>. QED  BY <2>6, <2>7
  <1>. QED  BY <1>1, <1>2

LEMMA CopyWrite == ASSUME IInv, Reach, CopyInv, Write, Next PROVE CopyInv'
  <1>. USE DEF IInv
  <1>0. UNCHANGED <<fs, mounted, bound, fstab, dirs, marker, copier, boot, script>>
    BY DEF Write, disks, mounts, booting
  <1>1. PICK f : files' = [files EXCEPT ![Shown] = @ \cup {f}] /\ late' = (IF Shown = "os" THEN late \cup {f} ELSE late)
    BY DEF Write
  <1>2. \A p \in Places : files[p] \subseteq files'[p] /\ files'[p] \subseteq files[p] \cup {f} /\ (p # Shown => files'[p] = files[p])
    BY <1>1, ShownTyped DEF TypeOK
  <1>3. OldOk' /\ SealOk'
    BY <1>0, SealKept, OldKept DEF CopyInv
  <1>4. MarkOk'
    BY <1>0 DEF CopyInv, MarkOk, Copying, Home
  <1>5. RepairCopy'
    <2>. SUFFICES ASSUME copier = "repair" PROVE RepairCopy'
      BY <1>0 DEF RepairCopy
    <2>1. "home" \in Roles /\ Ready /\ Filled /\ marker["disk"] # "none" /\ (Covered => Sealed) /\ (Sealed => Whole) /\ Tight
      BY DEF CopyInv, RepairCopy
    <2>2. Shown \in {"os", "disk"} /\ (Shown # "os" => bound["home"] # "no")
      BY <2>1 DEF Shown, HomeBind, Reach, DiskThere
    <2>3. Whole => Whole'
      BY <1>1, <1>2, <2>2 DEF Whole, Places
    <2>4. Tight'
      <3>1. bound["home"] = "no" => Shown = "os"
        BY <2>2, ShownTyped DEF Shown, HomeBind
      <3>2. bound["home"] = "no" => files'["disk"] = files["disk"]
        BY <1>2, <3>1 DEF Places
      <3>. QED  BY <1>0, <1>2, <2>1, <3>2 DEF Tight, Sealed, Copying, Home, Places
    <2>5. (Covered' => Covered) /\ (Sealed' <=> Sealed)
      BY <1>0 DEF Covered, Sealed, Listed, Beyond, Home
    <2>6. Filled' /\ Ready'
      BY <1>0, <1>2, <2>1 DEF Filled, Ready, Places
    <2>. QED  BY <1>0, <2>1, <2>3, <2>4, <2>5, <2>6 DEF RepairCopy
  <1>. QED  BY <1>3, <1>4, <1>5 DEF CopyInv

LEMMA CopyReboot == ASSUME IInv, Reach, CopyInv, Reboot, Next, Sane' PROVE CopyInv'
  <1>. USE DEF IInv
  <1>1. /\ mounted' = {q \in device : fs[q] \in fstab[q].uuids} /\ UNCHANGED <<fs, fstab, files, dirs, marker, late, copier>>
        /\ bound' = [q \in Roles |-> IF fstab[q].bind /\ q \in mounted' /\ (q = "home" => "disk" \in dirs)
                                       THEN "disk" ELSE "no"]
    BY DEF Reboot, ByFstab, disks, homes
  <1>2. \A s \in Slots : ~Copying(s)' /\ ~Beyond(s)'
    <2>. SUFFICES ASSUME NEW s \in Slots PROVE ~Copying(s)' /\ ~Beyond(s)'
      OBVIOUS
    <2>1. script[s].heard => script'[s] =
              [at |-> "failed", role |-> script[s].role, reform |-> script[s].reform,
               stage |-> script[s].stage, moved |-> script[s].moved, heard |-> TRUE]
      BY RebootScripts DEF TypeOK
    <2>2. ~script[s].heard => script'[s] = Idle
      BY RebootScripts DEF TypeOK
    <2>3. "failed" \notin Past
      BY DEF Past, HomeAts
    <2>. QED  BY <2>1, <2>2, <2>3, AtNeither
  <1>3. SealOk' /\ MarkOk'
    BY <1>1, <1>2 DEF CopyInv, SealOk, MarkOk, Sealed, Filled
  <1>4. OldOk'
    <2>. SUFFICES ASSUME "old" \in dirs PROVE "home" \in mounted' /\ Filled'
      BY <1>1 DEF OldOk
    <2>1. "home" \in mounted /\ Filled /\ "home" \in Roles
      BY DEF CopyInv, OldOk, TypeOK
    <2>2. Persisted("home")
      BY <2>1 DEF Reboot, Sane
    <2>3. "home" \in device
      BY <2>1 DEF DiskInv
    <2>. QED  BY <1>1, <2>1, <2>2, <2>3 DEF Persisted, Filled
  <1>5. RepairCopy'
    <2>. SUFFICES ASSUME copier = "repair" PROVE RepairCopy'
      BY <1>1 DEF RepairCopy
    <2>1. "home" \in Roles /\ Ready /\ Filled /\ marker["disk"] # "none" /\ (Covered => Sealed) /\ (Sealed => Whole) /\ Tight
      BY DEF CopyInv, RepairCopy
    <2>2. Covered' => Covered
      <3>1. bound'["home"] # "no" => Listed
        BY <1>1, <2>1 DEF Reach, DiskThere
      <3>. QED  BY <1>1, <1>2, <3>1 DEF Covered, Listed
    <2>3. Tight'
      <3>1. ~Sealed => bound["home"] = "no"
        BY <2>1 DEF Covered
      <3>. QED  BY <1>1, <1>2, <2>1, <3>1 DEF Tight, Sealed
    <2>4. Ready'
      BY DEF Reboot, Ready, TypeOK
    <2>. QED  BY <1>1, <2>1, <2>2, <2>3, <2>4 DEF RepairCopy, Sealed, Whole, Filled
  <1>. QED  BY <1>3, <1>4, <1>5 DEF CopyInv

\* azlin itself starts and collects scripts, none of which is past its start.
LEMMA CommandScripts ==
    ASSUME TypeOK, CommandStep, NEW s \in Slots
    PROVE  (Copying(s)' => Copying(s)) /\ (Beyond(s)' => Beyond(s))
  <1>1. CASE script'[s] = script[s]
    BY <1>1 DEF Copying, Beyond, Home
  <1>2. ASSUME NEW t \in Slots, Collect(t) PROVE script'[s] = script[s] \/ script'[s] = Idle
    BY <1>2 DEF Collect, TypeOK
  <1>3. ASSUME NEW t \in Slots, Drop(t)
        PROVE  script'[s].at = script[s].at /\ script'[s].role = script[s].role
    <2>1. CASE s # t
      BY <1>3, <2>1, DropFacts DEF Drop, TypeOK
    <2>2. CASE s = t
      <3>1. script'[s] = [at |-> script[s].at, role |-> script[s].role, reform |-> script[s].reform,
                          stage |-> script[s].stage, moved |-> script[s].moved, heard |-> FALSE]
        BY <1>3, <2>2, DropFacts DEF Drop, TypeOK
      <3>. QED  BY <3>1
    <2>. QED  BY <2>1, <2>2
  <1>4. CASE Launch
    <2>1. PICK t \in Slots : script' = [script EXCEPT ![t] =
              [at |-> "format", role |-> Next1, stage |-> cmd.stages[Next1], moved |-> FALSE, heard |-> TRUE,
               reform |-> Reformats(Next1, cmd.stages[Next1], cmd.force)]]
      BY <1>4 DEF Launch
    <2>2. s # t => script'[s] = script[s]
      BY <2>1 DEF TypeOK
    <2>3. s = t => script'[s].at = "format"
      BY <2>1 DEF TypeOK
    <2>. QED  BY <1>1, <2>2, <2>3, AtNeither DEF Past, HomeAts
  <1>. QED  BY <1>1, <1>2, <1>3, <1>4, AtNeither
            DEF CommandStep, ProbeAndPlan, ProbeFails, Confirm, Reprobe, vmVars, Copying, Beyond, Home

LEMMA CopyCommands == ASSUME TypeOK, CopyInv, CommandStep PROVE CopyInv'
  <1>1. UNCHANGED <<fs, mounted, bound, fstab, dirs, files, marker, late, copier, boot>>
    BY CommandFrame DEF mounts, homes, booting
  <1>2. (\E s \in Slots : Beyond(s)') => (\E s \in Slots : Beyond(s))
    BY CommandScripts
  <1>3. (\E s \in Slots : Copying(s)') => (\E s \in Slots : Copying(s))
    BY CommandScripts
  <1>4. OldOk' /\ SealOk' /\ MarkOk'
    BY <1>1, CommandScripts DEF CopyInv, OldOk, SealOk, MarkOk, Sealed, Filled
  <1>5. (Covered' => Covered) /\ (Sealed' <=> Sealed) /\ (Whole <=> Whole') /\ (Tight => Tight') /\ (Filled <=> Filled')
    BY <1>1, <1>2, <1>3 DEF Covered, Listed, Sealed, Whole, Tight, Filled
  <1>6. RepairCopy'
    BY <1>1, <1>5 DEF CopyInv, RepairCopy, Ready
  <1>. QED  BY <1>4, <1>6 DEF CopyInv

WholeInv == Sane => CopyInv

LEMMA WholeInit == Init => WholeInv
  <1>. SUFFICES ASSUME Init PROVE WholeInv
    OBVIOUS
  <1>1. dirs = {"os"} /\ marker["disk"] = "none" /\ copier = "nobody" /\ \A s \in Slots : script[s] = Idle
    BY DEF Init, VmInit
  <1>. QED  BY <1>1, IdleIsScript DEF WholeInv, CopyInv, OldOk, SealOk, MarkOk, RepairCopy, Sealed, Copying

LEMMA WholeStep == ASSUME IInv, ReachInv, WholeInv, Next PROVE WholeInv'
  <1>. SUFFICES ASSUME Sane' PROVE CopyInv'
    BY DEF WholeInv
  <1>1. Sane /\ Reach /\ CopyInv /\ TypeOK /\ ~Astray'
    BY SaneBefore DEF IInv, ReachInv, WholeInv, Sane
  <1>2. CASE CloudInit
    BY <1>1, <1>2, ConstantsAssumption, CopyBoot
  <1>3. ASSUME NEW s \in Slots, Repair(s) PROVE CopyInv'
    <2>1. OldOk' /\ SealOk' /\ MarkOk' /\ RepairCopy'
      BY <1>1, <1>3, OldRepairs, SealRepairs, MarkRepairs, RepairCopyRepairs DEF CopyInv
    <2>. QED  BY <2>1 DEF CopyInv
  <1>4. CASE Write
    BY <1>1, <1>4, CopyWrite
  <1>5. CASE Reboot
    BY <1>1, <1>5, CopyReboot
  <1>6. CASE CommandStep
    BY <1>1, <1>6, CopyCommands
  <1>. QED  BY <1>2, <1>3, <1>4, <1>5, <1>6 DEF Next, VmNext, CommandStep

LEMMA WholeStutter == ASSUME WholeInv, UNCHANGED vars PROVE WholeInv'
  <1>. USE DEF vars, vmVars, fixed, disks, mounts, homes, booting
  <1>1. Sane' => Sane
    BY DEF Sane, Astray
  <1>2. CopyInv => CopyInv'
    BY DEF CopyInv, OldOk, SealOk, MarkOk, RepairCopy, Sealed, Filled, Whole, Tight, Covered, Listed, Copying, Beyond,
       Home, Ready
  <1>. QED  BY <1>1, <1>2 DEF WholeInv

-----------------------------------------------------------------------------
(* The theorems. *)

\* Every variable keeps its type, whatever is interrupted (disk_layout.rs:97).
THEOREM TypeCorrect == Spec => []TypeOK
  <1>1. IInv => TypeOK
    BY DEF IInv
  <1>. QED  BY <1>1, Invariance, PTL

\* Nothing that was in the home, or on a disk before azlin saw it, is ever
\* lost, but by a reformat that was confirmed (disk_layout.rs:241, :709, :938).
THEOREM NothingIsLost == Spec => []DataIsKept
  <1>1. ASSUME IInv PROVE DataIsKept
    <2>1. TypeOK /\ DataInv
      BY <1>1 DEF IInv
    <2>2. ASSUME NEW p \in Places PROVE files[p] = Content(p)
      BY <2>1, <2>2 DEF DataInv, Content
    <2>3. ASSUME NEW f, NEW p \in Places, f \in files[p] PROVE f \in UNION {Content(q) : q \in Places}
      BY <2>2, <2>3
    <2>4. HomeFiles \subseteq UNION {Content(p) : p \in Places}
      BY <2>1, <2>3 DEF DataInv, HomeSafe, Places
    <2>5. written \subseteq (UNION {Content(p) : p \in Places}) \cup erased
      BY <2>1, <2>3 DEF DataInv, Kept
    <2>6. \A p \in Places : files[p] \subseteq Content(p)
      BY <2>2
    <2>. QED  BY <2>1, <2>4, <2>5, <2>6 DEF DataIsKept, DataInv
  <1>. QED  BY <1>1, Invariance, PTL

\* A disk that azlin disk repair has said ok of is mounted and bound, and comes
\* back at every later boot (cmd_disk_ops.rs:629, disk_layout.rs:1025).
THEOREM OkIsForGood == Spec => []OkSurvivesReboot
  <1>1. ASSUME IInv PROVE OkSurvivesReboot
    <2>. SUFFICES ASSUME cmd.verdict = "ok", NEW r \in cmd.ran PROVE Persisted(r) /\ bound[r] = "disk"
      BY DEF OkSurvivesReboot
    <2>1. \A s \in Slots : ~script[s].heard
      BY <1>1, HeardIdle DEF IInv, CmdInv
    <2>. QED  BY <1>1, <2>1 DEF IInv, OkInv, RanOk, VerdictOk, Durable
  <1>. QED  BY <1>1, Invariance, PTL

\* status=ok of cloud-init means that every disk is mounted, bound and comes
\* back at every later boot (cloud_init.rs:258).
THEOREM StatusIsTrue == Spec => []StatusIsEarned
  <1>1. IInv => StatusIsEarned
    BY DEF IInv, StatusInv, StatusIsEarned, Healthy, Durable
  <1>. QED  BY <1>1, Invariance, PTL

\* The home is there whenever no script is exchanging it, unless a script that
\* had moved it aside was killed or rebooted away before it had written fstab
\* (disk_layout.rs:926, cloud_init.rs:383).
THEOREM HomeStaysReachable == Spec => []HomeIsReachable
  <1>1. ASSUME IInv, ReachInv PROVE HomeIsReachable
    <2>. SUFFICES ASSUME Sane, boot.at \notin {"mkdir", "bind"}, \A s \in Slots : ~Armed(s) PROVE Content(Shown) # {}
      BY DEF HomeIsReachable, Sane
    <2>1. \A s \in Slots : ~Aside(s)
      BY DEF Aside, Armed, At
    <2>2. DiskThere /\ OsThere /\ ~SwapBoot
      BY <1>1 DEF ReachInv, Reach, SwapBoot
    <2>3. files[Shown] # {}
      <3>1. CASE HomeBind = "no"
        <4>1. Shown = "os" /\ ("home" \in Roles => bound["home"] = "no")
          BY <3>1 DEF Shown, HomeBind
        <4>. QED  BY <2>1, <2>2, <4>1 DEF OsThere
      <3>2. CASE HomeBind # "no"
        <4>1. "home" \in Roles /\ HomeBind = bound["home"] /\ Shown = bound["home"]
          BY <3>2 DEF Shown, HomeBind
        <4>. QED  BY <2>2, <3>2, <4>1 DEF DiskThere, Filled
      <3>. QED  BY <3>1, <3>2
    <2>4. Shown \in Places
      BY <1>1, ShownTyped DEF IInv
    <2>. QED  BY <1>1, <2>3, <2>4 DEF IInv, DataInv, Content
  <1>. QED  BY <1>1, ReachInvariance, Invariance, PTL

\* A home that a repair copied and then bound shows everything that the home it
\* covers held when the copy was verified: a copy that was interrupted is never
\* taken for a whole one, whatever else runs (disk_layout.rs:860).
THEOREM BoundHomeIsWhole == Spec => []HomeIsWhole
  <1>1. IInv /\ ReachInv /\ WholeInv /\ [Next]_vars => WholeInv'
    BY WholeStep, WholeStutter
  <1>2. Spec => []ReachInv
    BY ReachInvariance
  <1>3. Spec => []WholeInv
    BY <1>1, <1>2, WholeInit, Invariance, PTL DEF Spec
  <1>4. ASSUME IInv, ReachInv, WholeInv PROVE HomeIsWhole
    <2>. SUFFICES ASSUME HomeBind # "no", copier = "repair", Sane
                  PROVE  (Content("old") \cup Content("os")) \ late \subseteq Content(HomeBind)
      BY DEF HomeIsWhole, Sane
    <2>1. HomeBind = bound["home"] /\ "home" \in Roles /\ bound["home"] # "no"
      BY DEF HomeBind
    <2>2. bound["home"] = "disk"
      BY <1>4, <2>1 DEF ReachInv, Reach, DiskThere
    <2>3. Whole
      BY <1>4, <2>1 DEF WholeInv, CopyInv, RepairCopy, Covered
    <2>4. Content("disk") = files["disk"] /\ Content("old") \subseteq files["old"] /\ Content("os") \subseteq files["os"]
      BY <1>4 DEF IInv, DataInv, Content, Places
    <2>. QED  BY <2>1, <2>2, <2>3, <2>4 DEF Whole
  <1>. QED  BY <1>2, <1>3, <1>4, Invariance, PTL
=============================================================================
