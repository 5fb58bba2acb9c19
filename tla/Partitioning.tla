---------------------------- MODULE Partitioning ----------------------------
(***************************************************************************)
(* The free-space install of the configurator: it finds the largest free   *)
(* region of a disk that holds other systems, makes an ESP and a root      *)
(* partition in it, formats and mounts them and hands them to the          *)
(* installer.  Any failure goes through disk_abort_hook, which is to undo  *)
(* all of it (disk-partitioning.sh, configurator).  Attempts follow one    *)
(* another in one live session.                                            *)
(*                                                                         *)
(* The disk is measured in units of the size of the ESP.  parted numbers   *)
(* partitions by the lowest free slot of the table.                        *)
(***************************************************************************)
EXTENDS Integers, Sequences

CONSTANTS
  NSlots,        \* slots of the partition table
  DiskSize,      \* in units
  MinSize,       \* the smallest region Omarchy fits into, in units
  InitialTables, \* what may be on the disk before the session
  FaultSets,     \* which of the rarer failures below can happen in a session: one of these sets
  MaxAttempts    \* bound: runs of the configurator in one session

(***************************************************************************)
(* label: lsblk reports no partition table on a disk that has one.         *)
(* before, after, size: parted cannot print the table, and the error is    *)
(* hidden by 2>/dev/null.                                                  *)
(* commit: parted writes a partition and then exits with an error.         *)
(* busy: a file system cannot be unmounted.                                *)
(***************************************************************************)
AllFaults == {"label", "before", "after", "size", "commit", "busy"}

Slots == 1 .. NSlots
Units == 1 .. DiskSize

\* A partition: where it lies, which attempt made it (0: it was there before
\* the session), what is on it.
Part == [first : Units, last : Units, by : 0 .. MaxAttempts, fs : {"old", "wiped", "luks", "btrfs", "vfat"}]
NoPart == [by |-> MaxAttempts + 1]

ASSUME PartitioningAssumption ==
  /\ NSlots \in Nat /\ DiskSize \in Nat \ {0} /\ MaxAttempts \in Nat
  /\ MinSize \in Nat /\ MinSize > 2
  /\ InitialTables \subseteq [Slots -> Part \cup {NoPart}]
  /\ \A t \in InitialTables, s \in Slots : t[s] # NoPart => t[s].by = 0
  /\ FaultSets \subseteq SUBSET AllFaults

VARIABLES
  faults,       \* the rarer failures of this session
  attempt,      \* runs of the configurator so far
  pc,           \* the command about to be run
  how,          \* how the last attempt ended
  table,        \* the partition table and what is on the partitions
  mapper,       \* the slot behind /dev/mapper/omarchy_root, or 0
  mounts,       \* the mounts below /mnt, the last one last
  plan,         \* the free region: <<first, last>>
  encrypt,      \* encrypt_installation
  role,         \* which partition create_partition is making
  before,       \* the numbers it read before mkpart
  num,          \* the number it found
  parts,        \* efi_part_num and root_part_num, 0 if unset
  created       \* created_parts

disk == table
host == <<mapper, mounts>>
shell == <<plan, encrypt, role, before, num, parts, created>>
vars == <<faults, attempt, pc, how, disk, host, shell>>

Taken == {s \in Slots : table[s] # NoPart}
Used == UNION {table[s].first .. table[s].last : s \in Taken}
IsFree(first, last) == first .. last \subseteq Units \ Used
\* The largest free region, the first one of several.
LargestFree(first, last) ==
  /\ IsFree(first, last)
  /\ \A f, l \in Units :
       l - f > last - first \/ (l - f = last - first /\ f < first) => ~ IsFree(f, l)
InUse(s) == mapper = s \/ \E i \in 1 .. Len(mounts) : mounts[i].dev = s

\* Of the free region the first unit is for the ESP, the rest for the root.
Region(r) == IF r = "efi" THEN <<plan[1], plan[1]>> ELSE <<plan[1] + 1, plan[2]>>

\* The device the root file system is made on.
RootDevice == IF encrypt THEN mapper ELSE parts.root

Goto(next) == pc' = next /\ UNCHANGED <<faults, attempt, how>>
Over(end) == pc' = "over" /\ how' = end /\ UNCHANGED <<faults, attempt>>

\* disk_step, and the calls guarded by || disk_abort_hook: on to the next
\* command, or into the hook after all or nothing of the work was done.
Then(next) == Goto(next) \/ Goto("release")
Failed == Goto("release") /\ UNCHANGED <<disk, host, shell>>

Init ==
  /\ faults \in FaultSets
  /\ attempt = 0
  /\ pc = "over"
  /\ how = "none"
  /\ table \in InitialTables
  /\ mapper = 0
  /\ mounts = <<>>
  /\ plan = <<1, 1>>
  /\ encrypt = FALSE
  /\ role = "efi"
  /\ before = {}
  /\ num = 0
  /\ parts = [efi |-> 0, root |-> 0]
  /\ created = {}

Start ==
  /\ pc = "over" /\ how # "installed"
  /\ attempt < MaxAttempts
  /\ attempt' = attempt + 1
  /\ pc' = "picker"
  /\ how' = "none"
  /\ parts' = [efi |-> 0, root |-> 0]
  /\ created' = {}
  /\ UNCHANGED <<faults, disk, host, plan, encrypt, role, before, num>>

-----------------------------------------------------------------------------
(* run_partition_decide                                                    *)

\* A disk without a table is not offered here (requires_full_disk_install),
\* so the whole disk is planned only if lsblk fails to see the table now.
Decide ==
  /\ pc = "picker"
  /\ \E f, l \in Units, label \in BOOLEAN :
       /\ IF label THEN "label" \in faults /\ f = 1 /\ l = DiskSize ELSE LargestFree(f, l)
       /\ l - f + 1 >= MinSize
       /\ plan' = <<f, l>>
       /\ Goto(IF label THEN "mklabel" ELSE "before")
  /\ encrypt' \in BOOLEAN
  /\ role' = "efi"
  /\ UNCHANGED <<disk, host, before, num, parts, created>>

\* not_enough_space: the user may delete partitions in cfdisk.
PartitionTool ==
  /\ pc = "picker"
  /\ \A f, l \in Units : l - f + 1 >= MinSize => ~ IsFree(f, l)
  /\ \E s \in Taken : ~ InUse(s) /\ table' = [table EXCEPT ![s] = NoPart]
  /\ Goto("picker")
  /\ UNCHANGED <<host, shell>>

-----------------------------------------------------------------------------
(* create_partition                                                        *)

\* parted refuses while a partition of the disk is in use.
Mklabel ==
  /\ pc = "mklabel"
  /\ \/ /\ \A s \in Taken : ~ InUse(s)
        /\ table' = [s \in Slots |-> NoPart]
        /\ Then("before")
        /\ UNCHANGED <<host, shell>>
     \/ Failed

Before ==
  /\ pc = "before"
  /\ \/ before' = Taken
     \/ "before" \in faults /\ before' = {}
  /\ Goto("mkpart")
  /\ UNCHANGED <<disk, host, plan, encrypt, role, num, parts, created>>

Mkpart ==
  /\ pc = "mkpart"
  /\ \/ \E s \in Slots \ Taken :
          /\ \A t \in Slots \ Taken : s <= t
          /\ IsFree(Region(role)[1], Region(role)[2])
          /\ table' = [table EXCEPT ![s] =
                         [first |-> Region(role)[1], last |-> Region(role)[2], by |-> attempt, fs |-> "old"]]
          /\ Goto("after") \/ ("commit" \in faults /\ Goto("release"))
          /\ UNCHANGED <<host, shell>>
     \/ Failed

\* Seeded fault: the lowest number, not the lowest new one.
AfterLowest ==
  /\ pc = "after"
  /\ \E n \in Taken : (\A m \in Taken : n <= m) /\ num' = n
  /\ Goto("size")
  /\ UNCHANGED <<disk, host, plan, encrypt, role, before, parts, created>>

\* The first new number, as a string: if there are several, any of them.
After ==
  /\ pc = "after"
  /\ \/ \E n \in Taken \ before :
          /\ num' = n
          /\ Goto("size")
          /\ UNCHANGED <<disk, host, plan, encrypt, role, before, parts, created>>
     \/ "after" \in faults /\ Failed

HasSize(n, r) == table[n].last - table[n].first = Region(r)[2] - Region(r)[1]

Record ==
  /\ pc = "size"
  /\ \/ /\ HasSize(num, role)
        /\ parts' = [parts EXCEPT ![role] = num]
        /\ created' = created \cup {num}
        /\ role' = "root"
        /\ Goto(IF role = "efi" THEN "before" ELSE "flag")
        /\ UNCHANGED <<disk, host, plan, encrypt, before, num>>
     \/ (~ HasSize(num, role) \/ "size" \in faults) /\ Failed

-----------------------------------------------------------------------------
(* run_partition_execute, from the flag to the hand-over                   *)

\* Setting the ESP flag, and waiting for both device nodes.
Flag == pc = "flag" /\ Then("wipe_efi") /\ UNCHANGED <<disk, host, shell>>

\* A command that writes to a partition.
Write(at, s, fs, next) ==
  /\ pc = at
  /\ \/ table' = [table EXCEPT ![s].fs = fs] /\ Then(next) /\ UNCHANGED <<host, shell>>
     \/ Failed

WipeEfi == Write("wipe_efi", parts.efi, "wiped", "wipe_root")
WipeRoot == Write("wipe_root", parts.root, "wiped", IF encrypt THEN "luks" ELSE "mkfs")
LuksFormat == Write("luks", parts.root, "luks", "open")

\* Seeded fault: a name that is taken already is not noticed.
LuksOpenUnchecked ==
  /\ pc = "open"
  /\ mapper' = IF mapper = 0 THEN parts.root ELSE mapper
  /\ Goto("mkfs")
  /\ UNCHANGED <<disk, mounts, shell>>

LuksOpen ==
  /\ pc = "open"
  /\ \/ mapper = 0 /\ mapper' = parts.root /\ Then("mkfs") /\ UNCHANGED <<disk, mounts, shell>>
     \/ Failed

MakeRoot == Write("mkfs", RootDevice, "btrfs", "mount_tmp")

Mount(at, point, dev, next) ==
  /\ pc = at
  /\ \/ mounts' = Append(mounts, [at |-> point, dev |-> dev]) /\ Then(next) /\ UNCHANGED <<disk, mapper, shell>>
     \/ Failed

MountTmp == Mount("mount_tmp", "tmp", RootDevice, "subvolumes")
Subvolumes == pc = "subvolumes" /\ Then("umount_tmp") /\ UNCHANGED <<disk, host, shell>>

\* The result of umount is not looked at.
UmountTmp ==
  /\ pc = "umount_tmp"
  /\ \/ mounts' = SubSeq(mounts, 1, Len(mounts) - 1)
     \/ "busy" \in faults /\ mounts' = mounts
  /\ Goto("mount_root")
  /\ UNCHANGED <<disk, mapper, shell>>

\* The root with its subvolumes, which are mounted on it.
MountRoot == Mount("mount_root", "root", RootDevice, "mkfs_esp")
MakeEsp == Write("mkfs_esp", parts.efi, "vfat", "mount_esp")
MountEsp == Mount("mount_esp", "esp", parts.efi, "check")

IsMountpoint(point) == \E i \in 1 .. Len(mounts) : mounts[i].at = point

Check ==
  /\ pc = "check"
  /\ Goto(IF IsMountpoint("root") /\ IsMountpoint("esp") THEN "install" ELSE "release")
  /\ UNCHANGED <<disk, host, shell>>

\* Closing the mapper fails while a mount uses it.
Close == mapper' = IF \E i \in 1 .. Len(mounts') : mounts'[i].dev = mapper THEN mapper ELSE 0

\* The installer succeeds; or it fails and gives the target back, as far as
\* nothing is busy; or it is killed.
Install ==
  /\ pc = "install"
  /\ \/ (Over("installed") \/ Over("failed")) /\ UNCHANGED host
     \/ /\ Over("failed")
        /\ \E j \in Len(mounts) - 2 .. Len(mounts) : mounts' = SubSeq(mounts, 1, j)
        /\ Close
  /\ UNCHANGED <<disk, shell>>

-----------------------------------------------------------------------------
(* disk_abort_hook                                                         *)

LastMount(i, point) ==
  /\ mounts[i].at = point
  /\ \A j \in i + 1 .. Len(mounts) : mounts[j].at # point

\* umount -R /mnt takes what was mounted on the last root with it, and stops at
\* the first mount that is busy.
UmountRoot ==
  \/ \E i \in 1 .. Len(mounts) :
       /\ LastMount(i, "root")
       /\ \E j \in i - 1 .. Len(mounts) :
            (j = i - 1 \/ "busy" \in faults) /\ mounts' = SubSeq(mounts, 1, j)
  \/ ~ IsMountpoint("root") /\ mounts' = mounts

\* Seeded fault: the temporary mount point is forgotten.
UmountTargetOnly ==
  /\ pc = "release"
  /\ UmountRoot
  /\ Goto("close")
  /\ UNCHANGED <<disk, mapper, shell>>

UmountTarget ==
  /\ pc = "release"
  /\ UmountRoot
  /\ Goto("release_tmp")
  /\ UNCHANGED <<disk, mapper, shell>>

\* umount /mnt/btrfs-root reaches a mount that no later root covers.
ReleaseTmp ==
  /\ pc = "release_tmp"
  /\ \/ /\ mounts # <<>> /\ mounts[Len(mounts)].at = "tmp"
        /\ mounts' = SubSeq(mounts, 1, Len(mounts) - 1)
     \/ /\ (mounts # <<>> => mounts[Len(mounts)].at # "tmp") \/ "busy" \in faults
        /\ mounts' = mounts
  /\ Goto("close")
  /\ UNCHANGED <<disk, mapper, shell>>

CloseMapper ==
  /\ pc = "close"
  /\ UNCHANGED <<disk, mounts, shell>>
  /\ Close
  /\ Goto("rollback")

\* Seeded fault: the list is not emptied.
RollbackKeepingList ==
  /\ pc = "rollback"
  /\ \E n \in created :
       /\ table' = [table EXCEPT ![n] = IF InUse(n) THEN table[n] ELSE NoPart]
  /\ Goto("rollback")
  /\ UNCHANGED <<host, shell>>

\* rollback_created_parts, the highest number first; parted rm refuses a
\* partition in use, and that is not looked at.
Rollback ==
  /\ pc = "rollback"
  /\ \E n \in created :
       /\ \A m \in created : m <= n
       /\ table' = [table EXCEPT ![n] = IF InUse(n) THEN table[n] ELSE NoPart]
       /\ created' = created \ {n}
  /\ Goto("rollback")
  /\ UNCHANGED <<host, plan, encrypt, role, before, num, parts>>

Abort == pc = "rollback" /\ created = {} /\ Over("hook") /\ UNCHANGED <<disk, host, shell>>

\* Ctrl-C, or the configurator aborts without the hook.
Stop == pc \notin {"over", "install"} /\ Over("stopped") /\ UNCHANGED <<disk, host, shell>>

Rest == pc = "over" /\ (how = "installed" \/ attempt = MaxAttempts) /\ UNCHANGED vars

Next ==
  \/ Start \/ Decide \/ PartitionTool
  \/ Mklabel \/ Before \/ Mkpart \/ After \/ Record
  \/ Flag \/ WipeEfi \/ WipeRoot \/ LuksFormat \/ LuksOpen \/ MakeRoot
  \/ MountTmp \/ Subvolumes \/ UmountTmp \/ MountRoot \/ MakeEsp \/ MountEsp \/ Check
  \/ Install
  \/ UmountTarget \/ ReleaseTmp \/ CloseMapper \/ Rollback \/ Abort
  \/ Stop \/ Rest

Spec == Init /\ [][Next]_vars

-----------------------------------------------------------------------------
(* Properties                                                              *)

Calls == {"over", "picker", "mklabel", "before", "mkpart", "after", "size", "flag", "wipe_efi",
          "wipe_root", "luks", "open", "mkfs", "mount_tmp", "subvolumes", "umount_tmp", "mount_root",
          "mkfs_esp", "mount_esp", "check", "install", "release", "release_tmp", "close", "rollback"}
\* Once both partitions are recorded.
Recorded == {"flag", "wipe_efi", "wipe_root", "luks", "open", "mkfs", "mount_tmp", "subvolumes",
             "umount_tmp", "mount_root", "mkfs_esp", "mount_esp", "check", "install"}

\* Types; the numbers in created_parts are partitions that exist, and so are
\* those the commands are given.
TypeOK ==
  /\ faults \subseteq AllFaults
  /\ attempt \in 0 .. MaxAttempts
  /\ pc \in Calls
  /\ how \in {"none", "hook", "stopped", "failed", "installed"}
  /\ table \in [Slots -> Part \cup {NoPart}]
  /\ mapper \in Slots \cup {0}
  /\ mounts \in Seq([at : {"tmp", "root", "esp"}, dev : Slots])
  /\ plan \in Units \X Units
  /\ encrypt \in BOOLEAN
  /\ role \in {"efi", "root"}
  /\ before \subseteq Slots
  /\ num \in Slots \cup {0}
  /\ parts \in [efi : Slots \cup {0}, root : Slots \cup {0}]
  /\ pc # "over" => created \subseteq Taken
  /\ created \subseteq Slots
  /\ pc = "size" => num \in Taken
  /\ pc \in Recorded => {parts.efi, parts.root} \subseteq created

\* lsblk and parted give the partition table as it is, or fail loudly.
ReadRight == {"label", "before"} \cap faults = {}

\* The free-space install keeps every other partition: no command of an
\* attempt changes, formats or removes a partition that was there when the
\* attempt began (what the user does in cfdisk is the user's).  The failures
\* that hide the table from the install are excluded.
OthersKept ==
  [][\A s \in Slots :
       ReadRight /\ pc # "picker" /\ table[s] # NoPart /\ table[s].by # attempt => table'[s] = table[s]]_vars

\* The installer is started on a root and an ESP of its own, both formatted by
\* this attempt and mounted last, whatever earlier attempts left mounted or open.
HandoffMounted ==
  pc = "install" =>
    /\ Len(mounts) > 1
    /\ mounts[Len(mounts) - 1] = [at |-> "root", dev |-> parts.root]
    /\ mounts[Len(mounts)] = [at |-> "esp", dev |-> parts.efi]
    /\ parts.efi # parts.root
    /\ table[parts.root].fs = "btrfs" /\ table[parts.efi].fs = "vfat"
    /\ encrypt => mapper = parts.root

\* disk_abort_hook undoes a half-built layout before the user is handed the
\* disk back: no partition of the attempt is left.
HalfBuiltUndone == pc = "over" /\ how = "hook" => \A s \in Taken : table[s].by # attempt

\* It does so after every failure but the rarer ones, whatever earlier attempts
\* left mounted or open.
LayoutUndone == faults = {} => HalfBuiltUndone
=============================================================================
