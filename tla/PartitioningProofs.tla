------------------------- MODULE PartitioningProofs -------------------------
(***************************************************************************)
(* The safety properties of Partitioning for disks of any size, any table  *)
(* and any number of attempts.                                             *)
(***************************************************************************)
EXTENDS Partitioning, TLAPS

TableType == [Slots -> Part \cup {NoPart}]
MountType == [at : {"tmp", "root", "esp"}, dev : Slots]

Creating == {"before", "mkpart", "after", "size"}
\* Once the root file system is made, and once the ESP's is.
RootMade == {"mount_tmp", "subvolumes", "umount_tmp", "mount_root", "mkfs_esp", "mount_esp", "check", "install"}
EspMade == {"mount_esp", "check", "install"}

\* The planned region holds an ESP and more than an ESP.
Planned ==
  /\ pc \in {"picker", "mklabel"} => created = {}
  /\ pc = "mklabel" => role = "efi"
  /\ pc \in {"mklabel"} \cup Creating \cup Recorded => plan[2] - plan[1] + 1 >= MinSize

\* What was recorded has the size that was asked for.
Sized ==
  /\ pc \in Creating /\ role = "root" => parts.efi \in created
  /\ (pc \in Creating /\ role = "root") \/ pc \in Recorded =>
       table[parts.efi].last = table[parts.efi].first
  /\ pc \in Recorded => table[parts.root].last - table[parts.root].first = plan[2] - plan[1] - 1

\* The root file system is on the root partition.
Formatted ==
  /\ pc \in {"mkfs"} \cup RootMade /\ encrypt => mapper = parts.root
  /\ pc \in RootMade => table[parts.root].fs = "btrfs"
  /\ pc \in EspMade => table[parts.efi].fs = "vfat"

\* What was mounted last.
Stacked ==
  /\ pc \in {"mkfs_esp", "mount_esp"} =>
       Len(mounts) > 0 /\ mounts[Len(mounts)] = [at |-> "root", dev |-> parts.root]
  /\ pc \in {"check", "install"} =>
       /\ Len(mounts) > 1
       /\ mounts[Len(mounts) - 1] = [at |-> "root", dev |-> parts.root]
       /\ mounts[Len(mounts)] = [at |-> "esp", dev |-> parts.efi]

\* What create_partition finds was made by this attempt.
Own ==
  ReadRight =>
    /\ pc # "mklabel"
    /\ pc # "over" => \A n \in created : table[n].by = attempt
    /\ pc = "mkpart" => before = Taken
    /\ pc = "after" => \A n \in Taken \ before : table[n].by = attempt
    /\ pc = "size" => table[num].by = attempt

IInv == TypeOK /\ Planned /\ Sized /\ Formatted /\ Stacked /\ Own

-----------------------------------------------------------------------------
\* The empty slot is not a partition.
LEMMA NoPartNew == \A p \in Part : p # NoPart
  BY PartitioningAssumption DEF Part, NoPart

\* Writing to a partition keeps the table's type and everything but the content
\* of that partition.
LEMMA WrittenTable ==
  ASSUME table \in TableType, NEW s \in Slots, table[s] # NoPart,
         NEW fs \in {"old", "wiped", "luks", "btrfs", "vfat"}, table' = [table EXCEPT ![s].fs = fs]
  PROVE  /\ table' \in TableType
         /\ Taken' = Taken
         /\ \A n \in Slots : n # s => table'[n] = table[n]
         /\ table'[s].fs = fs
         /\ table'[s].by = table[s].by
         /\ table'[s].first = table[s].first /\ table'[s].last = table[s].last
  <1>1. table[s] \in Part
    BY DEF TableType
  <1>2. [table[s] EXCEPT !.fs = fs] \in Part
    BY <1>1 DEF Part
  <1>3. table'[s] = [table[s] EXCEPT !.fs = fs] /\ \A n \in Slots : n # s => table'[n] = table[n]
    BY DEF TableType
  <1>4. table' \in TableType
    BY <1>2, <1>3 DEF TableType
  <1>5. table'[s] # NoPart
    BY <1>2, <1>3, NoPartNew
  <1>6. Taken' = Taken
    BY <1>3, <1>5 DEF Taken
  <1> QED BY <1>1, <1>3, <1>4, <1>6 DEF Part

\* Removing what is no longer mounted keeps the type of the mount stack.
LEMMA ShorterMounts ==
  ASSUME mounts \in Seq(MountType), NEW n \in Int, n <= Len(mounts)
  PROVE  SubSeq(mounts, 1, n) \in Seq(MountType)
  OBVIOUS

\* The calls that write to a partition or mount it are given one of this attempt.
LEMMA GivenParts ==
  ASSUME TypeOK, Formatted
  PROVE  /\ pc \in Recorded => /\ parts.efi \in Slots /\ table[parts.efi] # NoPart
                               /\ parts.root \in Slots /\ table[parts.root] # NoPart
         /\ pc \in {"mkfs"} \cup RootMade => RootDevice = parts.root
  <1>1. pc \in Recorded => pc # "over"
    BY DEF Recorded
  <1>2. pc \in Recorded => {parts.efi, parts.root} \subseteq Taken
    BY <1>1 DEF TypeOK
  <1>3. pc \in {"mkfs"} \cup RootMade => RootDevice = parts.root
    BY DEF Formatted, RootDevice
  <1> QED BY <1>2, <1>3 DEF Taken

\* The initial states satisfy the inductive invariant.
LEMMA InitIInv == Init => IInv
  <1> SUFFICES ASSUME Init PROVE IInv
    OBVIOUS
  <1>1. table \in [Slots -> Part \cup {NoPart}]
    BY PartitioningAssumption DEF Init
  <1>2. mounts \in Seq([at : {"tmp", "root", "esp"}, dev : Slots])
    BY DEF Init
  <1>3. plan \in Units \X Units /\ attempt \in 0 .. MaxAttempts
    BY PartitioningAssumption DEF Init, Units
  <1>4. parts \in [efi : Slots \cup {0}, root : Slots \cup {0}] /\ mapper \in Slots \cup {0} /\ num \in Slots \cup {0}
    BY DEF Init
  <1>f. faults \subseteq AllFaults
    BY PartitioningAssumption DEF Init
  <1>5. TypeOK
    BY <1>1, <1>2, <1>3, <1>4, <1>f DEF Init, TypeOK, Calls, Recorded
  <1> QED
    BY <1>5
    DEF Init, IInv, Planned, Sized, Formatted, Stacked, Own, Creating, Recorded, RootMade, EspMade

\* The rarer failures are those of the session.
LEMMA SameFaults == [Next]_vars => faults' = faults
  <1> SUFFICES ASSUME [Next]_vars PROVE faults' = faults
    OBVIOUS
  <1>1. CASE Start \/ Decide \/ PartitionTool \/ Mklabel \/ Before \/ Mkpart \/ After \/ Record \/ Flag
    BY <1>1 DEF Start, Decide, PartitionTool, Mklabel, Before, Mkpart, After, Record, Flag, Failed, Then, Goto
  <1>2. CASE WipeEfi \/ WipeRoot \/ LuksFormat \/ LuksOpen \/ MakeRoot \/ MountTmp \/ Subvolumes \/ UmountTmp
    BY <1>2 DEF WipeEfi, WipeRoot, LuksFormat, LuksOpen, MakeRoot, MountTmp, Subvolumes, UmountTmp, Write, Mount,
      Failed, Then, Goto
  <1>3. CASE MountRoot \/ MakeEsp \/ MountEsp \/ Check \/ Install
    BY <1>3 DEF MountRoot, MakeEsp, MountEsp, Check, Install, Write, Mount, Failed, Then, Goto, Over
  <1>4. CASE UmountTarget \/ ReleaseTmp \/ CloseMapper \/ Rollback \/ Abort \/ Stop
    BY <1>4 DEF UmountTarget, ReleaseTmp, CloseMapper, Rollback, Abort, Stop, Goto, Over
  <1>5. CASE Rest \/ UNCHANGED vars
    BY <1>5 DEF Rest, vars
  <1> QED
    BY <1>1, <1>2, <1>3, <1>4, <1>5 DEF Next

\* Every step keeps the types.
LEMMA TypeNext == IInv /\ [Next]_vars => TypeOK'
  <1> SUFFICES ASSUME IInv, [Next]_vars PROVE TypeOK'
    OBVIOUS
  <1>0. TypeOK /\ Planned /\ Formatted
    BY DEF IInv
  <1>g. /\ pc \in Recorded => /\ parts.efi \in Slots /\ table[parts.efi] # NoPart
                              /\ parts.root \in Slots /\ table[parts.root] # NoPart
        /\ pc \in {"mkfs"} \cup RootMade => RootDevice = parts.root
    BY <1>0, GivenParts
  <1>f. faults' = faults
    BY SameFaults
  <1> USE <1>0, <1>f DEF TypeOK
  <1>1. CASE Start
    BY <1>1, PartitioningAssumption DEF Start, disk, host, Recorded, Calls
  <1>2. CASE Decide
    <2>1. PICK f \in Units, l \in Units, label \in BOOLEAN :
            plan' = <<f, l>> /\ Goto(IF label THEN "mklabel" ELSE "before")
      BY <1>2 DEF Decide
    <2>2. plan' \in Units \X Units /\ pc' \in {"mklabel", "before"} /\ attempt' = attempt /\ how' = how
      BY <2>1 DEF Goto
    <2>3. /\ table' = table /\ mapper' = mapper /\ mounts' = mounts /\ before' = before /\ num' = num
          /\ parts' = parts /\ created' = created /\ created = {} /\ encrypt' \in BOOLEAN /\ role' = "efi"
      BY <1>2 DEF Decide, disk, host, Planned
    <2> QED BY <2>2, <2>3 DEF Recorded, Calls
  <1>3. CASE PartitionTool
    <2>1. PICK s \in Taken : table' = [table EXCEPT ![s] = NoPart]
      BY <1>3 DEF PartitionTool
    <2>2. table' \in [Slots -> Part \cup {NoPart}] /\ created = {} /\ pc' = "picker"
      BY <1>3, <2>1 DEF PartitionTool, Goto, Planned
    <2> QED BY <1>3, <2>2 DEF PartitionTool, Goto, host, shell, Recorded, Calls
  <1>4. CASE Mklabel
    <2>1. created = {} /\ table' \in [Slots -> Part \cup {NoPart}]
      BY <1>4 DEF Mklabel, Failed, disk, Planned
    <2>2. pc' \in {"before", "release"} /\ attempt' = attempt /\ how' = how
      BY <1>4 DEF Mklabel, Failed, Then, Goto
    <2>3. mapper' = mapper /\ mounts' = mounts /\ UNCHANGED shell
      BY <1>4 DEF Mklabel, Failed, host
    <2> QED BY <2>1, <2>2, <2>3 DEF shell, Recorded, Calls
  <1>5. CASE Before
    BY <1>5 DEF Before, Goto, disk, host, Taken, Recorded, Calls
  <1>6. CASE Mkpart
    <2>1. CASE Failed
      BY <1>6, <2>1 DEF Mkpart, Failed, Goto, disk, host, shell, Recorded, Calls, Taken
    <2>2. ASSUME NEW s \in Slots \ Taken,
                 IsFree(Region(role)[1], Region(role)[2]),
                 table' = [table EXCEPT ![s] =
                   [first |-> Region(role)[1], last |-> Region(role)[2], by |-> attempt, fs |-> "old"]],
                 Goto("after") \/ Goto("release"), UNCHANGED <<host, shell>>
          PROVE  TypeOK'
      <3>1. plan[1] \in Units /\ plan[2] \in Units /\ plan[2] - plan[1] + 1 >= MinSize
        BY <1>6 DEF Mkpart, Planned, Creating
      <3>2. plan[1] + 1 \in Units
        BY <3>1, PartitioningAssumption DEF Units
      <3>3. Region(role)[1] \in Units /\ Region(role)[2] \in Units
        BY <3>1, <3>2 DEF Region
      <3> DEFINE p == [first |-> Region(role)[1], last |-> Region(role)[2], by |-> attempt, fs |-> "old"]
      <3>4. p \in Part
        BY <3>3 DEF Part
      <3> HIDE DEF p
      <3>5. table' = [table EXCEPT ![s] = p]
        BY <2>2 DEF p
      <3>6. table' \in [Slots -> Part \cup {NoPart}] /\ Taken \subseteq Taken'
        BY <3>4, <3>5, NoPartNew DEF Taken
      <3>7. created' = created /\ created \subseteq Taken
        BY <1>6, <2>2 DEF Mkpart, shell
      <3> QED BY <2>2, <3>6, <3>7 DEF Goto, host, shell, Recorded, Calls
    <2> QED BY <1>6, <2>1, <2>2 DEF Mkpart
  <1>7. CASE After
    BY <1>7 DEF After, Failed, Goto, disk, host, shell, Recorded, Calls, Taken
  <1>8. CASE Record
    <2>1. CASE Failed
      BY <1>8, <2>1 DEF Record, Failed, Goto, disk, host, shell, Recorded, Calls, Taken
    <2>2. CASE ~ Failed
      <3>1. num \in Taken /\ num \in Slots /\ created \subseteq Taken /\ table' = table
        BY <1>8, <2>2 DEF Record, Taken, disk
      <3>2. parts' \in [efi : Slots \cup {0}, root : Slots \cup {0}] /\ created' = created \cup {num}
        BY <1>8, <2>2, <3>1 DEF Record
      <3>3. created' \subseteq Taken' /\ created' \subseteq Slots
        BY <3>1, <3>2 DEF Taken
      <3>4. CASE role = "efi"
        BY <1>8, <2>2, <3>1, <3>2, <3>3, <3>4 DEF Record, Goto, host, Recorded, Calls
      <3>5. CASE role = "root"
        <4>1. parts'.efi = parts.efi /\ parts'.root = num
          BY <1>8, <2>2, <3>5 DEF Record
        <4>2. parts.efi \in created
          BY <1>8, <3>5 DEF IInv, Sized, Record, Creating
        <4>3. {parts'.efi, parts'.root} \subseteq created'
          BY <3>2, <4>1, <4>2
        <4> QED BY <1>8, <2>2, <3>1, <3>2, <3>3, <3>5, <4>3 DEF Record, Goto, host, Recorded, Calls
      <3> QED BY <3>4, <3>5
    <2> QED BY <2>1, <2>2
  <1>9. ASSUME NEW at \in Recorded \ {"check", "install"}, NEW s \in Slots, table[s] # NoPart,
               NEW fs \in {"old", "wiped", "luks", "btrfs", "vfat"}, NEW next \in Recorded, Write(at, s, fs, next)
        PROVE  TypeOK'
    <2>1. pc = at /\ pc \in Recorded /\ pc # "over"
      BY <1>9 DEF Write, Recorded
    <2>2. CASE Failed
      BY <2>1, <2>2 DEF Failed, Goto, disk, host, shell, Recorded, Calls, Taken
    <2>3. CASE table' = [table EXCEPT ![s].fs = fs] /\ Then(next) /\ UNCHANGED <<host, shell>>
      <3>1. table' \in [Slots -> Part \cup {NoPart}] /\ Taken' = Taken
        BY <1>9, <2>3, WrittenTable DEF TableType
      <3>2. pc' \in Recorded \cup {"release"} /\ attempt' = attempt /\ how' = how
        BY <1>9, <2>3 DEF Then, Goto
      <3>3. Recorded \cup {"release"} \subseteq Calls \ {"over", "size"}
        BY DEF Recorded, Calls
      <3> QED BY <2>1, <2>3, <3>1, <3>2, <3>3 DEF host, shell
    <2> QED BY <1>9, <2>2, <2>3 DEF Write
  <1>10. CASE WipeEfi \/ WipeRoot \/ LuksFormat \/ MakeRoot \/ MakeEsp
    <2>1. CASE WipeEfi
      <3>1. Write("wipe_efi", parts.efi, "wiped", "wipe_root") /\ pc = "wipe_efi"
        BY <2>1 DEF WipeEfi, Write
      <3> QED BY <1>9, <1>g, <3>1 DEF Recorded
    <2>2. CASE WipeRoot
      <3>1. PICK next \in {"luks", "mkfs"} : Write("wipe_root", parts.root, "wiped", next)
        BY <2>2 DEF WipeRoot
      <3>2. pc = "wipe_root"
        BY <3>1 DEF Write
      <3>3. parts.root \in Slots /\ table[parts.root] # NoPart
        BY <1>g, <3>2 DEF Recorded
      <3>4. next \in Recorded /\ "wipe_root" \in Recorded \ {"check", "install"}
        BY DEF Recorded
      <3> QED BY <1>9, <3>1, <3>3, <3>4
    <2>3. CASE LuksFormat
      <3>1. Write("luks", parts.root, "luks", "open") /\ pc = "luks"
        BY <2>3 DEF LuksFormat, Write
      <3> QED BY <1>9, <1>g, <3>1 DEF Recorded
    <2>4. CASE MakeRoot
      <3>1. Write("mkfs", parts.root, "btrfs", "mount_tmp") /\ pc = "mkfs"
        BY <2>4, <1>g DEF MakeRoot, Write
      <3> QED BY <1>9, <1>g, <3>1 DEF Recorded
    <2>5. CASE MakeEsp
      <3>1. Write("mkfs_esp", parts.efi, "vfat", "mount_esp") /\ pc = "mkfs_esp"
        BY <2>5 DEF MakeEsp, Write
      <3> QED BY <1>9, <1>g, <3>1 DEF Recorded
    <2> QED BY <1>10, <2>1, <2>2, <2>3, <2>4, <2>5
  <1>11. CASE Flag \/ Subvolumes
    BY <1>11 DEF Flag, Subvolumes, Then, Goto, disk, host, shell, Recorded, Calls, Taken
  <1>12. CASE LuksOpen
    <2>1. parts.root \in Slots
      BY <1>12, <1>g DEF LuksOpen, Recorded
    <2> QED BY <1>12, <2>1 DEF LuksOpen, Failed, Then, Goto, disk, host, shell, Recorded, Calls, Taken
  <1>13. ASSUME NEW at \in Recorded \ {"check", "install"}, NEW point \in {"tmp", "root", "esp"}, NEW dev \in Slots,
                NEW next \in Recorded, Mount(at, point, dev, next)
         PROVE  TypeOK'
    <2>1. pc = at /\ pc \in Recorded /\ pc # "over"
      BY <1>13 DEF Mount, Recorded
    <2>2. CASE Failed
      BY <2>1, <2>2 DEF Failed, Goto, disk, host, shell, Recorded, Calls, Taken
    <2>3. CASE mounts' = Append(mounts, [at |-> point, dev |-> dev]) /\ Then(next) /\ UNCHANGED <<disk, mapper, shell>>
      <3>1. mounts' \in Seq([at : {"tmp", "root", "esp"}, dev : Slots])
        BY <1>13, <2>3
      <3>2. pc' \in Recorded \cup {"release"} /\ attempt' = attempt /\ how' = how
        BY <1>13, <2>3 DEF Then, Goto
      <3>3. Recorded \cup {"release"} \subseteq Calls \ {"over", "size"}
        BY DEF Recorded, Calls
      <3> QED BY <2>1, <2>3, <3>1, <3>2, <3>3 DEF disk, shell, Taken
    <2> QED BY <1>13, <2>2, <2>3 DEF Mount
  <1>14. CASE MountTmp \/ MountRoot \/ MountEsp
    BY <1>13, <1>14, <1>g DEF MountTmp, MountRoot, MountEsp, Mount, Recorded, RootMade
  <1>15. CASE UmountTmp
    <2>1. mounts' \in Seq(MountType)
      BY <1>15, ShorterMounts DEF UmountTmp, MountType
    <2> QED BY <1>15, <2>1 DEF UmountTmp, Goto, disk, shell, Recorded, Calls, Taken, MountType
  <1>16. CASE Check
    BY <1>16 DEF Check, Goto, disk, host, shell, Recorded, Calls, Taken
  <1>17. CASE Install
    <2>1. mounts' \in Seq(MountType)
      <3>1. mounts \in Seq(MountType) /\ Len(mounts) \in Nat
        BY DEF MountType
      <3>2. \A j \in Len(mounts) - 2 .. Len(mounts) : SubSeq(mounts, 1, j) \in Seq(MountType)
        BY <3>1, ShorterMounts
      <3> QED BY <1>17, <3>1, <3>2 DEF Install, host
    <2>2. mapper' \in Slots \cup {0} /\ pc' = "over" /\ how' \in {"installed", "failed"} /\ attempt' = attempt
      BY <1>17 DEF Install, Close, Over, host
    <2> QED BY <1>17, <2>1, <2>2 DEF Install, disk, shell, Recorded, Calls, MountType
  <1>18. CASE UmountTarget
    <2>1. mounts' \in Seq(MountType)
      <3>1. mounts \in Seq(MountType) /\ Len(mounts) \in Nat
        BY DEF MountType
      <3>2. mounts' = mounts \/ \E j \in Int : j <= Len(mounts) /\ mounts' = SubSeq(mounts, 1, j)
        BY <1>18, <3>1 DEF UmountTarget, UmountRoot
      <3> QED BY <3>1, <3>2, ShorterMounts
    <2> QED BY <1>18, <2>1 DEF UmountTarget, Goto, disk, shell, Recorded, Calls, Taken, MountType
  <1>19. CASE ReleaseTmp
    <2>1. mounts' \in Seq(MountType)
      <3>1. mounts \in Seq(MountType) /\ Len(mounts) \in Nat
        BY DEF MountType
      <3>2. SubSeq(mounts, 1, Len(mounts) - 1) \in Seq(MountType)
        BY <3>1, ShorterMounts
      <3> QED BY <1>19, <3>1, <3>2 DEF ReleaseTmp
    <2> QED BY <1>19, <2>1 DEF ReleaseTmp, Goto, disk, shell, Recorded, Calls, Taken, MountType
  <1>20. CASE CloseMapper
    BY <1>20 DEF CloseMapper, Close, Goto, disk, shell, Recorded, Calls, Taken
  <1>21. CASE Rollback
    <2>1. PICK n \in created :
            /\ table' = [table EXCEPT ![n] = IF InUse(n) THEN table[n] ELSE NoPart]
            /\ created' = created \ {n}
      BY <1>21 DEF Rollback
    <2>2. pc = "rollback" /\ pc' = "rollback" /\ created \subseteq Taken
      BY <1>21 DEF Rollback, Goto
    <2>3. table' \in [Slots -> Part \cup {NoPart}] /\ \A m \in Slots : m # n => table'[m] = table[m]
      BY <2>1
    <2>4. created' \subseteq Taken' /\ created' \subseteq Slots
      BY <2>1, <2>2, <2>3 DEF Taken
    <2> QED BY <1>21, <2>2, <2>3, <2>4 DEF Rollback, Goto, host, Recorded, Calls
  <1>22. CASE Abort \/ Stop
    BY <1>22 DEF Abort, Stop, Over, disk, host, shell, Recorded, Calls
  <1>23. CASE UNCHANGED vars
    BY <1>23 DEF vars, disk, host, shell, Taken
  <1> QED
    BY <1>1, <1>2, <1>3, <1>4, <1>5, <1>6, <1>7, <1>8, <1>10, <1>11, <1>12, <1>14, <1>15, <1>16,
       <1>17, <1>18, <1>19, <1>20, <1>21, <1>22, <1>23
    DEF Next, Rest

\* From the decision to the hand-over the commands only go forward, or into the
\* hook, and only Record sets shell variables that later ones use.
LEMMA OrderNext ==
  ASSUME [Next]_vars
  PROVE  /\ pc' = "picker" => created' = {} \/ (pc = "picker" /\ created' = created)
         /\ pc' = "mklabel" => Decide \/ (pc = "mklabel" /\ UNCHANGED shell)
         /\ pc' \in Creating \cup Recorded =>
              \/ Decide
              \/ Record
              \/ (pc = "mklabel" /\ pc' = "before" /\ UNCHANGED shell)
              \/ /\ pc \in Creating \cup Recorded /\ (pc' \in Recorded => pc \in Recorded)
                 /\ UNCHANGED <<plan, encrypt, role, parts, created>>
  <1> USE DEF Creating, Recorded
  <1>1. CASE Start
    BY <1>1 DEF Start
  <1>10. CASE PartitionTool
    <2>1. pc = "picker" /\ pc' = "picker" /\ UNCHANGED shell
      BY <1>10 DEF PartitionTool, Goto
    <2> QED BY <2>1 DEF shell
  <1>11. CASE Decide
    <2>1. pc' \in {"mklabel", "before"}
      BY <1>11 DEF Decide, Goto
    <2> QED BY <1>11, <2>1
  <1>2. CASE Mklabel
    BY <1>2 DEF Mklabel, Failed, Then, Goto, shell
  <1>8. CASE Before \/ After
    BY <1>8 DEF Before, After, Failed, Goto, shell
  <1>9. CASE Mkpart
    <2>1. pc = "mkpart" /\ pc' \in {"after", "release"} /\ UNCHANGED shell
      BY <1>9 DEF Mkpart, Failed, Goto
    <2> QED BY <2>1 DEF shell
  <1>3. CASE Flag \/ WipeEfi \/ WipeRoot \/ LuksFormat \/ LuksOpen \/ MakeRoot \/ MakeEsp
    BY <1>3 DEF Flag, WipeEfi, WipeRoot, LuksFormat, LuksOpen, MakeRoot, MakeEsp, Write, Failed, Then, Goto, shell
  <1>4. CASE MountTmp \/ Subvolumes \/ UmountTmp \/ MountRoot \/ MountEsp \/ Check \/ Install
    BY <1>4 DEF MountTmp, Subvolumes, UmountTmp, MountRoot, MountEsp, Mount, Check, Install, Failed, Then, Goto, Over, shell
  <1>5. CASE UmountTarget \/ ReleaseTmp \/ CloseMapper \/ Rollback \/ Abort \/ Stop
    BY <1>5 DEF UmountTarget, ReleaseTmp, CloseMapper, Rollback, Abort, Stop, Goto, Over, shell
  <1>6. CASE UNCHANGED vars
    BY <1>6 DEF vars, shell
  <1>7. CASE Record
    BY <1>7 DEF Record, Failed, Goto, shell
  <1> QED BY <1>1, <1>2, <1>3, <1>4, <1>5, <1>6, <1>7, <1>8, <1>9, <1>10, <1>11 DEF Next, Rest

\* Every step that decides plans a region that is large enough.
LEMMA PlannedNext == IInv /\ [Next]_vars => Planned'
  <1> SUFFICES ASSUME IInv, [Next]_vars PROVE Planned'
    OBVIOUS
  <1>0. TypeOK /\ Planned
    BY DEF IInv
  <1>1. CASE Decide
    <2>1. PICK f \in Units, l \in Units : l - f + 1 >= MinSize /\ plan' = <<f, l>>
      BY <1>1 DEF Decide
    <2>2. plan'[2] - plan'[1] + 1 >= MinSize
      BY <2>1
    <2>3. created' = {} /\ role' = "efi"
      BY <1>0, <1>1 DEF Decide, Planned
    <2> QED BY <2>2, <2>3 DEF Planned
  <1>2. CASE ~ Decide /\ pc' \in {"picker", "mklabel"}
    <2>1. CASE pc' = "picker"
      BY <1>0, <2>1, OrderNext DEF Planned, Creating, Recorded
    <2>2. CASE pc' = "mklabel"
      BY <1>0, <1>2, <2>2, OrderNext DEF Planned, Creating, Recorded, shell
    <2> QED BY <1>2, <2>1, <2>2
  <1>3. CASE ~ Decide /\ pc' \in Creating \cup Recorded
    <2>1. plan' = plan /\ pc \in {"mklabel"} \cup Creating \cup Recorded
      BY <1>3, OrderNext DEF Record, Failed, shell, Creating
    <2>2. pc' \notin {"picker", "mklabel"}
      BY <1>3 DEF Creating, Recorded
    <2> QED BY <1>0, <2>1, <2>2 DEF Planned
  <1>4. CASE pc' \notin {"picker", "mklabel"} \cup Creating \cup Recorded
    BY <1>4 DEF Planned
  <1> QED BY <1>1, <1>2, <1>3, <1>4

\* While the partitions are being made and used, a step changes nothing of a
\* recorded partition but what is on it.
LEMMA SizesNext ==
  ASSUME IInv, [Next]_vars, pc \in Creating \cup Recorded, pc' \in Creating \cup Recorded
  PROVE  \A n \in created : /\ table'[n].first = table[n].first
                            /\ table'[n].last = table[n].last
                            /\ table'[n].by = table[n].by
  <1>0. TypeOK /\ Formatted /\ created \subseteq Taken /\ created \subseteq Slots
    BY DEF IInv, TypeOK, Creating, Recorded
  <1>1. CASE table' = table
    BY <1>1
  <1>2. ASSUME NEW at, NEW s \in Slots, table[s] # NoPart, NEW fs \in {"old", "wiped", "luks", "btrfs", "vfat"},
               NEW next, Write(at, s, fs, next), table' # table
        PROVE  \A n \in created : /\ table'[n].first = table[n].first
                                  /\ table'[n].last = table[n].last
                                  /\ table'[n].by = table[n].by
    <2>1. table' = [table EXCEPT ![s].fs = fs]
      BY <1>2 DEF Write, Failed, disk
    <2>2. table \in TableType
      BY <1>0 DEF TypeOK, TableType
    <2> QED BY <1>0, <1>2, <2>1, <2>2, WrittenTable
  <1>3. CASE WipeEfi \/ WipeRoot \/ LuksFormat \/ MakeRoot \/ MakeEsp
    <2>1. pc \in Recorded /\ (pc = "mkfs" \/ ~ MakeRoot)
      BY <1>3 DEF WipeEfi, WipeRoot, LuksFormat, MakeRoot, MakeEsp, Write, Recorded
    <2>2. /\ parts.efi \in Slots /\ table[parts.efi] # NoPart
          /\ parts.root \in Slots /\ table[parts.root] # NoPart
          /\ MakeRoot => RootDevice = parts.root
      BY <1>0, <2>1, GivenParts
    <2>3. \E at, s, fs, next : /\ s \in Slots /\ table[s] # NoPart /\ fs \in {"old", "wiped", "luks", "btrfs", "vfat"}
                               /\ Write(at, s, fs, next)
      BY <1>3, <2>2 DEF WipeEfi, WipeRoot, LuksFormat, MakeRoot, MakeEsp
    <2> QED BY <1>1, <1>2, <2>3
  <1>4. CASE Mkpart
    <2>1. CASE table' # table
      <3>1. PICK s \in Slots \ Taken : \A n \in Slots : n # s => table'[n] = table[n]
        BY <1>0, <1>4, <2>1 DEF Mkpart, Failed, disk, TypeOK
      <3> QED BY <1>0, <3>1
    <2> QED BY <1>1, <2>1
  <1>5. CASE Mklabel \/ PartitionTool \/ Rollback
    BY <1>5 DEF Mklabel, PartitionTool, Rollback, Creating, Recorded
  <1>6. CASE Start \/ Decide \/ Before \/ After \/ Record \/ Flag \/ LuksOpen \/ MountTmp \/ Subvolumes \/ UmountTmp
             \/ MountRoot \/ MountEsp \/ Check \/ Install \/ UmountTarget \/ ReleaseTmp \/ CloseMapper \/ Abort \/ Stop
             \/ UNCHANGED vars
    <2>1. table' = table
      BY <1>6 DEF Start, Decide, Before, After, Record, Flag, LuksOpen, MountTmp, Subvolumes, UmountTmp, MountRoot,
        MountEsp, Mount, Check, Install, UmountTarget, ReleaseTmp, CloseMapper, Abort, Stop, Failed, disk, vars
    <2> QED BY <2>1
  <1> QED BY <1>3, <1>4, <1>5, <1>6 DEF Next, Rest

\* create_partition records a partition only after comparing its size.
LEMMA SizedNext == IInv /\ [Next]_vars => Sized'
  <1> SUFFICES ASSUME IInv, [Next]_vars PROVE Sized'
    OBVIOUS
  <1>0. TypeOK /\ Planned /\ Sized
    BY DEF IInv
  <1>1. CASE pc' \notin Creating \cup Recorded
    BY <1>1 DEF Sized
  <1>2. CASE Decide
    <2>1. role' = "efi" /\ pc' \in {"mklabel", "before"}
      BY <1>2 DEF Decide, Goto
    <2> QED BY <2>1 DEF Sized, Creating, Recorded
  <1>3. CASE Record /\ pc' \in Creating \cup Recorded
    <2>1. /\ HasSize(num, role) /\ table' = table /\ plan' = plan /\ role' = "root" /\ pc = "size"
          /\ parts' = [parts EXCEPT ![role] = num] /\ created' = created \cup {num}
          /\ pc' = IF role = "efi" THEN "before" ELSE "flag"
      BY <1>3 DEF Record, Failed, Goto, Creating, Recorded, disk
    <2>2. num \in Slots /\ table[num] \in Part
      BY <1>0, <2>1 DEF TypeOK, Taken
    <2>3. table[num].first \in Int /\ table[num].last \in Int /\ plan[1] \in Int /\ plan[2] \in Int
      BY <1>0, <2>2 DEF TypeOK, Part, Units
    <2>4. CASE role = "efi"
      <3>1. table[num].last - table[num].first = plan[1] - plan[1]
        BY <2>1, <2>4 DEF HasSize, Region
      <3>2. parts'.efi = num /\ pc' = "before"
        BY <1>0, <2>1, <2>4 DEF TypeOK
      <3> QED BY <2>1, <2>3, <3>1, <3>2 DEF Sized, Recorded
    <2>5. CASE role = "root"
      <3>1. table[num].last - table[num].first = plan[2] - (plan[1] + 1)
        BY <2>1, <2>5 DEF HasSize, Region
      <3>2. parts'.root = num /\ parts'.efi = parts.efi /\ pc' = "flag"
        BY <1>0, <2>1, <2>5 DEF TypeOK
      <3>3. table[parts.efi].last = table[parts.efi].first
        BY <1>0, <2>1, <2>5 DEF Sized, Creating
      <3> QED BY <2>1, <2>3, <3>1, <3>2, <3>3 DEF Sized, Creating
    <2> QED BY <1>0, <2>4, <2>5 DEF TypeOK
  <1>4. CASE pc = "mklabel" /\ pc' = "before" /\ UNCHANGED shell
    BY <1>0, <1>4 DEF Sized, Planned, shell, Recorded
  <1>5. CASE /\ pc \in Creating \cup Recorded /\ pc' \in Creating \cup Recorded
             /\ pc' \in Recorded => pc \in Recorded
             /\ UNCHANGED <<plan, encrypt, role, parts, created>>
    <2>1. \A n \in created : table'[n].first = table[n].first /\ table'[n].last = table[n].last
      BY <1>5, SizesNext
    <2>2. pc \in Recorded => parts.efi \in created /\ parts.root \in created
      BY <1>0 DEF TypeOK
    <2>3. pc \in Recorded \/ role = "root" => /\ parts.efi \in created
                                             /\ table[parts.efi].last = table[parts.efi].first
      BY <1>0, <1>5, <2>2 DEF Sized
    <2>4. (pc' \in Creating /\ role' = "root") \/ pc' \in Recorded => pc \in Recorded \/ role = "root"
      BY <1>5
    <2>5. pc' \in Recorded => table'[parts.root].last - table'[parts.root].first = plan[2] - plan[1] - 1
      BY <1>0, <1>5, <2>1, <2>2 DEF Sized
    <2> QED BY <1>5, <2>1, <2>3, <2>4, <2>5 DEF Sized
  <1> QED BY <1>1, <1>2, <1>3, <1>4, <1>5, OrderNext

\* The ESP and the root partition have different sizes, so they are different
\* partitions.
LEMMA DifferentParts ==
  ASSUME TypeOK, Planned, Sized, pc \in Recorded
  PROVE  parts.efi # parts.root
  <1>1. pc # "over"
    BY DEF Recorded
  <1>2. {parts.efi, parts.root} \subseteq Taken
    BY <1>1 DEF TypeOK
  <1>3. table[parts.efi] \in Part /\ table[parts.root] \in Part
    BY <1>2 DEF TypeOK, Taken
  <1>4. /\ table[parts.efi].last \in Int /\ table[parts.efi].first \in Int
        /\ table[parts.root].last \in Int /\ table[parts.root].first \in Int
        /\ plan[1] \in Int /\ plan[2] \in Int
    BY <1>3 DEF Part, Units, TypeOK
  <1>5. /\ plan[2] - plan[1] + 1 >= MinSize
        /\ table[parts.efi].last = table[parts.efi].first
        /\ table[parts.root].last - table[parts.root].first = plan[2] - plan[1] - 1
    BY DEF Planned, Sized
  <1>6. table[parts.root].last # table[parts.root].first
    BY <1>4, <1>5, PartitioningAssumption
  <1> QED BY <1>5, <1>6

\* Every call between the wipe and the hand-over leaves the file systems and
\* the mounts the next one relies on.
LEMMA FormattedNext == IInv /\ [Next]_vars => Formatted'
  <1> SUFFICES ASSUME IInv, [Next]_vars PROVE Formatted'
    OBVIOUS
  <1>0. TypeOK /\ Planned /\ Sized /\ Formatted
    BY DEF IInv
  <1>1. CASE pc' \notin {"mkfs"} \cup RootMade
    BY <1>1 DEF Formatted, RootMade, EspMade
  <1>g. /\ pc \in Recorded => /\ parts.efi \in Slots /\ table[parts.efi] # NoPart
                              /\ parts.root \in Slots /\ table[parts.root] # NoPart
                              /\ parts.efi # parts.root
        /\ pc \in {"mkfs"} \cup RootMade => RootDevice = parts.root
        /\ table \in TableType
    BY <1>0, GivenParts, DifferentParts DEF TypeOK, TableType
  <1>2. CASE WipeRoot
    <2>1. mapper' = mapper /\ parts' = parts /\ encrypt' = encrypt
      BY <1>2 DEF WipeRoot, Write, Failed, host, shell
    <2>2. pc' = "release" \/ (pc' = IF encrypt THEN "luks" ELSE "mkfs")
      BY <1>2 DEF WipeRoot, Write, Failed, Then, Goto
    <2> QED BY <2>1, <2>2 DEF Formatted, RootMade, EspMade
  <1>3. CASE LuksOpen
    <2>1. pc' \in {"release", "mkfs"} /\ (pc' = "mkfs" => mapper' = parts.root \/ Failed) /\ parts' = parts
      BY <1>3 DEF LuksOpen, Failed, Then, Goto, shell
    <2>2. Failed => pc' = "release"
      BY DEF Failed, Goto
    <2> QED BY <2>1, <2>2 DEF Formatted, RootMade, EspMade
  <1>4. CASE MakeRoot
    <2>1. Write("mkfs", parts.root, "btrfs", "mount_tmp") /\ pc = "mkfs"
      BY <1>4, <1>g DEF MakeRoot, Write
    <2>2. CASE pc' = "release"
      BY <2>2 DEF Formatted, RootMade, EspMade
    <2>3. CASE pc' # "release"
      <3>1. /\ table' = [table EXCEPT ![parts.root].fs = "btrfs"] /\ pc' = "mount_tmp"
            /\ UNCHANGED <<host, shell>>
        BY <2>1, <2>3 DEF Write, Failed, Then, Goto
      <3>2. table'[parts.root].fs = "btrfs"
        BY <1>g, <2>1, <3>1, WrittenTable DEF Recorded
      <3> QED BY <1>0, <2>1, <3>1, <3>2 DEF Formatted, EspMade, host, shell
    <2> QED BY <2>2, <2>3
  <1>5. CASE MakeEsp
    <2>1. Write("mkfs_esp", parts.efi, "vfat", "mount_esp") /\ pc = "mkfs_esp"
      BY <1>5 DEF MakeEsp, Write
    <2>2. CASE pc' = "release"
      BY <2>2 DEF Formatted, RootMade, EspMade
    <2>3. CASE pc' # "release"
      <3>1. /\ table' = [table EXCEPT ![parts.efi].fs = "vfat"] /\ pc' = "mount_esp"
            /\ UNCHANGED <<host, shell>>
        BY <2>1, <2>3 DEF Write, Failed, Then, Goto
      <3>2. table'[parts.efi].fs = "vfat" /\ table'[parts.root] = table[parts.root]
        BY <1>g, <2>1, <3>1, WrittenTable DEF Recorded
      <3>3. table[parts.root].fs = "btrfs" /\ (encrypt => mapper = parts.root)
        BY <1>0, <2>1 DEF Formatted, RootMade
      <3> QED BY <3>1, <3>2, <3>3 DEF Formatted, host, shell
    <2> QED BY <2>2, <2>3
  <1>6. ASSUME table' = table, mapper' = mapper, UNCHANGED shell, pc \in {"mkfs"} \cup RootMade,
               pc' \in RootMade => pc \in RootMade, pc' \in EspMade => pc \in EspMade
        PROVE  Formatted'
    BY <1>0, <1>6 DEF Formatted, RootMade, EspMade, shell
  <1>7. CASE MountTmp \/ MountRoot \/ MountEsp
    BY <1>1, <1>6, <1>7 DEF MountTmp, MountRoot, MountEsp, Mount, Failed, Then, Goto, disk, host, RootMade, EspMade
  <1>8. CASE Subvolumes \/ UmountTmp \/ Check
    BY <1>1, <1>6, <1>8 DEF Subvolumes, UmountTmp, Check, Then, Goto, disk, host, RootMade, EspMade
  <1>9. CASE UNCHANGED vars
    BY <1>0, <1>9 DEF Formatted, vars, disk, host, shell
  <1>10. CASE Start \/ Decide \/ PartitionTool \/ Before \/ After
    BY <1>1, <1>10 DEF Start, Decide, PartitionTool, Before, After, Failed, Goto, RootMade
  <1>11. CASE Mklabel \/ Mkpart \/ Record
    BY <1>1, <1>11 DEF Mklabel, Mkpart, Record, Failed, Then, Goto, RootMade
  <1>12. CASE Flag \/ WipeEfi \/ LuksFormat
    BY <1>1, <1>12 DEF Flag, WipeEfi, LuksFormat, Write, Failed, Then, Goto, RootMade
  <1>13. CASE Install \/ UmountTarget \/ ReleaseTmp \/ CloseMapper \/ Rollback \/ Abort \/ Stop
    BY <1>1, <1>13 DEF Install, UmountTarget, ReleaseTmp, CloseMapper, Rollback, Abort, Stop, Goto, Over, RootMade
  <1> QED
    BY <1>2, <1>3, <1>4, <1>5, <1>7, <1>8, <1>9, <1>10, <1>11, <1>12, <1>13 DEF Next, Rest

\* The last two mounts of an attempt are its root and, on it, its ESP.
LEMMA StackedNext == IInv /\ [Next]_vars => Stacked'
  <1> SUFFICES ASSUME IInv, [Next]_vars PROVE Stacked'
    OBVIOUS
  <1>0. TypeOK /\ Formatted /\ Stacked
    BY DEF IInv
  <1> DEFINE On == {"mkfs_esp", "mount_esp", "check", "install"}
  <1>1. CASE pc' \notin On
    BY <1>1 DEF Stacked
  <1>2. mounts \in Seq(MountType) /\ Len(mounts) \in Nat
    BY <1>0 DEF TypeOK, MountType
  <1>3. CASE MountRoot
    <2>1. CASE pc' = "mkfs_esp"
      <3>1. RootDevice = parts.root /\ parts.root \in Slots
        BY <1>0, <1>3, GivenParts DEF MountRoot, Mount, RootMade, Recorded
      <3>2. mounts' = Append(mounts, [at |-> "root", dev |-> parts.root]) /\ parts' = parts
        BY <1>3, <2>1, <3>1 DEF MountRoot, Mount, Failed, Goto, shell
      <3> QED BY <1>2, <2>1, <3>2 DEF Stacked
    <2>2. CASE pc' = "release"
      BY <1>1, <2>2
    <2> QED BY <1>3, <2>1, <2>2 DEF MountRoot, Mount, Failed, Then, Goto
  <1>4. CASE MountEsp
    <2>1. CASE pc' = "check"
      <3>1. mounts' = Append(mounts, [at |-> "esp", dev |-> parts.efi]) /\ parts' = parts
        BY <1>4, <2>1 DEF MountEsp, Mount, Failed, Goto, shell
      <3>2. Len(mounts) > 0 /\ mounts[Len(mounts)] = [at |-> "root", dev |-> parts.root]
        BY <1>0, <1>4 DEF MountEsp, Mount, Stacked
      <3>3. /\ Len(mounts') = Len(mounts) + 1
            /\ mounts'[Len(mounts) + 1] = [at |-> "esp", dev |-> parts.efi]
            /\ mounts'[Len(mounts)] = mounts[Len(mounts)]
        BY <1>2, <3>1, <3>2
      <3>4. Len(mounts') > 1 /\ Len(mounts') - 1 = Len(mounts) /\ Len(mounts') = Len(mounts) + 1
        BY <1>2, <3>2, <3>3
      <3> QED BY <2>1, <3>1, <3>2, <3>3, <3>4 DEF Stacked
    <2>2. CASE pc' = "release"
      BY <1>1, <2>2
    <2> QED BY <1>4, <2>1, <2>2 DEF MountEsp, Mount, Failed, Then, Goto
  <1>5. CASE MakeEsp
    BY <1>0, <1>5 DEF MakeEsp, Write, Failed, Then, Goto, Stacked, host, shell
  <1>6. CASE Check
    BY <1>0, <1>6 DEF Check, Goto, Stacked, host, shell
  <1>7. CASE UNCHANGED vars
    BY <1>0, <1>7 DEF Stacked, vars, host, shell
  <1>8. CASE Start \/ Decide \/ PartitionTool \/ Before \/ After
    BY <1>1, <1>8 DEF Start, Decide, PartitionTool, Before, After, Failed, Goto
  <1>9. CASE Mklabel \/ Mkpart \/ Record
    BY <1>1, <1>9 DEF Mklabel, Mkpart, Record, Failed, Then, Goto
  <1>10. CASE Flag \/ WipeEfi \/ WipeRoot \/ LuksFormat \/ LuksOpen \/ MakeRoot
    BY <1>1, <1>10 DEF Flag, WipeEfi, WipeRoot, LuksFormat, LuksOpen, MakeRoot, Write, Failed, Then, Goto
  <1>11. CASE MountTmp \/ Subvolumes \/ UmountTmp
    BY <1>1, <1>11 DEF MountTmp, Mount, Subvolumes, UmountTmp, Failed, Then, Goto
  <1>12. CASE Install \/ UmountTarget \/ ReleaseTmp \/ CloseMapper \/ Rollback \/ Abort \/ Stop
    BY <1>1, <1>12 DEF Install, UmountTarget, ReleaseTmp, CloseMapper, Rollback, Abort, Stop, Goto, Over
  <1> QED
    BY <1>3, <1>4, <1>5, <1>6, <1>7, <1>8, <1>9, <1>10, <1>11, <1>12 DEF Next, Rest

\* As long as the table is read as it is, the partitions an attempt records are
\* its own.
LEMMA OwnNext == IInv /\ [Next]_vars => Own'
  <1> SUFFICES ASSUME IInv, [Next]_vars, ReadRight PROVE Own'
    BY SameFaults DEF Own, ReadRight
  <1>0. TypeOK /\ Planned /\ Own /\ created \subseteq Slots
    BY DEF IInv, TypeOK
  <1>1. ASSUME pc # "over", pc' \notin {"mklabel", "mkpart", "after", "size"},
               \A n \in created' : n \in created /\ table'[n].by = table[n].by, attempt' = attempt
        PROVE  Own'
    BY <1>0, <1>1 DEF Own
  <1>2. CASE Start
    BY <1>2 DEF Start, Own
  <1>3. CASE Decide
    <2>1. pc' = "before" /\ pc = "picker"
      BY <1>3 DEF Decide, Goto, ReadRight
    <2>2. created' = created /\ table' = table /\ attempt' = attempt
      BY <1>3 DEF Decide, disk, Goto
    <2> QED BY <1>1, <2>1, <2>2
  <1>4. CASE PartitionTool
    <2>1. created' = {} /\ pc' = "picker" /\ attempt' = attempt
      BY <1>0, <1>4 DEF PartitionTool, Goto, shell, Planned
    <2> QED BY <2>1 DEF Own
  <1>5. CASE Mklabel
    BY <1>0, <1>5 DEF Mklabel, Own
  <1>6. CASE Before
    <2>1. /\ pc' = "mkpart" /\ before' = Taken /\ table' = table /\ created' = created /\ attempt' = attempt
          /\ pc = "before"
      BY <1>6 DEF Before, Goto, disk, ReadRight
    <2> QED BY <1>0, <2>1 DEF Own, Taken
  <1>7. CASE Mkpart
    <2>1. CASE Failed
      <3>1. pc = "mkpart" /\ pc' = "release" /\ table' = table /\ created' = created /\ attempt' = attempt
        BY <1>7, <2>1 DEF Mkpart, Failed, Goto, disk, shell
      <3> QED BY <1>1, <3>1
    <2>2. CASE ~ Failed
      <3>1. PICK s \in Slots \ Taken :
              table' = [table EXCEPT ![s] =
                [first |-> Region(role)[1], last |-> Region(role)[2], by |-> attempt, fs |-> "old"]]
        BY <1>7, <2>2 DEF Mkpart
      <3>2. /\ pc = "mkpart" /\ pc' \in {"after", "release"} /\ attempt' = attempt
            /\ before' = before /\ created' = created
        BY <1>7, <2>2 DEF Mkpart, Goto, shell
      <3>3. table \in [Slots -> Part \cup {NoPart}]
        BY <1>0 DEF TypeOK
      <3>4. table'[s].by = attempt /\ \A n \in Slots : n # s => table'[n] = table[n]
        BY <3>1, <3>3
      <3>5. before = Taken /\ created \subseteq Taken
        BY <1>0, <3>2 DEF Own, TypeOK
      <3>6. \A n \in Taken' \ before : table'[n].by = attempt
        BY <3>4, <3>5 DEF Taken
      <3>7. \A n \in created : table'[n].by = attempt
        BY <1>0, <3>2, <3>4, <3>5 DEF Own
      <3> QED BY <3>2, <3>6, <3>7 DEF Own
    <2> QED BY <2>1, <2>2
  <1>8. CASE After
    <2>1. CASE Failed
      <3>1. pc = "after" /\ pc' = "release" /\ table' = table /\ created' = created /\ attempt' = attempt
        BY <1>8, <2>1 DEF After, Failed, Goto, disk, shell
      <3> QED BY <1>1, <3>1
    <2>2. CASE ~ Failed
      <3>1. /\ num' \in Taken \ before /\ pc = "after" /\ pc' = "size"
            /\ table' = table /\ created' = created /\ attempt' = attempt
        BY <1>8, <2>2 DEF After, Goto, disk
      <3> QED BY <1>0, <3>1 DEF Own
    <2> QED BY <2>1, <2>2
  <1>9. CASE Record
    <2>1. pc = "size" /\ pc' \in {"release", "before", "flag"} /\ table' = table /\ attempt' = attempt
      BY <1>9 DEF Record, Failed, Goto, disk
    <2>2. created' \subseteq created \cup {num}
      BY <1>9 DEF Record, Failed, shell
    <2>3. \A n \in created' : table'[n].by = attempt
      BY <1>0, <2>1, <2>2 DEF Own
    <2> QED BY <2>1, <2>3 DEF Own
  <1>10. CASE WipeEfi \/ WipeRoot \/ LuksFormat \/ MakeRoot \/ MakeEsp
    <2>1. /\ pc \in Recorded /\ created' = created /\ attempt' = attempt
          /\ pc' \in {"wipe_root", "luks", "mkfs", "open", "mount_tmp", "mount_esp", "release"}
      BY <1>10 DEF WipeEfi, WipeRoot, LuksFormat, MakeRoot, MakeEsp, Write, Failed, Then, Goto, shell, Recorded
    <2>2. CASE pc' \in Recorded
      <3>1. \A n \in created : table'[n].by = table[n].by
        BY <2>1, <2>2, SizesNext
      <3> QED BY <1>1, <2>1, <3>1 DEF Recorded
    <2>3. CASE pc' = "release"
      <3>1. \A n \in created : table'[n].by = table[n].by
        <4>1. CASE table' = table
          BY <4>1
        <4>2. CASE table' # table
          <5>1. /\ parts.efi \in Slots /\ table[parts.efi] # NoPart
                /\ parts.root \in Slots /\ table[parts.root] # NoPart
                /\ MakeRoot => RootDevice = parts.root
            BY <2>1, GivenParts DEF IInv, MakeRoot, Write
          <5>2. PICK s \in Slots, fs \in {"old", "wiped", "luks", "btrfs", "vfat"} :
                  table[s] # NoPart /\ table' = [table EXCEPT ![s].fs = fs]
            BY <1>10, <4>2, <5>1 DEF WipeEfi, WipeRoot, LuksFormat, MakeRoot, MakeEsp, Write, Failed, disk
          <5>3. table \in TableType
            BY <1>0 DEF TypeOK, TableType
          <5> QED BY <1>0, <5>2, <5>3, WrittenTable
        <4> QED BY <4>1, <4>2
      <3> QED BY <1>1, <2>1, <2>3, <3>1 DEF Recorded
    <2> QED BY <2>1, <2>2, <2>3 DEF Recorded
  <1>11. CASE Flag \/ LuksOpen \/ MountTmp \/ Subvolumes \/ UmountTmp \/ MountRoot \/ MountEsp \/ Check
    <2>1. table' = table /\ created' = created /\ attempt' = attempt /\ pc # "over"
      BY <1>11 DEF Flag, LuksOpen, MountTmp, Subvolumes, UmountTmp, MountRoot, MountEsp, Mount, Check,
        Failed, Then, Goto, disk, shell
    <2>2. pc' \notin {"mklabel", "mkpart", "after", "size"}
      BY <1>11 DEF Flag, LuksOpen, MountTmp, Subvolumes, UmountTmp, MountRoot, MountEsp, Mount, Check,
        Failed, Then, Goto
    <2> QED BY <1>1, <2>1, <2>2
  <1>12. CASE Install \/ UmountTarget \/ ReleaseTmp \/ CloseMapper \/ Abort \/ Stop
    <2>1. table' = table /\ created' = created /\ attempt' = attempt /\ pc # "over"
      BY <1>12 DEF Install, UmountTarget, ReleaseTmp, CloseMapper, Abort, Stop, Goto, Over, disk, shell
    <2>2. pc' \notin {"mklabel", "mkpart", "after", "size"}
      BY <1>12 DEF Install, UmountTarget, ReleaseTmp, CloseMapper, Abort, Stop, Goto, Over
    <2> QED BY <1>1, <2>1, <2>2
  <1>13. CASE Rollback
    <2>1. PICK n \in created :
            /\ table' = [table EXCEPT ![n] = IF InUse(n) THEN table[n] ELSE NoPart]
            /\ created' = created \ {n}
      BY <1>13 DEF Rollback
    <2>2. pc = "rollback" /\ pc' = "rollback" /\ attempt' = attempt
      BY <1>13 DEF Rollback, Goto
    <2>3. \A m \in created' : m \in created /\ table'[m].by = table[m].by
      BY <1>0, <2>1 DEF TypeOK
    <2> QED BY <1>1, <2>2, <2>3
  <1>14. CASE UNCHANGED vars
    BY <1>0, <1>14 DEF vars, disk, shell, Own, Taken
  <1> QED
    BY <1>2, <1>3, <1>4, <1>5, <1>6, <1>7, <1>8, <1>9, <1>10, <1>11, <1>12, <1>13, <1>14 DEF Next, Rest

-----------------------------------------------------------------------------
\* The inductive invariant.
THEOREM InductiveInvariant == Spec => []IInv
  <1>1. IInv /\ [Next]_vars => IInv'
    BY TypeNext, PlannedNext, SizedNext, FormattedNext, StackedNext, OwnNext DEF IInv
  <1> QED BY InitIInv, <1>1, PTL DEF Spec

\* Type correctness: created_parts, efi_part_num and root_part_num name
\* partitions that exist whenever a command of disk-partitioning.sh or of the
\* configurator is given them.
THEOREM TypeCorrect == Spec => []TypeOK
  <1>1. IInv => TypeOK
    BY DEF IInv
  <1> QED BY InductiveInvariant, <1>1, PTL

\* run_partition_execute starts the installer on a root and an ESP of its own,
\* both formatted by this attempt and mounted last, whatever was left mounted
\* or open, whatever commands failed and whatever parted could not read.
THEOREM HandoffSound == Spec => []HandoffMounted
  <1>1. IInv => HandoffMounted
    <2> SUFFICES ASSUME IInv, pc = "install" PROVE HandoffMounted
      BY DEF HandoffMounted
    <2>1. parts.efi # parts.root
      BY DifferentParts DEF IInv, Recorded
    <2>2. Formatted /\ Stacked
      BY DEF IInv
    <2> QED BY <2>1, <2>2 DEF HandoffMounted, Formatted, Stacked, RootMade, EspMade
  <1> QED BY InductiveInvariant, <1>1, PTL

\* As long as lsblk and parted read the table as it is, no command of
\* create_partition, run_partition_execute or disk_abort_hook changes a
\* partition that the attempt did not make.
THEOREM OthersSafe == Spec => OthersKept
  <1> DEFINE A == \A s \in Slots :
                    ReadRight /\ pc # "picker" /\ table[s] # NoPart /\ table[s].by # attempt => table'[s] = table[s]
  <1>1. IInv /\ [Next]_vars => [A]_vars
    <2> SUFFICES ASSUME IInv, [Next]_vars,
                        NEW s \in Slots, ReadRight, pc # "picker", table[s] # NoPart, table[s].by # attempt
                 PROVE  table'[s] = table[s]
      OBVIOUS
    <2>0. TypeOK /\ Formatted /\ Own /\ table \in [Slots -> Part \cup {NoPart}]
      BY DEF IInv, TypeOK
    <2>1. CASE Mklabel
      BY <2>0, <2>1 DEF Own, Mklabel
    <2>2. CASE Mkpart
      <3>1. CASE table' # table
        <4>1. PICK n \in Slots \ Taken : \A m \in Slots : m # n => table'[m] = table[m]
          BY <2>0, <2>2, <3>1 DEF Mkpart, Failed, disk
        <4> QED BY <4>1 DEF Taken
      <3> QED BY <3>1
    <2>3. CASE WipeEfi \/ WipeRoot \/ LuksFormat \/ MakeRoot \/ MakeEsp
      <3>1. pc \in Recorded /\ pc # "over" /\ (MakeRoot => pc = "mkfs")
        BY <2>3 DEF WipeEfi, WipeRoot, LuksFormat, MakeRoot, MakeEsp, Write, Recorded
      <3>2. parts.efi \in created /\ parts.root \in created /\ (MakeRoot => RootDevice = parts.root)
        BY <2>0, <3>1, GivenParts DEF TypeOK
      <3>3. s # parts.efi /\ s # parts.root
        BY <2>0, <3>1, <3>2 DEF Own
      <3>4. CASE table' # table
        <4>1. PICK n \in {parts.efi, parts.root} : \A m \in Slots : m # n => table'[m] = table[m]
          BY <2>0, <2>3, <3>2, <3>4 DEF WipeEfi, WipeRoot, LuksFormat, MakeRoot, MakeEsp, Write, Failed, disk
        <4> QED BY <3>3, <4>1
      <3> QED BY <3>4
    <2>4. CASE Rollback
      <3>1. PICK n \in created : table' = [table EXCEPT ![n] = IF InUse(n) THEN table[n] ELSE NoPart]
        BY <2>4 DEF Rollback
      <3>2. s # n
        BY <2>0, <2>4, <3>1 DEF Own, Rollback
      <3> QED BY <2>0, <3>1, <3>2
    <2>5. CASE Start \/ Decide \/ Before \/ After \/ Record \/ Flag \/ LuksOpen \/ MountTmp \/ Subvolumes \/ UmountTmp
               \/ MountRoot \/ MountEsp \/ Check \/ Install \/ UmountTarget \/ ReleaseTmp \/ CloseMapper \/ Abort
               \/ Stop \/ UNCHANGED vars
      <3>1. table' = table
        BY <2>5 DEF Start, Decide, Before, After, Record, Flag, LuksOpen, MountTmp, Subvolumes, UmountTmp, MountRoot,
          MountEsp, Mount, Check, Install, UmountTarget, ReleaseTmp, CloseMapper, Abort, Stop, Failed, disk, vars
      <3> QED BY <3>1
    <2>6. ~ PartitionTool
      BY DEF PartitionTool
    <2> QED BY <2>1, <2>2, <2>3, <2>4, <2>5, <2>6 DEF Next, Rest
  <1> QED BY InductiveInvariant, <1>1, PTL DEF Spec, OthersKept

-----------------------------------------------------------------------------
(* disk_abort_hook undoes the layout                                       *)

OwnParts == {s \in Taken : table[s].by = attempt}

\* No attempt to come has made a partition, and what is mounted exists.
Past == \A s \in Taken : table[s].by <= attempt
MountedTaken == \A i \in 1 .. Len(mounts) : mounts[i].dev \in Taken

\* How the mounts of this attempt lie on those that earlier attempts have left:
\* there are none, the temporary one is the last, or the root is the last root.
Others(i) == mounts[i].dev \notin created
Bare == \A i \in 1 .. Len(mounts) : Others(i)
TmpOnTop ==
  /\ Len(mounts) > 0 /\ mounts[Len(mounts)].at = "tmp"
  /\ \A i \in 1 .. Len(mounts) - 1 : Others(i)
RootOnTop ==
  \E k \in 1 .. Len(mounts) :
    /\ mounts[k].at = "root"
    /\ \A i \in 1 .. k - 1 : Others(i)
    /\ \A j \in k + 1 .. Len(mounts) : mounts[j].at # "root"

\* A partition that was made and not recorded yet.
Unrecorded(n) ==
  /\ n \in Taken /\ HasSize(n, role)
  /\ OwnParts \subseteq created \cup {n}
  /\ \A i \in 1 .. Len(mounts) : mounts[i].dev # n

\* created_parts lists what the attempt has made.
Listed ==
  /\ pc \notin {"over", "after", "size"} => OwnParts \subseteq created
  /\ pc = "after" => \E n \in Taken : Taken \ before = {n} /\ Unrecorded(n)
  /\ pc = "size" => Unrecorded(num)

\* Before an attempt mounts anything.
Early == {"picker", "mklabel", "before", "mkpart", "after", "size", "flag", "wipe_efi", "wipe_root", "luks", "open",
          "mkfs", "mount_tmp"}

Laid ==
  /\ pc \in Early \cup {"mount_root", "close", "rollback"} => Bare
  /\ pc \in {"subvolumes", "umount_tmp"} => TmpOnTop
  /\ pc \in {"mkfs_esp", "mount_esp", "check"} => RootOnTop
  /\ pc = "release" => Bare \/ TmpOnTop \/ RootOnTop
  /\ pc = "release_tmp" => Bare \/ TmpOnTop
  /\ pc = "rollback" => mapper \notin created

\* Without the rarer failures.
UndoInv == faults = {} => Past /\ MountedTaken /\ Listed /\ Laid /\ HalfBuiltUndone

\* Nothing was made, mounted or undone yet.
LEMMA InitUndo == Init => UndoInv
  <1> SUFFICES ASSUME Init PROVE UndoInv
    OBVIOUS
  <1>1. Past
    BY PartitioningAssumption DEF Init, Past, Taken
  <1>2. MountedTaken
    BY DEF Init, MountedTaken
  <1>3. Listed /\ Laid
    BY DEF Init, Listed, Laid, Early
  <1>4. HalfBuiltUndone
    BY DEF Init, HalfBuiltUndone
  <1> QED BY <1>1, <1>2, <1>3, <1>4 DEF UndoInv

\* What a step does to the table: it makes one partition that asks for its
\* region, deletes one that is not in use, or leaves the table's layout.
Made ==
  /\ pc = "mkpart" /\ pc' = "after" /\ UNCHANGED <<attempt, host, shell>>
  /\ \E s \in Slots \ Taken :
       /\ Taken' = Taken \cup {s}
       /\ \A n \in Taken : table'[n] = table[n]
       /\ table'[s].by = attempt
       /\ table'[s].last - table'[s].first = Region(role)[2] - Region(role)[1]
Deleted ==
  /\ pc = "picker" /\ pc' = "picker" /\ UNCHANGED <<attempt, host, shell>>
  /\ \E s \in Taken : ~ InUse(s) /\ Taken' = Taken \ {s} /\ \A n \in Taken' : table'[n] = table[n]
RolledBack ==
  /\ pc = "rollback" /\ pc' = "rollback" /\ UNCHANGED <<attempt, host>>
  /\ \E n \in created :
       /\ created' = created \ {n}
       /\ \/ InUse(n) /\ table' = table
          \/ ~ InUse(n) /\ Taken' = Taken \ {n} /\ \A m \in Taken' : table'[m] = table[m]
Kept ==
  /\ Taken' = Taken
  /\ \A n \in Taken : table'[n].by = table[n].by

\* What a step of a session without the rarer faults may do to the table: make one
\* partition, delete some, roll back one of the attempt's, or keep them all.
LEMMA TableMoves ==
  ASSUME IInv, [Next]_vars, faults = {}
  PROVE  Made \/ Deleted \/ RolledBack \/ Kept
  <1>0. TypeOK /\ Own /\ Formatted /\ table \in TableType /\ ReadRight
    BY DEF IInv, TypeOK, TableType, ReadRight
  <1>s. ASSUME NEW s \in Slots, table' = [table EXCEPT ![s] = NoPart]
        PROVE  Taken' = Taken \ {s} /\ \A n \in Taken' : table'[n] = table[n]
    <2>1. table'[s] = NoPart /\ \A n \in Slots : n # s => table'[n] = table[n]
      BY <1>0, <1>s DEF TableType
    <2> QED BY <2>1 DEF Taken
  <1>1. CASE table' = table
    BY <1>1 DEF Kept, Taken
  <1>2. CASE PartitionTool
    <2>1. PICK s \in Taken : ~ InUse(s) /\ table' = [table EXCEPT ![s] = NoPart]
      BY <1>2 DEF PartitionTool
    <2>2. Taken' = Taken \ {s} /\ \A n \in Taken' : table'[n] = table[n]
      BY <1>s, <2>1 DEF Taken
    <2> QED BY <1>2, <2>1, <2>2 DEF PartitionTool, Goto, Deleted
  <1>3. CASE Mklabel
    BY <1>0, <1>3 DEF Own, Mklabel
  <1>4. CASE Mkpart /\ table' # table
    <2>1. PICK s \in Slots \ Taken :
            table' = [table EXCEPT ![s] =
              [first |-> Region(role)[1], last |-> Region(role)[2], by |-> attempt, fs |-> "old"]]
      BY <1>4 DEF Mkpart, Failed, disk
    <2>2. pc = "mkpart" /\ pc' = "after" /\ UNCHANGED <<attempt, host, shell>>
      BY <1>4 DEF Mkpart, Failed, Goto, disk
    <2> DEFINE p == [first |-> Region(role)[1], last |-> Region(role)[2], by |-> attempt, fs |-> "old"]
    <2>3. table'[s] = p /\ \A n \in Slots : n # s => table'[n] = table[n]
      BY <1>0, <2>1 DEF TableType
    <2>4. p # NoPart
      BY <1>0, PartitioningAssumption DEF NoPart, TypeOK
    <2>5. Taken' = Taken \cup {s}
      BY <2>3, <2>4 DEF Taken
    <2>6. \A n \in Taken : table'[n] = table[n]
      BY <2>3 DEF Taken
    <2> QED BY <2>2, <2>3, <2>5, <2>6 DEF Made
  <1>5. CASE (WipeEfi \/ WipeRoot \/ LuksFormat \/ MakeRoot \/ MakeEsp) /\ table' # table
    <2>1. pc \in Recorded /\ (MakeRoot => pc = "mkfs")
      BY <1>5 DEF WipeEfi, WipeRoot, LuksFormat, MakeRoot, MakeEsp, Write, Recorded
    <2>2. /\ parts.efi \in Slots /\ table[parts.efi] # NoPart
          /\ parts.root \in Slots /\ table[parts.root] # NoPart
          /\ MakeRoot => RootDevice = parts.root
      BY <1>0, <2>1, GivenParts
    <2>3. PICK s \in Slots, fs \in {"old", "wiped", "luks", "btrfs", "vfat"} :
            table[s] # NoPart /\ table' = [table EXCEPT ![s].fs = fs]
      BY <1>5, <2>2 DEF WipeEfi, WipeRoot, LuksFormat, MakeRoot, MakeEsp, Write, Failed, disk
    <2>4. /\ Taken' = Taken
          /\ \A n \in Slots : n # s => table'[n] = table[n]
          /\ table'[s].by = table[s].by
      BY <1>0, <2>3, WrittenTable
    <2> QED BY <2>4 DEF Kept, Taken
  <1>6. CASE Rollback
    <2>1. PICK n \in created :
            /\ table' = [table EXCEPT ![n] = IF InUse(n) THEN table[n] ELSE NoPart]
            /\ created' = created \ {n}
      BY <1>6 DEF Rollback
    <2>2. n \in Slots
      BY <1>0 DEF TypeOK
    <2>3. CASE InUse(n)
      <3>1. table' = table
        BY <1>0, <2>1, <2>2, <2>3 DEF TableType
      <3> QED BY <1>6, <2>1, <2>3, <3>1 DEF Rollback, Goto, RolledBack
    <2>4. CASE ~ InUse(n)
      <3>1. Taken' = Taken \ {n} /\ \A m \in Taken' : table'[m] = table[m]
        BY <1>s, <2>1, <2>2, <2>4
      <3> QED BY <1>6, <2>1, <2>4, <3>1 DEF Rollback, Goto, RolledBack
    <2> QED BY <2>3, <2>4
  <1>7. CASE Start \/ Decide \/ Before \/ After \/ Record \/ Flag \/ LuksOpen \/ MountTmp \/ Subvolumes \/ UmountTmp
             \/ MountRoot \/ MountEsp \/ Check \/ Install \/ UmountTarget \/ ReleaseTmp \/ CloseMapper \/ Abort
             \/ Stop \/ UNCHANGED vars
    <2>1. table' = table
      BY <1>7 DEF Start, Decide, Before, After, Record, Flag, LuksOpen, MountTmp, Subvolumes, UmountTmp, MountRoot,
        MountEsp, Mount, Check, Install, UmountTarget, ReleaseTmp, CloseMapper, Abort, Stop, Failed, disk, vars
    <2> QED BY <1>1, <2>1
  <1> QED BY <1>1, <1>2, <1>3, <1>4, <1>5, <1>6, <1>7 DEF Next, Rest

\* Every partition was made by an attempt that has begun.
LEMMA PastNext ==
  ASSUME IInv, [Next]_vars, faults = {}, Past
  PROVE  Past'
  <1>1. attempt \in Nat /\ attempt' \in {attempt, attempt + 1}
    <2>1. attempt \in Nat
      BY PartitioningAssumption DEF IInv, TypeOK
    <2>2. attempt' \in {attempt, attempt + 1}
      <3>1. CASE Start \/ Decide \/ PartitionTool \/ Mklabel \/ Before \/ Mkpart \/ After \/ Record \/ Flag
        BY <3>1 DEF Start, Decide, PartitionTool, Mklabel, Before, Mkpart, After, Record, Flag, Failed, Then, Goto
      <3>2. CASE WipeEfi \/ WipeRoot \/ LuksFormat \/ LuksOpen \/ MakeRoot \/ MountTmp \/ Subvolumes \/ UmountTmp
        BY <3>2 DEF WipeEfi, WipeRoot, LuksFormat, LuksOpen, MakeRoot, MountTmp, Subvolumes, UmountTmp, Write, Mount,
          Failed, Then, Goto
      <3>3. CASE MountRoot \/ MakeEsp \/ MountEsp \/ Check \/ Install
        BY <3>3 DEF MountRoot, MakeEsp, MountEsp, Check, Install, Write, Mount, Failed, Then, Goto, Over
      <3>4. CASE UmountTarget \/ ReleaseTmp \/ CloseMapper \/ Rollback \/ Abort \/ Stop
        BY <3>4 DEF UmountTarget, ReleaseTmp, CloseMapper, Rollback, Abort, Stop, Goto, Over
      <3>5. CASE Rest \/ UNCHANGED vars
        BY <3>5 DEF Rest, vars
      <3> QED BY <3>1, <3>2, <3>3, <3>4, <3>5 DEF Next
    <2> QED BY <2>1, <2>2
  <1>2. \A n \in Taken : table[n].by \in Nat
    <2> SUFFICES ASSUME NEW n \in Taken PROVE table[n].by \in Nat
      OBVIOUS
    <2>1. table[n] \in Part
      BY DEF IInv, TypeOK, Taken
    <2> QED BY <2>1, PartitioningAssumption DEF Part
  <1>3. \A n \in Taken : table[n].by <= attempt'
    BY <1>1, <1>2 DEF Past
  <1>4. CASE Made
    BY <1>1, <1>3, <1>4 DEF Made, Past
  <1>5. CASE Deleted
    BY <1>3, <1>5 DEF Deleted, Past
  <1>6. CASE RolledBack
    BY <1>3, <1>6 DEF RolledBack, Past, Taken
  <1>7. CASE Kept
    BY <1>3, <1>7 DEF Kept, Past
  <1> QED BY <1>4, <1>5, <1>6, <1>7, TableMoves

\* What a step does to the mounts: it mounts a partition of the attempt, or
\* takes some off the top.
LEMMA MountMoves ==
  ASSUME IInv, [Next]_vars
  PROVE  \/ UNCHANGED mounts
         \/ \E point \in {"tmp", "root", "esp"}, dev \in created :
              mounts' = Append(mounts, [at |-> point, dev |-> dev]) /\ UNCHANGED table
         \/ (\E j \in 0 .. Len(mounts) : mounts' = SubSeq(mounts, 1, j)) /\ UNCHANGED table
  <1>0. TypeOK /\ Formatted /\ Stacked /\ Len(mounts) \in Nat
    BY DEF IInv, TypeOK
  <1>1. CASE Start \/ Decide \/ PartitionTool \/ Mklabel \/ Before \/ Mkpart \/ After \/ Record \/ Flag
    BY <1>1 DEF Start, Decide, PartitionTool, Mklabel, Before, Mkpart, After, Record, Flag, Failed, host
  <1>2. CASE WipeEfi \/ WipeRoot \/ LuksFormat \/ LuksOpen \/ MakeRoot \/ MakeEsp \/ Subvolumes \/ Check
    BY <1>2 DEF WipeEfi, WipeRoot, LuksFormat, LuksOpen, MakeRoot, MakeEsp, Subvolumes, Check, Write, Failed, host
  <1>3. CASE MountTmp \/ MountRoot \/ MountEsp
    <2>1. pc \in Recorded /\ pc # "over" /\ (MountTmp \/ MountRoot => pc \in RootMade)
      BY <1>3 DEF MountTmp, MountRoot, MountEsp, Mount, Recorded, RootMade
    <2>2. parts.efi \in created /\ parts.root \in created /\ (MountTmp \/ MountRoot => RootDevice = parts.root)
      BY <1>0, <2>1, GivenParts DEF TypeOK
    <2> QED BY <1>3, <2>2 DEF MountTmp, MountRoot, MountEsp, Mount, Failed, disk, host
  <1>4. CASE UmountTmp
    <2>1. CASE Len(mounts) > 0
      BY <1>0, <1>4, <2>1 DEF UmountTmp, disk
    <2>2. CASE Len(mounts) = 0
      <3>1. mounts = <<>>
        BY <1>0, <2>2 DEF TypeOK
      <3>2. SubSeq(mounts, 1, Len(mounts) - 1) = mounts
        BY <2>2, <3>1
      <3> QED BY <1>4, <3>2 DEF UmountTmp
    <2>3. Len(mounts) > 0 \/ Len(mounts) = 0
      BY <1>0
    <2> QED BY <2>1, <2>2, <2>3
  <1>5. CASE Install
    <2>1. Len(mounts) > 1
      BY <1>0, <1>5 DEF Install, Stacked
    <2> QED BY <1>0, <1>5, <2>1 DEF Install, host, disk
  <1>6. CASE UmountTarget
    BY <1>0, <1>6 DEF UmountTarget, UmountRoot, disk
  <1>7. CASE ReleaseTmp
    <2>1. CASE mounts # <<>>
      <3>1. Len(mounts) > 0
        BY <1>0, <2>1 DEF TypeOK
      <3> QED BY <1>0, <1>7, <3>1 DEF ReleaseTmp, disk
    <2>2. CASE mounts = <<>>
      BY <1>7, <2>2 DEF ReleaseTmp
    <2> QED BY <2>1, <2>2
  <1>8. CASE CloseMapper \/ Rollback \/ Abort \/ Stop \/ UNCHANGED vars
    BY <1>8 DEF CloseMapper, Rollback, Abort, Stop, host, vars
  <1> QED BY <1>1, <1>2, <1>3, <1>4, <1>5, <1>6, <1>7, <1>8 DEF Next, Rest

\* A partition that is mounted is not deleted.
LEMMA MountedNext ==
  ASSUME IInv, [Next]_vars, faults = {}, MountedTaken
  PROVE  MountedTaken'
  <1>0. mounts \in Seq(MountType) /\ Len(mounts) \in Nat
    BY DEF IInv, TypeOK, MountType
  <1>1. CASE UNCHANGED mounts
    <2>1. CASE Made
      BY <1>1, <2>1 DEF Made, MountedTaken
    <2>2. CASE Deleted
      BY <1>1, <2>2 DEF Deleted, MountedTaken, InUse
    <2>3. CASE RolledBack
      <3>1. CASE table' = table
        BY <1>1, <3>1 DEF MountedTaken, Taken
      <3>2. CASE table' # table
        BY <1>1, <2>3, <3>2 DEF RolledBack, MountedTaken, InUse
      <3> QED BY <3>1, <3>2
    <2>4. CASE Kept
      BY <1>1, <2>4 DEF Kept, MountedTaken
    <2> QED BY <2>1, <2>2, <2>3, <2>4, TableMoves
  <1>2. ASSUME NEW point \in {"tmp", "root", "esp"}, NEW dev \in created,
               mounts' = Append(mounts, [at |-> point, dev |-> dev]), UNCHANGED table
        PROVE  MountedTaken'
    <2>1. Taken' = Taken
      BY <1>2 DEF Taken
    <2>2. dev \in Taken
      <3>1. pc # "over" \/ UNCHANGED mounts
        BY DEF Next, Start, Decide, PartitionTool, Mklabel, Before, Mkpart, After, Record, Flag, WipeEfi, WipeRoot,
          LuksFormat, LuksOpen, MakeRoot, MountTmp, Subvolumes, UmountTmp, MountRoot, MakeEsp, MountEsp, Check, Mount,
          Write, Install, UmountTarget, ReleaseTmp, CloseMapper, Rollback, Abort, Stop, Rest, vars, host
      <3>2. Len(mounts') = Len(mounts) + 1
        BY <1>0, <1>2
      <3>3. pc # "over"
        BY <1>0, <3>1, <3>2
      <3> QED BY <3>3 DEF IInv, TypeOK
    <2>3. Len(mounts') = Len(mounts) + 1
      BY <1>0, <1>2
    <2>4. \A i \in 1 .. Len(mounts) : mounts'[i] = mounts[i]
      BY <1>0, <1>2
    <2>5. mounts'[Len(mounts) + 1].dev = dev
      BY <1>0, <1>2
    <2> QED BY <1>0, <2>1, <2>2, <2>3, <2>4, <2>5 DEF MountedTaken
  <1>3. ASSUME NEW j \in 0 .. Len(mounts), mounts' = SubSeq(mounts, 1, j), UNCHANGED table
        PROVE  MountedTaken'
    <2>1. Taken' = Taken
      BY <1>3 DEF Taken
    <2>2. Len(mounts') = j /\ \A i \in 1 .. j : mounts'[i] = mounts[i]
      BY <1>0, <1>3
    <2> QED BY <1>0, <2>1, <2>2 DEF MountedTaken
  <1> QED BY <1>1, <1>2, <1>3, MountMoves

\* created_parts lists every partition the attempt has made, but the one it is
\* about to record.
LEMMA ListedNext ==
  ASSUME IInv, [Next]_vars, faults = {}, Past, MountedTaken, Listed, Laid
  PROVE  Listed'
  <1>0. TypeOK /\ Own /\ ReadRight /\ attempt \in Nat
    BY PartitioningAssumption DEF IInv, TypeOK, ReadRight
  <1>1. ASSUME pc \notin {"over", "after", "size"}, pc' \notin {"over", "after", "size"}, UNCHANGED <<attempt, created>>,
               Kept
        PROVE  Listed'
    <2>1. OwnParts' = OwnParts
      BY <1>1 DEF Kept, OwnParts
    <2> QED BY <1>1, <2>1 DEF Listed
  <1>2. CASE pc' = "over"
    BY <1>2 DEF Listed
  <1>3. CASE Start
    <2>1. pc' = "picker" /\ attempt' = attempt + 1 /\ table' = table
      BY <1>3 DEF Start, disk
    <2>2. OwnParts' = {}
      <3> SUFFICES ASSUME NEW s \in Taken, table[s].by = attempt + 1 PROVE FALSE
        BY <2>1 DEF OwnParts, Taken
      <3> QED BY <1>0 DEF Past
    <2> QED BY <2>1, <2>2 DEF Listed
  <1>4. CASE Decide \/ Before \/ Flag \/ LuksOpen \/ MountTmp \/ Subvolumes \/ UmountTmp \/ MountRoot \/ MountEsp \/ Check
             \/ UmountTarget \/ ReleaseTmp \/ CloseMapper
    <2>1. table' = table /\ UNCHANGED <<attempt, created>>
      BY <1>4 DEF Decide, Before, Flag, LuksOpen, MountTmp, Subvolumes, UmountTmp, MountRoot, MountEsp, Mount, Check,
        UmountTarget, ReleaseTmp, CloseMapper, Failed, Then, Goto, disk, shell
    <2>2. pc \notin {"over", "after", "size"} /\ pc' \notin {"over", "after", "size"}
      BY <1>4 DEF Decide, Before, Flag, LuksOpen, MountTmp, Subvolumes, UmountTmp, MountRoot, MountEsp, Mount, Check,
        UmountTarget, ReleaseTmp, CloseMapper, Failed, Then, Goto
    <2> QED BY <1>1, <2>1, <2>2 DEF Kept, Taken
  <1>5. CASE Mklabel
    BY <1>0, <1>5 DEF Own, Mklabel
  <1>6. CASE PartitionTool
    <2>1. Deleted
      <3>1. PICK s \in Taken : ~ InUse(s) /\ table' = [table EXCEPT ![s] = NoPart]
        BY <1>6 DEF PartitionTool
      <3>2. Taken' = Taken \ {s} /\ \A n \in Taken' : table'[n] = table[n]
        BY <1>0, <3>1 DEF TypeOK, Taken
      <3> QED BY <1>6, <3>1, <3>2 DEF PartitionTool, Goto, Deleted
    <2>2. OwnParts' \subseteq OwnParts /\ pc' = "picker" /\ pc = "picker" /\ created' = created
      BY <2>1 DEF Deleted, OwnParts, shell
    <2> QED BY <2>2 DEF Listed
  <1>7. CASE Mkpart
    <2>1. CASE Made
      <3>1. pc = "mkpart" /\ pc' = "after" /\ UNCHANGED <<attempt, created, before, role, mounts, plan>>
        BY <2>1 DEF Made, host, shell
      <3>2. PICK s \in Slots \ Taken :
              /\ Taken' = Taken \cup {s}
              /\ \A n \in Taken : table'[n] = table[n]
              /\ table'[s].by = attempt
              /\ table'[s].last - table'[s].first = Region(role)[2] - Region(role)[1]
        BY <2>1 DEF Made
      <3>3. before = Taken
        BY <1>0, <3>1 DEF Own
      <3>4. OwnParts' \subseteq created \cup {s}
        BY <3>1, <3>2 DEF Listed, OwnParts
      <3>5. \A i \in 1 .. Len(mounts) : mounts[i].dev # s
        BY <3>2 DEF MountedTaken
      <3>6. HasSize(s, role)'
        BY <3>1, <3>2 DEF HasSize, Region
      <3>7. Unrecorded(s)'
        BY <3>1, <3>2, <3>4, <3>5, <3>6 DEF Unrecorded
      <3>8. Taken' \ before' = {s} /\ s \in Taken'
        BY <3>1, <3>2, <3>3
      <3> QED BY <3>1, <3>7, <3>8 DEF Listed
    <2>2. CASE Failed
      BY <1>1, <1>7, <2>2 DEF Mkpart, Failed, Goto, disk, shell, Kept, Taken
    <2>3. pc = "mkpart"
      BY <1>7 DEF Mkpart
    <2>4. ~ Deleted /\ ~ RolledBack
      BY <2>3 DEF Deleted, RolledBack
    <2>5. CASE Kept /\ ~ Failed
      <3>1. \E s \in Slots \ Taken :
              table' = [table EXCEPT ![s] =
                [first |-> Region(role)[1], last |-> Region(role)[2], by |-> attempt, fs |-> "old"]]
        BY <1>7, <2>5 DEF Mkpart
      <3>2. FALSE
        <4>1. PICK s \in Slots \ Taken : table'[s] = [first |-> Region(role)[1], last |-> Region(role)[2], by |-> attempt, fs |-> "old"]
          BY <1>0, <3>1 DEF TypeOK
        <4>2. table'[s] # NoPart
          BY <1>0, <4>1, PartitioningAssumption DEF NoPart, TypeOK
        <4> QED BY <2>5, <4>1, <4>2 DEF Kept, Taken
      <3> QED BY <3>2
    <2> QED BY <2>1, <2>2, <2>4, <2>5, TableMoves
  <1>8. CASE After
    <2>1. PICK n \in Taken : Taken \ before = {n} /\ Unrecorded(n)
      BY <1>8 DEF After, Listed
    <2>2. num' = n /\ pc' = "size" /\ UNCHANGED <<attempt, table, created, role, plan, mounts>>
      BY <1>8, <2>1 DEF After, Goto, disk, host
    <2>3. Unrecorded(n)'
      BY <2>1, <2>2 DEF Unrecorded, HasSize, Region, OwnParts, Taken
    <2>4. Unrecorded(num)'
      BY <2>2, <2>3 DEF Unrecorded, HasSize
    <2> QED BY <2>2, <2>4 DEF Listed
  <1>9. CASE Record
    <2>1. Unrecorded(num)
      BY <1>9 DEF Record, Listed
    <2>2. /\ created' = created \cup {num} /\ pc' \in {"before", "flag"}
          /\ UNCHANGED <<attempt, table>>
      BY <1>9, <2>1 DEF Record, Unrecorded, Goto, disk
    <2>3. OwnParts' = OwnParts
      BY <2>2 DEF OwnParts, Taken
    <2> QED BY <2>1, <2>2, <2>3 DEF Listed, Unrecorded
  <1>10. CASE WipeEfi \/ WipeRoot \/ LuksFormat \/ MakeRoot \/ MakeEsp
    <2>1. /\ pc \notin {"over", "after", "size", "mkpart", "picker", "rollback"} /\ UNCHANGED <<attempt, created>>
          /\ pc' \notin {"over", "after", "size"}
      BY <1>10 DEF WipeEfi, WipeRoot, LuksFormat, MakeRoot, MakeEsp, Write, Failed, Then, Goto, shell
    <2>2. Kept
      BY <2>1, TableMoves DEF Made, Deleted, RolledBack
    <2> QED BY <1>1, <2>1, <2>2
  <1>11. CASE Rollback
    <2>1. PICK n \in created :
            /\ table' = [table EXCEPT ![n] = IF InUse(n) THEN table[n] ELSE NoPart]
            /\ created' = created \ {n}
      BY <1>11 DEF Rollback
    <2>2. /\ pc = "rollback" /\ pc' = "rollback" /\ attempt' = attempt /\ ~ InUse(n) /\ n \in Slots
      <3>1. pc = "rollback" /\ pc' = "rollback" /\ attempt' = attempt
        BY <1>11 DEF Rollback, Goto
      <3>2. Bare /\ mapper \notin created
        BY <3>1 DEF Laid
      <3> QED BY <1>0, <2>1, <3>1, <3>2 DEF InUse, Bare, Others, TypeOK
    <2>3. Taken' = Taken \ {n} /\ \A m \in Taken' : table'[m] = table[m]
      <3>1. table'[n] = NoPart /\ \A m \in Slots : m # n => table'[m] = table[m]
        BY <1>0, <2>1, <2>2 DEF TypeOK
      <3> QED BY <2>2, <3>1 DEF Taken
    <2>4. OwnParts' \subseteq OwnParts \ {n}
      BY <2>2, <2>3 DEF OwnParts
    <2> QED BY <2>1, <2>2, <2>4 DEF Listed
  <1>12. CASE UNCHANGED vars
    BY <1>12 DEF vars, disk, host, shell, Listed, Unrecorded, OwnParts, Taken, HasSize, Region
  <1>13. Install \/ Abort \/ Stop \/ Rest => pc' = "over" \/ UNCHANGED vars
    BY DEF Install, Abort, Stop, Rest, Over
  <1> QED
    BY <1>2, <1>3, <1>4, <1>5, <1>6, <1>7, <1>8, <1>9, <1>10, <1>11, <1>12, <1>13 DEF Next

\* The mounts of an attempt stay where disk_abort_hook finds them.
LEMMA LaidNext ==
  ASSUME IInv, [Next]_vars, faults = {}, MountedTaken, Listed, Laid
  PROVE  Laid'
  <1>0. TypeOK /\ mounts \in Seq(MountType) /\ Len(mounts) \in Nat /\ created \subseteq Slots
    BY DEF IInv, TypeOK, MountType
  <1>s. ASSUME NEW j \in 0 .. Len(mounts), mounts' = SubSeq(mounts, 1, j)
        PROVE  Len(mounts') = j /\ \A i \in 1 .. j : mounts'[i] = mounts[i]
    BY <1>0, <1>s
  <1>a. ASSUME NEW point \in {"tmp", "root", "esp"}, NEW dev \in Slots,
               mounts' = Append(mounts, [at |-> point, dev |-> dev])
        PROVE  /\ Len(mounts') = Len(mounts) + 1
               /\ \A i \in 1 .. Len(mounts) : mounts'[i] = mounts[i]
               /\ mounts'[Len(mounts) + 1].at = point
    BY <1>0, <1>a
  <1>1. ASSUME Bare', pc' \in Early \cup {"mount_root", "release", "release_tmp"}
        PROVE  Laid'
    BY <1>1 DEF Laid, Early
  <1>2. ASSUME Bare, UNCHANGED <<mounts, created>>
        PROVE  Bare'
    BY <1>2 DEF Bare, Others
  <1>3. ASSUME NEW j \in 0 .. Len(mounts), mounts' = SubSeq(mounts, 1, j), UNCHANGED created,
               \A i \in 1 .. j : Others(i)
        PROVE  Bare'
    BY <1>3, <1>s DEF Bare, Others
  <1>4. CASE pc' \in {"over", "install"}
    BY <1>4 DEF Laid, Early
  <1>5. CASE Start
    <2>1. created' = {} /\ pc' = "picker"
      BY <1>5 DEF Start
    <2>2. Bare'
      BY <2>1 DEF Bare, Others
    <2> QED BY <1>1, <2>1, <2>2 DEF Early
  <1>6. CASE Decide \/ PartitionTool \/ Mklabel \/ Before \/ Mkpart \/ After \/ Flag \/ LuksOpen
             \/ WipeEfi \/ WipeRoot \/ LuksFormat \/ MakeRoot
    <2>1. pc \in Early /\ pc' \in Early \cup {"release"} /\ UNCHANGED <<mounts, created>>
      <3>1. CASE Decide \/ PartitionTool \/ Mklabel \/ Before \/ Mkpart \/ After \/ Flag \/ LuksOpen
        BY <3>1 DEF Decide, PartitionTool, Mklabel, Before, Mkpart, After, Flag, LuksOpen, Failed, Then, Goto, host, shell,
          Early
      <3>2. CASE WipeEfi \/ WipeRoot \/ LuksFormat \/ MakeRoot
        BY <3>2 DEF WipeEfi, WipeRoot, LuksFormat, MakeRoot, Write, Failed, Then, Goto, host, shell, Early
      <3> QED BY <1>6, <3>1, <3>2
    <2>2. Bare
      BY <2>1 DEF Laid
    <2> QED BY <1>1, <1>2, <2>1, <2>2
  <1>7. CASE Record
    <2>1. Unrecorded(num) /\ Bare
      BY <1>7 DEF Record, Listed, Laid, Early
    <2>2. /\ created' \subseteq created \cup {num} /\ pc' \in {"before", "flag", "release"}
          /\ mounts' = mounts
      BY <1>7 DEF Record, Failed, Goto, host, shell
    <2>3. Bare'
      BY <2>1, <2>2 DEF Bare, Others, Unrecorded
    <2> QED BY <1>1, <2>2, <2>3 DEF Early
  <1>8. CASE MountTmp
    <2>1. Bare /\ UNCHANGED created
      BY <1>8 DEF MountTmp, Mount, Failed, shell, Laid, Early
    <2>2. CASE Failed
      BY <1>1, <1>2, <2>1, <2>2 DEF Failed, Goto, host
    <2>3. CASE ~ Failed
      <3>1. parts.root \in Slots /\ RootDevice = parts.root
        BY <1>0, <1>8, GivenParts DEF IInv, MountTmp, Mount, Recorded, RootMade
      <3>2. mounts' = Append(mounts, [at |-> "tmp", dev |-> parts.root]) /\ pc' \in {"subvolumes", "release"}
        BY <1>8, <2>3, <3>1 DEF MountTmp, Mount, Then, Goto
      <3>3. /\ Len(mounts') = Len(mounts) + 1 /\ \A i \in 1 .. Len(mounts) : mounts'[i] = mounts[i]
            /\ mounts'[Len(mounts) + 1].at = "tmp"
        BY <1>a, <3>1, <3>2
      <3>4. TmpOnTop'
        BY <1>0, <2>1, <3>3 DEF TmpOnTop, Bare, Others
      <3> QED BY <3>2, <3>4 DEF Laid, Early
    <2> QED BY <2>2, <2>3
  <1>9. CASE Subvolumes
    <2>1. TmpOnTop /\ UNCHANGED <<mounts, created>> /\ pc' \in {"umount_tmp", "release"}
      BY <1>9 DEF Subvolumes, Then, Goto, host, shell, Laid
    <2>2. TmpOnTop'
      BY <2>1 DEF TmpOnTop, Others
    <2> QED BY <2>1, <2>2 DEF Laid, Early
  <1>10. CASE UmountTmp
    <2>1. /\ TmpOnTop /\ UNCHANGED created /\ pc' = "mount_root"
          /\ mounts' = SubSeq(mounts, 1, Len(mounts) - 1)
      BY <1>10 DEF UmountTmp, Goto, shell, Laid
    <2>2. Len(mounts) - 1 \in 0 .. Len(mounts)
      BY <1>0, <2>1 DEF TmpOnTop
    <2>3. Bare'
      BY <1>3, <2>1, <2>2 DEF TmpOnTop
    <2> QED BY <1>1, <2>1, <2>3
  <1>11. CASE MountRoot
    <2>1. Bare /\ UNCHANGED created
      BY <1>11 DEF MountRoot, Mount, Failed, shell, Laid
    <2>2. CASE Failed
      BY <1>1, <1>2, <2>1, <2>2 DEF Failed, Goto, host
    <2>3. CASE ~ Failed
      <3>1. parts.root \in Slots /\ RootDevice = parts.root
        BY <1>0, <1>11, GivenParts DEF IInv, MountRoot, Mount, Recorded, RootMade
      <3>2. mounts' = Append(mounts, [at |-> "root", dev |-> parts.root]) /\ pc' \in {"mkfs_esp", "release"}
        BY <1>11, <2>3, <3>1 DEF MountRoot, Mount, Then, Goto
      <3>3. /\ Len(mounts') = Len(mounts) + 1 /\ \A i \in 1 .. Len(mounts) : mounts'[i] = mounts[i]
            /\ mounts'[Len(mounts) + 1].at = "root"
        BY <1>a, <3>1, <3>2
      <3>4. RootOnTop'
        <4>1. Len(mounts) + 1 \in 1 .. Len(mounts')
          BY <1>0, <3>3
        <4>2. \A i \in 1 .. Len(mounts) + 1 - 1 : Others(i)'
          BY <1>0, <2>1, <3>3 DEF Bare, Others
        <4>3. \A j \in Len(mounts) + 1 + 1 .. Len(mounts') : mounts'[j].at # "root"
          BY <1>0, <3>3
        <4> QED BY <3>3, <4>1, <4>2, <4>3 DEF RootOnTop, Others
      <3> QED BY <3>2, <3>4 DEF Laid, Early
    <2> QED BY <2>2, <2>3
  <1>12. ASSUME RootOnTop, UNCHANGED <<mounts, created>>
         PROVE  RootOnTop'
    BY <1>12 DEF RootOnTop, Others
  <1>13. CASE MakeEsp
    <2>1. RootOnTop /\ UNCHANGED <<mounts, created>> /\ pc' \in {"mount_esp", "release"}
      BY <1>13 DEF MakeEsp, Write, Failed, Then, Goto, host, shell, Laid
    <2> QED BY <1>12, <2>1 DEF Laid, Early
  <1>14. CASE MountEsp
    <2>1. RootOnTop /\ UNCHANGED created /\ pc' \in {"check", "release"}
      BY <1>14 DEF MountEsp, Mount, Failed, Then, Goto, shell, Laid
    <2>2. CASE Failed
      BY <1>12, <2>1, <2>2 DEF Failed, Goto, host, Laid, Early
    <2>3. CASE ~ Failed
      <3>1. parts.efi \in Slots
        BY <1>0, <1>14, GivenParts DEF IInv, MountEsp, Mount, Recorded
      <3>2. mounts' = Append(mounts, [at |-> "esp", dev |-> parts.efi])
        BY <1>14, <2>3 DEF MountEsp, Mount
      <3>3. /\ Len(mounts') = Len(mounts) + 1 /\ \A i \in 1 .. Len(mounts) : mounts'[i] = mounts[i]
            /\ mounts'[Len(mounts) + 1].at = "esp"
        BY <1>a, <3>1, <3>2
      <3>4. PICK k \in 1 .. Len(mounts) :
              /\ mounts[k].at = "root"
              /\ \A i \in 1 .. k - 1 : Others(i)
              /\ \A j \in k + 1 .. Len(mounts) : mounts[j].at # "root"
        BY <2>1 DEF RootOnTop
      <3>5. k \in 1 .. Len(mounts') /\ mounts'[k].at = "root"
        BY <1>0, <3>3, <3>4
      <3>6. \A i \in 1 .. k - 1 : Others(i)'
        BY <1>0, <2>1, <3>3, <3>4 DEF Others
      <3>7. \A j \in k + 1 .. Len(mounts') : mounts'[j].at # "root"
        BY <1>0, <3>3, <3>4
      <3>8. RootOnTop'
        BY <3>5, <3>6, <3>7 DEF RootOnTop, Others
      <3> QED BY <2>1, <3>8 DEF Laid, Early
    <2> QED BY <2>2, <2>3
  <1>15. CASE Check
    <2>1. RootOnTop /\ UNCHANGED <<mounts, created>> /\ pc' \in {"install", "release"}
      BY <1>15 DEF Check, Goto, host, shell, Laid
    <2> QED BY <1>12, <2>1 DEF Laid, Early
  <1>16. CASE UmountTarget
    <2>1. UNCHANGED created /\ pc' = "release_tmp" /\ UmountRoot /\ (Bare \/ TmpOnTop \/ RootOnTop)
      BY <1>16 DEF UmountTarget, Goto, shell, Laid
    <2>2. CASE IsMountpoint("root")
      <3>1. PICK i \in 1 .. Len(mounts) : LastMount(i, "root") /\ mounts' = SubSeq(mounts, 1, i - 1)
        BY <2>1, <2>2 DEF UmountRoot
      <3>2. i - 1 \in 0 .. Len(mounts)
        BY <1>0, <3>1
      <3>3. \A m \in 1 .. i - 1 : Others(m)
        <4>1. CASE Bare
          BY <1>0, <4>1 DEF Bare
        <4>2. CASE TmpOnTop
          <5>1. i # Len(mounts)
            BY <3>1, <4>2 DEF TmpOnTop, LastMount
          <5> QED BY <1>0, <4>2, <5>1 DEF TmpOnTop
        <4>3. CASE RootOnTop
          <5>1. PICK k \in 1 .. Len(mounts) :
                  /\ mounts[k].at = "root"
                  /\ \A m \in 1 .. k - 1 : Others(m)
                  /\ \A j \in k + 1 .. Len(mounts) : mounts[j].at # "root"
            BY <4>3 DEF RootOnTop
          <5>2. i = k
            BY <1>0, <3>1, <5>1 DEF LastMount
          <5> QED BY <5>1, <5>2
        <4> QED BY <2>1, <4>1, <4>2, <4>3
      <3>4. Bare'
        BY <1>3, <2>1, <3>1, <3>2, <3>3
      <3> QED BY <1>1, <2>1, <3>4
    <2>3. CASE ~ IsMountpoint("root")
      <3>1. mounts' = mounts
        BY <2>1, <2>3 DEF UmountRoot, LastMount, IsMountpoint
      <3>2. ~ RootOnTop
        BY <2>3 DEF RootOnTop, IsMountpoint
      <3>3. Bare' \/ TmpOnTop'
        BY <2>1, <3>1, <3>2 DEF Bare, TmpOnTop, Others
      <3> QED BY <2>1, <3>3 DEF Laid, Early
    <2> QED BY <2>2, <2>3
  <1>17. CASE ReleaseTmp
    <2>1. UNCHANGED created /\ pc' = "close" /\ (Bare \/ TmpOnTop)
      BY <1>17 DEF ReleaseTmp, Goto, shell, Laid
    <2>2. CASE mounts # <<>> /\ mounts[Len(mounts)].at = "tmp"
      <3>1. mounts' = SubSeq(mounts, 1, Len(mounts) - 1)
        BY <1>17, <2>2 DEF ReleaseTmp
      <3>2. Len(mounts) - 1 \in 0 .. Len(mounts)
        BY <1>0, <2>2
      <3>3. \A i \in 1 .. Len(mounts) - 1 : Others(i)
        BY <1>0, <2>1 DEF Bare, TmpOnTop
      <3>4. Bare'
        BY <1>3, <2>1, <3>1, <3>2, <3>3
      <3> QED BY <2>1, <3>4 DEF Laid, Early
    <2>3. CASE mounts = <<>> \/ mounts[Len(mounts)].at # "tmp"
      <3>1. mounts' = mounts
        BY <1>17, <2>3 DEF ReleaseTmp
      <3>2. ~ TmpOnTop
        BY <1>0, <2>3 DEF TmpOnTop
      <3>3. Bare'
        BY <1>2, <2>1, <3>1, <3>2
      <3> QED BY <2>1, <3>3 DEF Laid, Early
    <2> QED BY <2>2, <2>3
  <1>18. CASE CloseMapper
    <2>1. UNCHANGED <<created, mounts>> /\ pc' = "rollback" /\ Bare /\ Close
      BY <1>18 DEF CloseMapper, Goto, shell, Laid
    <2>2. Bare'
      BY <1>2, <2>1
    <2>3. mapper' \notin created
      <3>1. CASE \E i \in 1 .. Len(mounts) : mounts[i].dev = mapper
        BY <2>1, <3>1 DEF Close, Bare, Others
      <3>2. CASE ~ \E i \in 1 .. Len(mounts) : mounts[i].dev = mapper
        BY <1>0, <2>1, <3>2 DEF Close, Slots
      <3> QED BY <3>1, <3>2
    <2> QED BY <2>1, <2>2, <2>3 DEF Laid, Early
  <1>19. CASE Rollback
    <2>1. /\ created' \subseteq created /\ UNCHANGED <<mounts, mapper>> /\ pc' = "rollback"
          /\ Bare /\ mapper \notin created
      BY <1>19 DEF Rollback, Goto, host, Laid
    <2>2. Bare'
      BY <2>1 DEF Bare, Others
    <2> QED BY <2>1, <2>2 DEF Laid, Early
  <1>20. CASE UNCHANGED vars
    BY <1>20 DEF vars, host, shell, Laid, Bare, TmpOnTop, RootOnTop, Others
  <1>21. Install \/ Abort \/ Stop \/ Rest => pc' = "over" \/ UNCHANGED vars
    BY DEF Install, Abort, Stop, Rest, Over
  <1> QED
    BY <1>4, <1>5, <1>6, <1>7, <1>8, <1>9, <1>10, <1>11, <1>13, <1>14, <1>15, <1>16, <1>17, <1>18, <1>19, <1>20, <1>21
    DEF Next

\* The hook ends when the list is empty, and then nothing it should have listed is left.
LEMMA UndoneNext ==
  ASSUME [Next]_vars, Listed, HalfBuiltUndone
  PROVE  HalfBuiltUndone'
  <1> SUFFICES ASSUME pc' = "over", how' = "hook", ~ UNCHANGED vars
               PROVE  HalfBuiltUndone'
    <2>1. UNCHANGED vars => HalfBuiltUndone'
      BY DEF vars, disk, HalfBuiltUndone, Taken
    <2> QED BY <2>1 DEF HalfBuiltUndone
  <1>1. ~ (Start \/ Decide \/ PartitionTool \/ Mklabel \/ Before \/ Mkpart \/ After \/ Record \/ Flag \/ LuksOpen)
    BY DEF Start, Decide, PartitionTool, Mklabel, Before, Mkpart, After, Record, Flag, LuksOpen, Failed, Then, Goto
  <1>2. ~ (WipeEfi \/ WipeRoot \/ LuksFormat \/ MakeRoot \/ MakeEsp \/ MountTmp \/ MountRoot \/ MountEsp)
    BY DEF WipeEfi, WipeRoot, LuksFormat, MakeRoot, MakeEsp, MountTmp, MountRoot, MountEsp, Write, Mount, Failed, Then, Goto
  <1>3. ~ (Subvolumes \/ UmountTmp \/ Check \/ UmountTarget \/ ReleaseTmp \/ CloseMapper \/ Rollback)
    BY DEF Subvolumes, UmountTmp, Check, UmountTarget, ReleaseTmp, CloseMapper, Rollback, Then, Goto
  <1>4. ~ (Install \/ Stop \/ Rest)
    BY DEF Install, Stop, Over, Rest
  <1>5. Abort
    BY <1>1, <1>2, <1>3, <1>4 DEF Next
  <1>6. pc = "rollback" /\ created = {} /\ UNCHANGED <<attempt, table>>
    BY <1>5 DEF Abort, Over, disk
  <1>7. OwnParts = {}
    BY <1>6 DEF Listed
  <1> QED BY <1>6, <1>7 DEF HalfBuiltUndone, OwnParts, Taken

\* disk_abort_hook leaves no partition of the attempt behind, whatever earlier
\* attempts have left mounted or open, on any disk and in any session.
THEOREM LayoutIsUndone == Spec => []LayoutUndone
  <1>1. IInv /\ UndoInv /\ [Next]_vars => UndoInv'
    <2> SUFFICES ASSUME IInv, UndoInv, [Next]_vars, faults = {} PROVE UndoInv'
      BY SameFaults DEF UndoInv
    <2>1. Past /\ MountedTaken /\ Listed /\ Laid /\ HalfBuiltUndone
      BY DEF UndoInv
    <2> QED BY <2>1, PastNext, MountedNext, ListedNext, LaidNext, UndoneNext DEF UndoInv
  <1>2. UndoInv => LayoutUndone
    BY DEF UndoInv, LayoutUndone
  <1> QED BY InductiveInvariant, InitUndo, <1>1, <1>2, PTL DEF Spec
=============================================================================
