---------------------------- MODULE UnwindProofs ----------------------------
(***************************************************************************)
(* Proofs about the clean-up of Orchestrator: what main()'s finally and    *)
(* the inner ones undo, for any number of live hooks, attempts and signals *)
(* and with or without faults.                                             *)
(***************************************************************************)
EXTENDS OrchestratorProofs

-----------------------------------------------------------------------------
(* Who changes what.                                                       *)

\* The actions that leave the live system alone.
HostUntouched ==
  \/ FromEnv \/ InitState \/ PhaseStart \/ PhaseOk \/ Unwind \/ Finish \/ WriteTiming \/ CleanupHooks \/ Exit
  \/ UsePreMounted \/ Format \/ FormatRetry \/ InstallPackages \/ Finishers \/ WriteFstab
  \/ ConfigureHibernation \/ RunSystemFinalizer \/ RunChrootFinalizer \/ LogWindow \/ RunTargetCommand
  \/ UnmaskTarget \/ StageProvisioningState \/ FinalizeLimineBoot \/ LimineUpdate
  \/ ConfigureUserland \/ ValidateBoot \/ AssertHooks \/ CheckBoot \/ Rest

\* These actions do leave the live system alone.
LEMMA HostUnchanged ==
  ASSUME HostUntouched
  PROVE  UNCHANGED host
<1> USE DEF Step, QuietStep, data, HookAmong, DiskBecomes, DiskAmong, MemBecomes, WriteState, WriteStatePartly
<1>1. CASE FromEnv \/ InitState \/ PhaseStart \/ PhaseOk \/ Unwind \/ Finish \/ WriteTiming \/ CleanupHooks \/ Exit
  BY <1>1 DEF FromEnv, InitState, PhaseStart, PhaseOk, Unwind, Finish, WriteTiming, CleanupHooks, Exit
<1>2. CASE UsePreMounted \/ Format \/ FormatRetry \/ InstallPackages \/ Finishers \/ WriteFstab \/ Rest
  BY <1>2 DEF UsePreMounted, Format, FormatRetry, InstallPackages, Finishers, WriteFstab, Rest, vars
<1>3. CASE ConfigureHibernation \/ RunSystemFinalizer \/ RunChrootFinalizer \/ LogWindow \/ RunTargetCommand
  BY <1>3 DEF ConfigureHibernation, RunSystemFinalizer, RunChrootFinalizer, LogWindow, RunTargetCommand
<1>4. CASE UnmaskTarget \/ StageProvisioningState \/ FinalizeLimineBoot \/ LimineUpdate
  BY <1>4 DEF UnmaskTarget, StageProvisioningState, FinalizeLimineBoot, LimineUpdate
<1>5. CASE ConfigureUserland \/ ValidateBoot \/ AssertHooks \/ CheckBoot
  BY <1>5 DEF ConfigureUserland, ValidateBoot, AssertHooks, CheckBoot
<1>6. QED
  BY <1>1, <1>2, <1>3, <1>4, <1>5 DEF HostUntouched

\* Tearing the target down adds no bind mount and leaves the governors alone.
LEMMA TeardownShrinks ==
  ASSUME NEW h \in Hosts,
         NEW g \in Teardown(h) \cup TornPartly(h) \cup {[h EXCEPT !.target = "absent", !.binds = {}], Torn(h)}
  PROVE  g.binds \subseteq h.binds /\ g.boosted = h.boosted
<1>1. Torn(h).binds = {} /\ Torn(h).boosted = h.boosted
  BY DEF Torn, Hosts
<1>2. CASE g \in TornPartly(h) /\ h.target = "absent"
  <2>1. g \in {h, [h EXCEPT !.mapper = FALSE]}
    BY <1>2 DEF TornPartly
  <2>2. QED
    BY <2>1 DEF Hosts
<1>3. CASE g \in TornPartly(h) /\ h.target # "absent"
  <2>1. PICK t \in {h.target, "noesp"}, b \in SUBSET h.binds : g = [h EXCEPT !.target = t, !.binds = b]
    BY <1>3 DEF TornPartly
  <2>2. g.binds = b /\ g.boosted = h.boosted
    BY <2>1 DEF Hosts
  <2>3. QED
    BY <2>2
<1>4. CASE g = [h EXCEPT !.target = "absent", !.binds = {}]
  BY <1>4 DEF Hosts
<1>5. QED
  BY <1>1, <1>2, <1>3, <1>4 DEF Teardown

\* Which calls change the live system, part by part.
HostWriters ==
  /\ host'.boosted = host.boosted \/ pc \in {"boost", "restore_governors"}
  /\ host'.live = host.live \/ pc \in {"mask_live", "unmask_live"}
  /\ \/ host'.target = host.target
     \/ pc \in {"prepare_live", "prepare_install_target", "mount_layout", "cleanup_protected"}
  /\ host'.mapper = host.mapper \/ pc \in {"prepare_live", "cleanup_protected"}
  /\ \/ host'.binds = host.binds
     \/ pc \in {"prepare_live", "mount_cache", "unmount_cache", "prepare_target", "bind_log",
                "unbind_log", "cleanup_binds", "cleanup_protected"}

\* No other call changes them.
LEMMA HostWritten ==
  ASSUME host \in Hosts, Next, ~ StartAttempt
  PROVE  HostWriters
<1> USE DEF HostWriters, Hosts, At, Step, QuietStep, data, HostBecomes, HostAmong
<1>1. CASE HostUntouched
  BY <1>1, HostUnchanged
<1>2. CASE BoostGovernor \/ RestoreGovernors
  BY <1>2 DEF BoostGovernor, RestoreGovernors
<1>3. CASE PrepareLive
  <2>1. pc = "prepare_live" /\ (host' = host \/ host' \in Teardown(host) \cup TornPartly(host) \cup {Torn(host)})
    BY <1>3 DEF PrepareLive
  <2>2. host'.boosted = host.boosted /\ host'.live = host.live
    BY <2>1, TeardownShrinks, TeardownKeepsLive DEF Teardown
  <2>3. QED
    BY <2>1, <2>2
<1>4. CASE CleanupProtected
  <2>1. /\ pc = "cleanup_protected"
        /\ \/ host' = host
           \/ host' \in Teardown(host) \cup TornPartly(host)
                           \cup {[host EXCEPT !.target = "absent", !.binds = {}], Torn(host)}
    BY <1>4 DEF CleanupProtected
  <2>2. host'.boosted = host.boosted
    BY <2>1, TeardownShrinks
  <2>3. host'.live = host.live
    BY <2>1, TeardownKeepsLive DEF Torn
  <2>4. QED
    BY <2>1, <2>2, <2>3
<1>5. CASE PrepareInstallTarget \/ MountLayout
  BY <1>5 DEF PrepareInstallTarget, MountLayout
<1>6. CASE MountCache \/ UnmountCache
  BY <1>6 DEF MountCache, UnmountCache
<1>7. CASE MaskLive \/ UnmaskLive
  BY <1>7 DEF MaskLive, UnmaskLive
<1>8. CASE PrepareTarget
  BY <1>8 DEF PrepareTarget
<1>9. CASE BindLog \/ UnbindLog
  BY <1>9 DEF BindLog, UnbindLog
<1>10. CASE CleanupBinds
  BY <1>10 DEF CleanupBinds
<1>11. QED
  BY <1>1, <1>2, <1>3, <1>4, <1>5, <1>6, <1>7, <1>8, <1>9, <1>10
     DEF Next, DriverStep, InstallStep, HostUntouched

\* Which calls change what main() knows of the run, part by part.
MemWriters ==
  /\ \/ mem'.recorded = mem.recorded
     \/ pc \in {"mount_cache", "unmount_cache", "prepare_target", "cleanup_binds"}
  /\ mem'.logBound = mem.logBound \/ pc = "bind_log"
  /\ mem'.success = mem.success \/ pc = "timing"

\* No other call changes it.
LEMMA MemWritten ==
  ASSUME mem \in Mems, Next, ~ StartAttempt
  PROVE  MemWriters
<1> USE DEF MemWriters, Mems, At, Step, QuietStep, data, HostBecomes, HostAmong, HookAmong, DiskBecomes, DiskAmong,
            MemBecomes, WriteState, WriteStatePartly
<1>1. CASE FromEnv \/ BoostGovernor \/ InitState \/ PhaseStart \/ PhaseOk \/ Unwind \/ Finish \/ Exit \/ Rest
  BY <1>1 DEF FromEnv, BoostGovernor, InitState, PhaseStart, PhaseOk, Unwind, Finish, Exit, Rest, vars
<1>2. CASE WriteTiming
  BY <1>2 DEF WriteTiming
<1>3. CASE RestoreGovernors \/ CleanupHooks \/ CleanupProtected
  BY <1>3 DEF RestoreGovernors, CleanupHooks, CleanupProtected
<1>4. CASE CleanupBinds
  BY <1>4 DEF CleanupBinds
<1>5. CASE PrepareLive \/ PrepareInstallTarget \/ UsePreMounted \/ Format \/ MountLayout
  BY <1>5 DEF PrepareLive, PrepareInstallTarget, UsePreMounted, Format, MountLayout
<1>6. CASE FormatRetry
  BY <1>6 DEF FormatRetry
<1>7. CASE MountCache \/ UnmountCache
  BY <1>7 DEF MountCache, UnmountCache
<1>8. CASE MaskLive \/ InstallPackages \/ UnmaskLive \/ Finishers \/ WriteFstab
  BY <1>8 DEF MaskLive, InstallPackages, UnmaskLive, Finishers, WriteFstab
<1>9. CASE ConfigureHibernation \/ RunSystemFinalizer \/ RunChrootFinalizer \/ LogWindow \/ RunTargetCommand
  BY <1>9 DEF ConfigureHibernation, RunSystemFinalizer, RunChrootFinalizer, LogWindow, RunTargetCommand
<1>10. CASE PrepareTarget
  BY <1>10 DEF PrepareTarget
<1>11. CASE BindLog
  BY <1>11 DEF BindLog
<1>12. CASE UnbindLog \/ UnmaskTarget \/ StageProvisioningState \/ FinalizeLimineBoot \/ LimineUpdate
  BY <1>12 DEF UnbindLog, UnmaskTarget, StageProvisioningState, FinalizeLimineBoot, LimineUpdate
<1>13. CASE ConfigureUserland \/ ValidateBoot \/ AssertHooks \/ CheckBoot
  BY <1>13 DEF ConfigureUserland, ValidateBoot, AssertHooks, CheckBoot
<1>14. QED
  BY <1>1, <1>2, <1>3, <1>4, <1>5, <1>6, <1>7, <1>8, <1>9, <1>10, <1>11, <1>12, <1>13
     DEF Next, DriverStep, InstallStep

\* Which calls change the hook and the UKI of the target.
DiskWriters ==
  /\ \/ disk'.hook = disk.hook
     \/ pc \in {"arch_install_system", "packages", "run_system_finalizer", "unmask_target",
                "validate_boot", "cleanup_hooks"}
  /\ disk'.uki = disk.uki \/ pc \in {"arch_install_system", "packages", "chroot", "limine_update"}

\* No other call changes them.
LEMMA DiskWritten ==
  ASSUME disk \in Disks, Next, ~ StartAttempt
  PROVE  DiskWriters
<1> USE DEF DiskWriters, Disks, At, Step, QuietStep, DiskBecomes, DiskAmong
<1>1. CASE DiskUntouched
  BY <1>1, DiskUnchanged
<1>2. CASE Format \/ FormatRetry
  BY <1>2 DEF Format, FormatRetry
<1>3. CASE InstallPackages
  BY <1>3 DEF InstallPackages
<1>4. CASE WriteFstab
  BY <1>4 DEF WriteFstab
<1>5. CASE ConfigureHibernation \/ StageProvisioningState \/ FinalizeLimineBoot
  BY <1>5 DEF ConfigureHibernation, StageProvisioningState, FinalizeLimineBoot, Staged
<1>6. CASE RunSystemFinalizer
  BY <1>6 DEF RunSystemFinalizer
<1>7. CASE RunTargetCommand
  <2>1. pc = "chroot" /\ \E d \in {disk, Staged("hardware")} : disk' \in {d, [d EXCEPT !.uki = d.boot]}
    BY <1>7 DEF RunTargetCommand
  <2>2. disk'.hook = disk.hook
    BY <2>1 DEF Staged
  <2>3. QED
    BY <2>1, <2>2
<1>8. CASE LimineUpdate
  BY <1>8 DEF LimineUpdate
<1>9. CASE UnmaskTarget \/ ValidateBoot
  BY <1>9 DEF UnmaskTarget, ValidateBoot, HookAmong
<1>10. CASE CleanupHooks
  BY <1>10 DEF CleanupHooks, HookAmong, data
<1>11. QED
  BY <1>1, <1>2, <1>3, <1>4, <1>5, <1>6, <1>7, <1>8, <1>9, <1>10
     DEF Next, DriverStep, InstallStep, DiskUntouched

-----------------------------------------------------------------------------
(* What the unwinding relies on.                                           *)

\* A step of a running process.
Moves == Next /\ ~ StartAttempt /\ ~ Rest

\* What is known of such a step.
LEMMA MovesSummary ==
  ASSUME TypeInv, Moves
  PROVE  Flow /\ HostWriters /\ MemWriters /\ DiskWriters /\ Dispatched
BY FlowNext, HostWritten, MemWritten, DiskWritten, Dispatch DEF Moves, TypeInv, DataOK

\* The process reached main()'s last call or left by it.
Left == (proc = "running" /\ pc = "exit") \/ (proc = "exited" /\ rc # "config")

\* An exception in flight is on its way through the finally blocks, and the exit
\* code says what became of it.
Raised ==
  /\ proc = "running" /\ exc # "none" =>
       pc \in Unwinding \cup {"unmask_live", "unmount_cache", "unbind_log", "unmask_target"}
  /\ proc = "exited" =>
       \/ rc = "config" /\ phase = 0
       \/ pc = "exit" /\ (rc = "ok" <=> exc = "none") /\ (rc = "failed" <=> exc = "error")

\* Every step keeps exceptions on their way.
LEMMA RaisedNext ==
  ASSUME TypeInv, Raised, Moves
  PROVE  Raised'
<1>1. Flow /\ Located
  BY MovesSummary DEF TypeInv
<1>2. CASE CutShortLands
  BY <1>1, <1>2 DEF Flow, CutShortLands, Raised, Unwinding, FinallyCalls
<1>3. CASE proc' = "exited"
  BY <1>1, <1>3 DEF Flow, CutShortLands, Raised, Located
<1>4. CASE proc' = "running" /\ exc' = exc /\ ~ CutShortLands
  <2>1. CASE exc = "none"
    BY <1>4, <2>1 DEF Raised
  <2>2. CASE exc # "none"
    <3>1. pc \in Unwinding \cup {"unmask_live", "unmount_cache", "unbind_log", "unmask_target"}
      BY <1>1, <2>2 DEF Raised, Flow
    <3>2. Follows
      BY <1>1, <1>4, <3>1 DEF Flow, Unwinding, FinallyCalls
    <3>3. QED
      BY <1>4, <2>2, <3>1, <3>2 DEF Follows, Raised, Unwinding, FinallyCalls
  <2>3. QED
    BY <2>1, <2>2
<1>5. QED
  BY <1>1, <1>2, <1>3, <1>4 DEF Flow

\* A protected attempt that did not succeed has torn the target down before the exit.
GivenBack ==
  ctx.protected /\ ~ mem.success /\ ~ BusyMounts /\ Left =>
    host.target = "absent" /\ host.binds = {} /\ ~ host.mapper

\* Every step keeps the disk given back.
LEMMA GivenBackNext ==
  ASSUME TypeInv, GivenBack, Moves
  PROVE  GivenBack'
<1>1. Flow /\ MemWriters /\ HostWriters /\ Dispatched /\ host \in Hosts /\ ControlOK /\ Located
  BY MovesSummary DEF TypeInv, DataOK
<1>2. SUFFICES ASSUME ctx.protected, ~ mem.success, ~ BusyMounts, Left'
               PROVE  host'.target = "absent" /\ host'.binds = {} /\ ~ host'.mapper
  <2>1. Left' => pc # "timing"
    BY <1>1 DEF Flow, Follows, CutShortLands, Left
  <2>2. Left' => mem'.success = mem.success
    BY <1>1, <2>1 DEF MemWriters
  <2>3. QED
    BY <1>1, <2>2 DEF GivenBack, Flow
<1>3. CASE pc = "cleanup_protected"
  <2>1. ~ Stopped
    BY <1>1, <1>2, <1>3, CutShortEffect DEF CutShortLands, Left, FinallyCalls, Flow
  <2>2. host' = Torn(host)
    BY <1>1, <1>2, <1>3, <2>1 DEF Dispatched, CleanupProtected, QuietStep, HostAmong, Teardown
  <2>3. QED
    BY <1>1, <2>2 DEF Torn, Hosts
<1>4. CASE pc = "exit"
  BY <1>1, <1>2, <1>4 DEF GivenBack, Left, Flow, HostWriters
<1>5. CASE pc \notin {"cleanup_protected", "exit"}
  BY <1>1, <1>2, <1>5, PhaseNames DEF Left, Flow, Follows, CutShortLands, Located, ControlOK
<1>6. QED
  BY <1>3, <1>4, <1>5

\* While packages are installed, the hooks that would build a UKI are masked: the
\* live ones during pacstrap, the target's own during the system finalizer.
MasksOn ==
  /\ pc = "packages" => \A i \in 1..LiveHooks : IsMasked(host.live[i])
  /\ phase = 5 /\ pc \in {"prepare_target", "bind_log", "log_window", "chroot"} => IsMasked(disk.hook)

\* Masking a name masks it.
LEMMA MaskMasks ==
  ASSUME NEW h \in HookFile
  PROVE  IsMasked(Masked(h))
BY DEF HookFile, Entry, Masked, IsMasked

\* Every step keeps the masks on while they are needed.
LEMMA MasksOnNext ==
  ASSUME TypeInv, MasksOn, Moves
  PROVE  MasksOn'
<1>1. Flow /\ HostWriters /\ DiskWriters /\ Dispatched /\ host \in Hosts /\ disk \in Disks /\ ControlOK /\ Located
  BY MovesSummary DEF TypeInv, DataOK
<1>2. ASSUME pc' = "packages" PROVE \A i \in 1..LiveHooks : IsMasked(host'.live[i])
  <2>1. CASE pc = "packages"
    BY <1>1, <1>2, <2>1 DEF MasksOn, HostWriters
  <2>2. CASE pc = "mask_live"
    <3>1. ~ CutShort
      BY <1>1, <1>2, <2>2, CutShortEffect DEF CutShortLands
    <3>2. host' = [host EXCEPT !.live = AllMasked(host.live)]
      BY <1>1, <2>2, <3>1 DEF Dispatched, MaskLive, Step, HostBecomes
    <3>3. host'.live = AllMasked(host.live) /\ host.live \in [1..LiveHooks -> HookFile]
      BY <1>1, <3>2 DEF Hosts
    <3>4. QED
      BY <3>3, MaskMasks DEF AllMasked
  <2>3. QED
    BY <1>1, <1>2, <2>1, <2>2, PhaseNames DEF Flow, Follows, CutShortLands, Located
<1>3. ASSUME phase' = 5, pc' \in {"prepare_target", "bind_log", "log_window", "chroot"}
      PROVE  IsMasked(disk'.hook)
  <2>1. CASE pc = "run_system_finalizer"
    <3>1. ~ CutShort
      BY <1>1, <1>3, <2>1, CutShortEffect DEF CutShortLands
    <3>2. disk' = [disk EXCEPT !.hook = Masked(@)]
      BY <1>1, <2>1, <3>1 DEF Dispatched, RunSystemFinalizer, Step, DiskBecomes
    <3>3. disk'.hook = Masked(disk.hook) /\ disk.hook \in HookFile
      BY <1>1, <3>2 DEF Disks
    <3>4. QED
      BY <3>3, MaskMasks
  <2>2. CASE pc # "run_system_finalizer"
    <3>1. phase = 5 /\ pc \in {"prepare_target", "bind_log", "log_window", "chroot"}
      BY <1>1, <1>3, <2>2, PhaseNames DEF Flow, Follows, CutShortLands, Located, ControlOK
    <3>2. QED
      BY <1>1, <3>1 DEF MasksOn, DiskWriters
  <2>3. QED
    BY <2>1, <2>2
<1>4. QED
  BY <1>2, <1>3 DEF MasksOn

\* Nothing is built between the wiping of the disk (or, on a disk that the wizard
\* made, from the start of the attempt) and limine-update.
Unbuilt ==
  \/ ctx.protected /\ phase <= 3
  \/ phase = 3 /\ pc \notin {"phase_start", "arch_install_system"} \cup Unwinding
  \/ phase \in 4..6
  \/ proc = "running" /\ phase = 7 /\ pc \in {"phase_start", "finalize_limine_boot", "limine_update"}

NothingBuilt == Unbuilt => disk.uki = {}

\* The stretch is entered only where the disk is wiped.
LEMMA UnbuiltBefore ==
  ASSUME TypeInv, Moves, Unbuilt', pc # "arch_install_system" \/ ctx.protected
  PROVE  Unbuilt
<1>1. Flow /\ ControlOK /\ Located
  BY MovesSummary DEF TypeInv
<1>2. CASE ctx'.protected /\ phase' <= 3
  BY <1>1, <1>2 DEF Flow, CutShortLands, Unbuilt, ControlOK, Located
<1>3. CASE phase' = 3 /\ pc' \notin {"phase_start", "arch_install_system"} \cup Unwinding
  BY <1>1, <1>3, PhaseNames DEF Flow, Follows, CutShortLands, Unbuilt, ControlOK, Unwinding, FinallyCalls
<1>4. CASE phase' \in 4..6
  BY <1>1, <1>4 DEF Flow, CutShortLands, Unbuilt, ControlOK, Unwinding, FinallyCalls, Located
<1>5. CASE proc' = "running" /\ phase' = 7 /\ pc' \in {"phase_start", "finalize_limine_boot", "limine_update"}
  BY <1>1, <1>5, PhaseNames DEF Flow, Follows, CutShortLands, Unbuilt, ControlOK, Unwinding, FinallyCalls, Located
<1>6. QED
  BY <1>2, <1>3, <1>4, <1>5 DEF Unbuilt

\* pacstrap with every live hook masked builds nothing.
LEMMA PackagesBuildNothing ==
  ASSUME disk \in Disks, host \in Hosts, InstallPackages, \A i \in 1..LiveHooks : IsMasked(host.live[i])
  PROVE  disk'.uki = disk.uki
<1> DEFINE full == [disk EXCEPT !.packages = TRUE, !.hook = InstalledHook, !.boot = @ \cup {"defaults"}]
           some == {disk, [disk EXCEPT !.hook = InstalledHook], full}
<1>1. DOMAIN host.live = 1..LiveHooks
  BY DEF Hosts
<1>2. disk' \in some
  BY <1>1 DEF InstallPackages, Step, DiskAmong
<1>3. \A d \in some : d.uki = disk.uki
  BY DEF Disks
<1>4. QED
  BY <1>2, <1>3

\* Every step keeps the ESP without a UKI up to limine-update.
LEMMA NothingBuiltNext ==
  ASSUME TypeInv, MasksOn, NothingBuilt, Moves
  PROVE  NothingBuilt'
<1>1. Flow /\ DiskWriters /\ Dispatched /\ host \in Hosts /\ disk \in Disks /\ ControlOK /\ Located
  BY MovesSummary DEF TypeInv, DataOK
<1>2. SUFFICES ASSUME Unbuilt' PROVE disk'.uki = {}
  BY DEF NothingBuilt
<1>3. CASE pc = "arch_install_system" /\ ctx.protected
  <2>1. disk' = disk
    BY <1>1, <1>3 DEF Dispatched, UsePreMounted, Format, FormatRetry, Step, data
  <2>2. QED
    BY <1>2, <1>3, <2>1, UnbuiltBefore DEF NothingBuilt
<1>4. CASE pc = "arch_install_system" /\ ~ ctx.protected
  <2>1. phase = 3 /\ ctx' = ctx
    BY <1>1, <1>4 DEF Located, Flow
  <2>2. phase' = 3
    BY <1>1, <1>4, <2>1 DEF Flow, CutShortLands
  <2>3. pc' \notin {"arch_install_system"} \cup Unwinding
    BY <1>2, <2>1, <2>2, <1>4 DEF Unbuilt
  <2>4. ~ CutShort
    BY <1>1, <1>4, <2>3, CutShortEffect DEF CutShortLands, Unwinding, FinallyCalls
  <2>5. disk' = BlankDisk
    BY <1>1, <1>4, <2>3, <2>4 DEF Dispatched, UsePreMounted, Format, FormatRetry, Return, DiskBecomes
  <2>6. QED
    BY <2>5 DEF BlankDisk
<1>5. CASE pc = "packages"
  <2>1. disk'.uki = disk.uki
    BY <1>1, <1>5, PackagesBuildNothing DEF MasksOn, Dispatched
  <2>2. QED
    BY <1>2, <1>5, <2>1, UnbuiltBefore DEF NothingBuilt
<1>6. CASE pc = "chroot"
  <2>1. phase = 5
    <3>1. phase' = phase /\ phase \in {5, 8}
      BY <1>1, <1>6 DEF Flow, Follows, CutShortLands, Located
    <3>2. QED
      BY <1>2, <3>1 DEF Unbuilt
  <2>2. disk' \in {disk, Staged("hardware")}
    <3>1. IsMasked(disk.hook) /\ IsMasked(Staged("hardware").hook)
      BY <1>1, <1>6, <2>1 DEF MasksOn, Staged, Disks
    <3>2. QED
      BY <1>1, <1>6, <3>1 DEF Dispatched, RunTargetCommand, Step, DiskAmong
  <2>3. disk'.uki = disk.uki
    BY <1>1, <2>2 DEF Staged, Disks
  <2>4. QED
    BY <1>2, <1>6, <2>3, UnbuiltBefore DEF NothingBuilt
<1>7. CASE pc = "limine_update"
  <2>1. phase = 7 /\ phase' = 7
    BY <1>1, <1>7 DEF Flow, Follows, CutShortLands, Located
  <2>2. proc' = "running" /\ pc' \in {"phase_start", "finalize_limine_boot", "limine_update"}
    BY <1>2, <2>1 DEF Unbuilt
  <2>3. QED
    BY <1>1, <1>7, <2>2 DEF Flow, Follows, CutShortLands
<1>8. CASE pc \notin {"arch_install_system", "packages", "chroot", "limine_update"}
  BY <1>1, <1>2, <1>8, UnbuiltBefore DEF NothingBuilt, DiskWriters
<1>9. QED
  BY <1>3, <1>4, <1>5, <1>6, <1>7, <1>8

-----------------------------------------------------------------------------
(* The masks and the governors.                                            *)

\* Neither a mask nor its backup is left.
HookClean(h) == h \in {NoHook, InstalledHook}

\* An unmask that completes leaves neither, and has nothing to do where neither is.
LEMMA UnmaskCleans ==
  ASSUME NEW h \in HookFile
  PROVE  /\ HookClean(Unmasked(h))
         /\ HookClean(h) => Unmasked(h) = h /\ UnmaskedPartly(h) = {h}
BY DEF HookFile, Entry, HookClean, Unmasked, Unlinked, UnmaskedPartly, IsMasked, InstalledHook, NoHook

\* Before the mask of phase 5, the first attempt meets no mask on the target.
FirstHook ==
  /\ attempt = 0 => disk = BlankDisk /\ proc = "none"
  /\ attempt <= 1 /\ phase < 5 => HookClean(disk.hook)

\* The finally of main() changes a clean hook to itself.
LEMMA CleanHookStays ==
  ASSUME disk \in Disks, HookClean(disk.hook), CleanupHooks
  PROVE  disk'.hook = disk.hook
<1>1. disk.hook \in HookFile
  BY DEF Disks
<1>2. disk' = disk \/ disk' \in {[disk EXCEPT !.hook = h] : h \in {Unmasked(disk.hook)} \cup UnmaskedPartly(disk.hook)}
  BY DEF CleanupHooks, QuietStep, data, HookAmong, DiskAmong, HooksUnmasked
<1>3. QED
  BY <1>1, <1>2, UnmaskCleans DEF Disks

\* Every step keeps the first attempt's hook clean up to phase 5.
LEMMA FirstHookNext ==
  ASSUME TypeInv, FirstHook, Moves
  PROVE  FirstHook'
<1>1. Flow /\ DiskWriters /\ Dispatched /\ disk \in Disks /\ ControlOK /\ Located
  BY MovesSummary DEF TypeInv, DataOK
<1>2. attempt # 0 /\ attempt' = attempt
  BY <1>1 DEF FirstHook, Flow
<1>3. ASSUME attempt <= 1, phase' < 5
      PROVE  HookClean(disk'.hook)
  <2>1. phase < 5
    BY <1>1, <1>3 DEF Flow, CutShortLands, ControlOK, Located
  <2>2. HookClean(disk.hook)
    BY <1>3, <2>1 DEF FirstHook
  <2>3. CASE pc = "arch_install_system"
    <3>1. disk' \in {disk, BlankDisk}
      BY <1>1, <2>3 DEF Dispatched, UsePreMounted, Format, FormatRetry, Step, data, DiskBecomes, DiskAmong
    <3>2. QED
      BY <2>2, <3>1 DEF BlankDisk, HookClean
  <2>4. CASE pc = "packages"
    <3> DEFINE full == [disk EXCEPT !.packages = TRUE, !.hook = InstalledHook, !.boot = @ \cup {"defaults"}]
               some == {disk, [disk EXCEPT !.hook = InstalledHook], full}
    <3>1. PICK d \in some : disk' \in {d, [d EXCEPT !.uki = d.boot \cup {"defaults"}]}
      BY <1>1, <2>4 DEF Dispatched, InstallPackages, Step, DiskAmong
    <3>2. disk'.hook = d.hook /\ d.hook \in {disk.hook, InstalledHook}
      BY <1>1, <3>1 DEF Disks
    <3>3. QED
      BY <2>2, <3>2 DEF HookClean
  <2>5. CASE pc = "cleanup_hooks"
    BY <1>1, <2>2, <2>5, CleanHookStays DEF Dispatched
  <2>6. QED
    BY <1>1, <2>1, <2>2, <2>3, <2>4, <2>5 DEF DiskWriters, Located
<1>4. QED
  BY <1>2, <1>3 DEF FirstHook

\* From the end of phase 3 the target stays mounted until the disk is given back.
TargetKept == phase > 3 /\ pc \notin {"cleanup_protected", "exit"} => host.target # "absent"

\* Every step keeps the target mounted.
LEMMA TargetKeptNext ==
  ASSUME TypeInv, TargetMounted, TargetKept, Moves
  PROVE  TargetKept'
<1>1. Flow /\ HostWriters /\ ControlOK /\ Located /\ Order
  BY MovesSummary, OrderNext DEF TypeInv, DataOK, Moves
<1>2. SUFFICES ASSUME phase' > 3, pc' \notin {"cleanup_protected", "exit"}
               PROVE  host'.target # "absent"
  BY DEF TargetKept
<1>3. phase > 3 \/ (phase = 3 /\ pc = "phase_ok")
  BY <1>1, <1>2 DEF Order
<1>4. pc \notin {"cleanup_protected", "exit"}
  BY <1>1, <1>2, <1>3 DEF Flow, Follows, CutShortLands, FinallyCalls
<1>5. host.target # "absent"
  BY <1>3, <1>4 DEF TargetKept, TargetMounted, InTarget
<1>6. QED
  BY <1>1, <1>3, <1>4, <1>5 DEF HostWriters, Located

\* After main() has looked at the target's hook directory the hook is clean.
HookUnwound ==
  ~ FileFaults /\ (attempt <= 1 \/ phase > 3) /\ ((proc = "running" /\ pc = "cleanup_protected") \/ Left)
    => HookClean(disk.hook)

\* Every step keeps the unmasked hook unmasked.
LEMMA HookUnwoundNext ==
  ASSUME TypeInv, FirstHook, TargetKept, HookUnwound, Moves
  PROVE  HookUnwound'
<1>1. Flow /\ DiskWriters /\ Dispatched /\ disk \in Disks /\ ControlOK /\ Located
  BY MovesSummary DEF TypeInv, DataOK
<1>2. SUFFICES ASSUME ~ FileFaults, attempt' <= 1 \/ phase' > 3,
                      (proc' = "running" /\ pc' = "cleanup_protected") \/ Left'
               PROVE  HookClean(disk'.hook)
  BY DEF HookUnwound
<1>3. pc \in {"cleanup_hooks", "cleanup_protected", "exit"} /\ attempt' = attempt
  BY <1>1, <1>2, PhaseNames DEF Flow, Follows, CutShortLands, Left, Located, ControlOK
<1>4. phase' = phase
  BY <1>1, <1>3 DEF Flow, CutShortLands
<1>5. CASE pc = "cleanup_hooks"
  <2>1. ~ Stopped
    BY <1>1, <1>2, <1>5, CutShortEffect DEF CutShortLands, Left, FinallyCalls
  <2>2. CASE host.target = "absent"
    <3>1. disk' = disk
      BY <1>1, <1>5, <2>1, <2>2 DEF Dispatched, CleanupHooks, QuietStep, data
    <3>2. attempt <= 1 /\ phase < 5
      BY <1>1, <1>2, <1>3, <1>4, <1>5, <2>2 DEF TargetKept, ControlOK
    <3>3. QED
      BY <3>1, <3>2 DEF FirstHook
  <2>3. CASE host.target # "absent"
    <3>1. disk' = [disk EXCEPT !.hook = Unmasked(disk.hook)]
      BY <1>1, <1>2, <1>5, <2>1, <2>3 DEF Dispatched, CleanupHooks, QuietStep, HookAmong, DiskAmong, HooksUnmasked
    <3>2. QED
      BY <1>1, <3>1, UnmaskCleans DEF Disks
  <2>4. QED
    BY <2>2, <2>3
<1>6. CASE pc \in {"cleanup_protected", "exit"}
  <2>1. disk'.hook = disk.hook
    BY <1>1, <1>6 DEF DiskWriters
  <2>2. (proc = "running" /\ pc = "cleanup_protected") \/ Left
    BY <1>1, <1>6 DEF Flow, Left
  <2>3. QED
    BY <1>2, <1>3, <1>4, <2>1, <2>2 DEF HookUnwound
<1>7. QED
  BY <1>3, <1>5, <1>6

\* After the first call of the finally the CPUs are no longer boosted.
Unboosted ==
  ~ FileFaults /\ ((proc = "running" /\ pc \in FinallyCalls \ {"restore_governors"}) \/ Left) => ~ host.boosted

\* Every step keeps the governors restored.
LEMMA UnboostedNext ==
  ASSUME TypeInv, Unboosted, Moves
  PROVE  Unboosted'
<1>1. Flow /\ HostWriters /\ Dispatched /\ host \in Hosts /\ ControlOK /\ Located
  BY MovesSummary DEF TypeInv, DataOK
<1>2. SUFFICES ASSUME ~ FileFaults, (proc' = "running" /\ pc' \in FinallyCalls \ {"restore_governors"}) \/ Left'
               PROVE  ~ host'.boosted
  BY DEF Unboosted
<1>3. pc \in FinallyCalls
  BY <1>1, <1>2, PhaseNames DEF Flow, Follows, CutShortLands, Left, Located, ControlOK, FinallyCalls
<1>4. CASE pc = "restore_governors"
  <2>1. ~ Stopped
    BY <1>1, <1>2, <1>4, CutShortEffect DEF CutShortLands, Left, FinallyCalls
  <2>2. host' = [host EXCEPT !.boosted = FALSE]
    BY <1>1, <1>2, <1>4, <2>1 DEF Dispatched, RestoreGovernors, QuietStep, HostAmong
  <2>3. QED
    BY <1>1, <2>2 DEF Hosts
<1>5. CASE pc # "restore_governors"
  <2>1. ~ host.boosted
    BY <1>1, <1>2, <1>3, <1>5 DEF Unboosted, Flow
  <2>2. QED
    BY <1>1, <1>3, <1>5, <2>1 DEF HostWriters, FinallyCalls
<1>6. QED
  BY <1>4, <1>5

\* After the finally around pacstrap the live hooks are clean.
LiveBack ==
  ~ FileFaults /\ (phase > 3 \/ (phase = 3 /\ pc \in {"unmount_cache", "finishers", "fstab", "phase_ok"})) =>
    \A i \in 1..LiveHooks : HookClean(host.live[i])

\* Every step keeps the live hooks clean once they are.
LEMMA LiveBackNext ==
  ASSUME TypeInv, LiveBack, Moves
  PROVE  LiveBack'
<1>1. /\ Flow /\ HostWriters /\ Dispatched /\ Order
      /\ host \in Hosts /\ ControlOK /\ Located
  BY MovesSummary, OrderNext DEF TypeInv, DataOK, Moves
<1>2. SUFFICES ASSUME ~ FileFaults,
                      phase' > 3 \/ (phase' = 3 /\ pc' \in {"unmount_cache", "finishers", "fstab", "phase_ok"})
               PROVE  \A i \in 1..LiveHooks : HookClean(host'.live[i])
  BY DEF LiveBack
<1>3. CASE pc = "unmask_live"
  <2>1. phase = 3 /\ phase' = 3
    BY <1>1, <1>3 DEF Located, Flow, CutShortLands
  <2>2. ~ Stopped
    BY <1>1, <1>2, <1>3, <2>1, CutShortEffect DEF CutShortLands
  <2>3. host' = [host EXCEPT !.live = AllUnmasked(host.live)]
    BY <1>1, <1>2, <1>3, <2>2 DEF Dispatched, UnmaskLive, QuietStep, HostAmong
  <2>4. host'.live = AllUnmasked(host.live) /\ host.live \in [1..LiveHooks -> HookFile]
    BY <1>1, <2>3 DEF Hosts
  <2>5. QED
    BY <2>4, UnmaskCleans DEF AllUnmasked
<1>4. CASE pc # "unmask_live"
  <2>1. phase > 3 \/ (phase = 3 /\ pc \in {"unmount_cache", "finishers", "fstab", "phase_ok"})
    BY <1>1, <1>2, <1>4, PhaseNames DEF Flow, Follows, CutShortLands, Order, Located, ControlOK
  <2>2. pc # "mask_live"
    BY <1>1, <2>1 DEF Located
  <2>3. QED
    BY <1>1, <1>2, <1>4, <2>1, <2>2 DEF LiveBack, HostWriters
<1>5. QED
  BY <1>3, <1>4

-----------------------------------------------------------------------------
(* The bind mounts.                                                        *)

\* The process has not died outside main()'s finally.
Alive == proc \in {"running", "exited"}

\* The old mounts are gone: prepare_live is over.
TornDown == phase > 1 \/ (phase = 1 /\ pc = "phase_ok")

\* A protected attempt starts without binds; what is bound is recorded, but for the
\* log's; and what was recorded is forgotten once it has been unbound.
BindsNoted ==
  /\ Alive /\ pc \in {"cleanup_hooks", "cleanup_protected", "exit"} => mem.recorded = {}
  /\ ctx.protected /\ phase <= 1 => host.binds = {}
  /\ ~ BusyMounts /\ Alive /\ exc # "interrupt" /\ TornDown => host.binds \subseteq mem.recorded \cup {"log"}

\* The log's bind is left by no call but those that will unbind it.
LogNoted ==
  ~ BusyMounts /\ Alive /\ exc = "none" /\ TornDown
    /\ ~ (pc \in {"log_window", "chroot", "unbind_log"} /\ mem.logBound)
  => "log" \notin host.binds

\* An interrupt finds at most one bind made and not recorded, and no other comes after.
OneUnnoted ==
  ~ BusyMounts /\ Alive /\ exc = "interrupt" /\ TornDown =>
    \E b \in Binds : host.binds \subseteq mem.recorded \cup {b}

\* A signal ends the process, or is an interrupt on its way.
LEMMA StoppedAway ==
  ASSUME Stopped
  PROVE  proc' \in {"killed", "aborted"} \/ exc' = "interrupt"
BY DEF Stopped, Interrupt, Terminate, Raise

\* An interrupt on its way is not replaced by an error, unless an umount failed.
LEMMA InterruptStays ==
  ASSUME TypeInv, Raised, Moves, ~ BusyMounts, Alive', exc' # "interrupt"
  PROVE  exc # "interrupt"
<1>1. Flow /\ Dispatched
  BY MovesSummary
<1>2. SUFFICES ASSUME exc = "interrupt" PROVE FALSE
  OBVIOUS
<1>3. pc \in Unwinding \cup {"unmask_live", "unmount_cache", "unbind_log", "unmask_target"}
  BY <1>1, <1>2 DEF Raised, Flow
<1>4. ~ Stopped /\ exc' # exc
  BY <1>2, StoppedAway DEF Alive
<1>5. CASE pc \in {"unmask_live", "unmount_cache", "unbind_log", "unmask_target"}
  BY <1>1, <1>4, <1>5 DEF Dispatched, UnmaskLive, UnmountCache, UnbindLog, UnmaskTarget, QuietStep, Return
<1>6. CASE pc \in {"unwind", "restore_governors", "cleanup_binds"}
  BY <1>1, <1>2, <1>4, <1>6 DEF Dispatched, Unwind, RestoreGovernors, CleanupBinds, QuietStep, Return
<1>7. CASE pc \in {"cleanup_hooks", "cleanup_protected", "exit"}
  BY <1>1, <1>4, <1>7 DEF Dispatched, CleanupHooks, CleanupProtected, Exit, QuietStep, Return
<1>8. QED
  BY <1>3, <1>5, <1>6, <1>7 DEF Unwinding, FinallyCalls

\* Every step keeps the binds recorded.
LEMMA BindsNotedNext ==
  ASSUME TypeInv, Raised, BindsNoted, Moves
  PROVE  BindsNoted'
<1>1. /\ Flow /\ HostWriters /\ MemWriters /\ Dispatched
      /\ host \in Hosts /\ mem \in Mems /\ ControlOK /\ Located
  BY MovesSummary DEF TypeInv, DataOK
<1>2. ASSUME Alive', pc' \in {"cleanup_hooks", "cleanup_protected", "exit"}
      PROVE  mem'.recorded = {}
  <2>1. pc \in {"cleanup_binds", "cleanup_hooks", "cleanup_protected", "exit"}
    BY <1>1, <1>2, PhaseNames DEF Flow, Follows, CutShortLands, Located, ControlOK, Alive
  <2>2. CASE pc = "cleanup_binds"
    <3>1. ~ Stopped
      BY <1>1, <1>2, <2>2, CutShortEffect DEF CutShortLands, Alive, FinallyCalls
    <3>2. mem' = [mem EXCEPT !.recorded = {}]
      BY <1>1, <2>2, <3>1 DEF Dispatched, CleanupBinds
    <3>3. QED
      BY <1>1, <3>2 DEF Mems
  <2>3. CASE pc # "cleanup_binds"
    BY <1>1, <2>1, <2>3 DEF MemWriters, BindsNoted, Flow, Alive
  <2>4. QED
    BY <2>2, <2>3
<1>3. ASSUME ctx'.protected, phase' <= 1
      PROVE  host'.binds = {}
  <2>1. ctx.protected /\ phase <= 1 /\ host.binds = {}
    BY <1>1, <1>3 DEF Flow, CutShortLands, BindsNoted, ControlOK, Located
  <2>2. CASE pc = "prepare_live"
    BY <1>1, <2>1, <2>2 DEF Dispatched, PrepareLive, Step, data
  <2>3. CASE pc = "cleanup_binds"
    BY <1>1, <2>1, <2>3 DEF Dispatched, CleanupBinds, Hosts
  <2>4. CASE pc = "cleanup_protected"
    <3>1. host' \in Teardown(host) \cup TornPartly(host)
                       \cup {[host EXCEPT !.target = "absent", !.binds = {}], Torn(host)}
      BY <1>1, <2>1, <2>4 DEF Dispatched, CleanupProtected, QuietStep, HostAmong
    <3>2. QED
      BY <1>1, <2>1, <3>1, TeardownShrinks
  <2>5. QED
    BY <1>1, <2>1, <2>2, <2>3, <2>4 DEF HostWriters, Located
<1>4. ASSUME ~ BusyMounts, Alive', exc' # "interrupt", TornDown'
      PROVE  host'.binds \subseteq mem'.recorded \cup {"log"}
  <2>1. ~ Stopped /\ exc # "interrupt" /\ Alive
    BY <1>1, <1>4, StoppedAway, InterruptStays DEF Alive, Flow
  <2>2. CASE pc = "prepare_live"
    <3>1. ~ CutShort /\ phase = 1
      BY <1>1, <1>4, <2>2, CutShortEffect DEF CutShortLands, Located, TornDown, Alive
    <3>2. host' = Torn(host) \/ (ctx.protected /\ host' = host)
      BY <1>1, <1>4, <2>2, <3>1 DEF Dispatched, PrepareLive, Step, HostAmong, data, Teardown
    <3>3. Torn(host).binds = {} /\ (ctx.protected => host.binds = {})
      BY <1>1, <3>1 DEF BindsNoted, Torn, Hosts
    <3>4. QED
      BY <3>2, <3>3
  <2>3. CASE pc # "prepare_live"
    <3>1. host.binds \subseteq mem.recorded \cup {"log"}
      <4>1. TornDown
        BY <1>1, <1>4, <2>3, PhaseNames DEF TornDown, Flow, Follows, CutShortLands, Located, ControlOK, Alive
      <4>2. QED
        BY <1>4, <2>1, <4>1 DEF BindsNoted
    <3>2. CASE pc = "mount_cache"
      BY <1>1, <2>1, <3>1, <3>2 DEF Dispatched, MountCache, Hosts, Mems
    <3>3. CASE pc = "unmount_cache"
      BY <1>1, <1>4, <2>1, <3>1, <3>3 DEF Dispatched, UnmountCache, Hosts, Mems
    <3>4. CASE pc = "prepare_target"
      <4>1. \/ host' = host /\ mem' = mem
            \/ \E b \in {{}, {"mirror"}, {"mirror", "packages"}} :
                 /\ host' = [host EXCEPT !.binds = @ \cup b]
                 /\ \/ mem' = [mem EXCEPT !.recorded = @ \cup b]
                    \/ mem' = [[mem EXCEPT !.recorded = @ \cup b] EXCEPT !.prepared = TRUE]
        BY <1>1, <2>1, <3>4 DEF Dispatched, PrepareTarget
      <4>2. \E b : host'.binds \subseteq host.binds \cup b /\ mem'.recorded = mem.recorded \cup b
        <5>1. CASE host' = host /\ mem' = mem
          BY <5>1
        <5>2. CASE ~ (host' = host /\ mem' = mem)
          BY <1>1, <4>1, <5>2 DEF Hosts, Mems
        <5>3. QED
          BY <5>1, <5>2
      <4>3. QED
        BY <3>1, <4>2
    <3>5. CASE pc = "bind_log"
      BY <1>1, <2>1, <3>1, <3>5 DEF Dispatched, BindLog, Hosts, Mems
    <3>6. CASE pc = "unbind_log"
      BY <1>1, <2>1, <3>1, <3>6 DEF Dispatched, UnbindLog, QuietStep, HostAmong, data, Hosts, Mems
    <3>7. CASE pc = "cleanup_binds"
      <4>1. host' = [host EXCEPT !.binds = @ \ mem.recorded]
        BY <1>1, <1>4, <2>1, <3>7 DEF Dispatched, CleanupBinds
      <4>2. host'.binds \subseteq {"log"}
        BY <1>1, <3>1, <4>1 DEF Hosts
      <4>3. QED
        BY <4>2
    <3>8. CASE pc = "cleanup_protected"
      <4>1. host' = host \/ host' = Torn(host)
        BY <1>1, <1>4, <2>1, <3>8 DEF Dispatched, CleanupProtected, QuietStep, HostAmong, data, Teardown
      <4>2. host'.binds \subseteq host.binds /\ mem'.recorded = mem.recorded
        BY <1>1, <3>8, <4>1 DEF Torn, Hosts, MemWriters
      <4>3. QED
        BY <3>1, <4>2
    <3>9. QED
      BY <1>1, <2>3, <3>1, <3>2, <3>3, <3>4, <3>5, <3>6, <3>7, <3>8 DEF HostWriters, MemWriters
  <2>4. QED
    BY <2>2, <2>3
<1>5. QED
  BY <1>2, <1>3, <1>4 DEF BindsNoted

\* Every step keeps the log's bind to the calls that unbind it.
LEMMA LogNotedNext ==
  ASSUME TypeInv, Raised, BindsNoted, LogNoted, Moves
  PROVE  LogNoted'
<1>1. /\ Flow /\ HostWriters /\ MemWriters /\ Dispatched
      /\ host \in Hosts /\ mem \in Mems /\ ControlOK /\ Located
  BY MovesSummary DEF TypeInv, DataOK
<1>2. SUFFICES ASSUME ~ BusyMounts, Alive', exc' = "none", TornDown',
                      ~ (pc' \in {"log_window", "chroot", "unbind_log"} /\ mem'.logBound)
               PROVE  "log" \notin host'.binds
  BY DEF LogNoted
<1>3. ~ Stopped /\ ~ CutShort /\ exc = "none" /\ Alive
  BY <1>1, <1>2, CutShortEffect DEF CutShortLands, Alive, Flow
<1>4. CASE pc = "prepare_live"
  <2>1. host' = Torn(host) \/ (ctx.protected /\ phase = 1 /\ host' = host)
    BY <1>1, <1>2, <1>3, <1>4 DEF Dispatched, PrepareLive, Step, HostAmong, data, Teardown, Located
  <2>2. Torn(host).binds = {} /\ (ctx.protected /\ phase = 1 => host.binds = {})
    BY <1>1 DEF BindsNoted, Torn, Hosts
  <2>3. QED
    BY <2>1, <2>2
<1>5. CASE pc = "bind_log"
  <2>1. \/ pc' = "log_window" /\ mem' = [mem EXCEPT !.logBound = TRUE]
        \/ host' = host
    BY <1>1, <1>3, <1>5 DEF Dispatched, BindLog, Return
  <2>2. host' = host
    BY <1>1, <1>2, <2>1 DEF Mems
  <2>3. QED
    BY <1>1, <1>2, <1>3, <1>5, <2>2 DEF LogNoted, TornDown, Located
<1>6. CASE pc = "unbind_log"
  <2>1. CASE mem.logBound
    BY <1>1, <1>2, <1>3, <1>6, <2>1 DEF Dispatched, UnbindLog, QuietStep, HostAmong, Hosts
  <2>2. CASE ~ mem.logBound
    BY <1>1, <1>2, <1>3, <1>6, <2>2 DEF Dispatched, UnbindLog, QuietStep, data, LogNoted, TornDown, Located
  <2>3. QED
    BY <2>1, <2>2
<1>7. CASE pc \notin {"prepare_live", "bind_log", "unbind_log"}
  <2>1. "log" \notin host.binds
    <3>1. TornDown
      BY <1>1, <1>2, <1>7, PhaseNames DEF TornDown, Flow, Follows, CutShortLands, Located, ControlOK, Alive
    <3>2. ~ (pc \in {"log_window", "chroot", "unbind_log"} /\ mem.logBound)
      BY <1>1, <1>2, <1>3, <1>7 DEF Flow, Follows, CutShortLands, MemWriters, Located, Alive
    <3>3. QED
      BY <1>2, <1>3, <3>1, <3>2 DEF LogNoted
  <2>2. CASE pc = "mount_cache"
    BY <1>1, <1>3, <2>1, <2>2 DEF Dispatched, MountCache, Hosts
  <2>3. CASE pc = "unmount_cache"
    BY <1>1, <1>2, <1>3, <2>1, <2>3 DEF Dispatched, UnmountCache, Hosts
  <2>4. CASE pc = "prepare_target"
    BY <1>1, <1>3, <2>1, <2>4 DEF Dispatched, PrepareTarget, Hosts
  <2>5. CASE pc = "cleanup_binds"
    BY <1>1, <1>3, <2>1, <2>5 DEF Dispatched, CleanupBinds, Hosts
  <2>6. CASE pc = "cleanup_protected"
    <3>1. host' = host \/ host' = Torn(host)
      BY <1>1, <1>2, <1>3, <2>6 DEF Dispatched, CleanupProtected, QuietStep, HostAmong, data, Teardown
    <3>2. QED
      BY <1>1, <2>1, <3>1 DEF Torn, Hosts
  <2>7. QED
    BY <1>1, <1>7, <2>1, <2>2, <2>3, <2>4, <2>5, <2>6 DEF HostWriters
<1>8. QED
  BY <1>4, <1>5, <1>6, <1>7

\* Every step keeps all binds but one recorded when an interrupt is on its way.
LEMMA OneUnnotedNext ==
  ASSUME TypeInv, Raised, BindsNoted, LogNoted, OneUnnoted, Moves
  PROVE  OneUnnoted'
<1>1. /\ Flow /\ HostWriters /\ MemWriters /\ Dispatched
      /\ host \in Hosts /\ mem \in Mems /\ ControlOK /\ Located
  BY MovesSummary DEF TypeInv, DataOK
<1>2. SUFFICES ASSUME ~ BusyMounts, Alive', exc' = "interrupt", TornDown'
               PROVE  \E b \in Binds : host'.binds \subseteq mem'.recorded \cup {b}
  BY DEF OneUnnoted
<1>3. Alive
  BY <1>1 DEF Flow, Alive
<1>4. exc = "interrupt" => pc \in Unwinding \cup {"unmask_live", "unmount_cache", "unbind_log", "unmask_target"}
  BY <1>1 DEF Raised, Flow
<1>5. TornDown /\ pc # "prepare_live"
  <2>1. CASE exc = "interrupt"
    BY <1>1, <1>2, <1>4, <2>1 DEF TornDown, Flow, Follows, CutShortLands, Located, ControlOK, Alive, Unwinding, FinallyCalls
  <2>2. CASE exc # "interrupt"
    BY <1>1, <1>2, <2>2 DEF TornDown, Flow, CutShortLands, Located, Alive
  <2>3. QED
    BY <2>1, <2>2
<1>6. pc = "unmount_cache" => \/ host'.binds = host.binds /\ mem'.recorded = mem.recorded
                             \/ /\ host'.binds = host.binds \ {"pkgcache"}
                                /\ mem'.recorded \in {mem.recorded, mem.recorded \ {"pkgcache"}}
  BY <1>1, <1>2 DEF Dispatched, UnmountCache, Hosts, Mems
<1>7. pc = "unbind_log" => host'.binds \subseteq host.binds
  BY <1>1 DEF Dispatched, UnbindLog, QuietStep, HostAmong, data, Hosts
<1>8. pc = "cleanup_binds" => host'.binds = host.binds \ mem.recorded
  <2>1. SUFFICES ASSUME pc = "cleanup_binds" PROVE host'.binds = host.binds \ mem.recorded
    OBVIOUS
  <2>2. ~ Stopped
    BY <1>1, <1>2, <2>1, CutShortEffect DEF CutShortLands, Alive, FinallyCalls
  <2>3. host' = [host EXCEPT !.binds = @ \ mem.recorded]
    BY <1>1, <1>2, <2>1, <2>2 DEF Dispatched, CleanupBinds
  <2>4. QED
    BY <1>1, <2>3 DEF Hosts
<1>9. pc = "cleanup_protected" => host'.binds \subseteq host.binds
  <2>1. SUFFICES ASSUME pc = "cleanup_protected" PROVE host'.binds \subseteq host.binds
    OBVIOUS
  <2>2. host' = host \/ host' \in Teardown(host) \cup TornPartly(host)
                                     \cup {[host EXCEPT !.target = "absent", !.binds = {}], Torn(host)}
    BY <1>1, <2>1 DEF Dispatched, CleanupProtected, QuietStep, HostAmong, data
  <2>3. QED
    BY <1>1, <2>2, TeardownShrinks
<1>10. ASSUME NEW b \in Binds, host.binds \subseteq mem.recorded \cup {b},
              pc \notin {"mount_cache", "prepare_target", "bind_log"}
       PROVE  host'.binds \subseteq mem'.recorded \cup {b}
  <2>1. CASE pc = "unmount_cache"
    BY <1>6, <1>10, <2>1
  <2>2. CASE pc \in {"unbind_log", "cleanup_protected"}
    BY <1>1, <1>7, <1>9, <1>10, <2>2 DEF MemWriters
  <2>3. CASE pc = "cleanup_binds"
    BY <1>8, <1>10, <2>3
  <2>4. QED
    BY <1>1, <1>5, <1>10, <2>1, <2>2, <2>3 DEF HostWriters, MemWriters
<1>11. CASE exc = "interrupt"
  <2>1. PICK b \in Binds : host.binds \subseteq mem.recorded \cup {b}
    BY <1>2, <1>3, <1>5, <1>11 DEF OneUnnoted
  <2>2. pc \notin {"mount_cache", "prepare_target", "bind_log"}
    BY <1>4, <1>11 DEF Unwinding, FinallyCalls
  <2>3. QED
    BY <1>10, <2>1, <2>2
<1>12. CASE exc # "interrupt"
  <2>1. host.binds \subseteq mem.recorded \cup {"log"}
    BY <1>2, <1>3, <1>5, <1>12 DEF BindsNoted
  <2>2. ASSUME pc \in {"mount_cache", "prepare_target"} PROVE host.binds \subseteq mem.recorded
    <3>1. exc = "none"
      BY <1>1, <2>2 DEF Raised, Flow, Unwinding, FinallyCalls
    <3>2. "log" \notin host.binds
      BY <1>2, <1>3, <1>5, <2>2, <3>1 DEF LogNoted
    <3>3. QED
      BY <2>1, <3>2
  <2>3. CASE pc = "mount_cache"
    <3>1. host'.binds \subseteq host.binds \cup {"pkgcache"} /\ mem.recorded \subseteq mem'.recorded
      BY <1>1, <2>3 DEF Dispatched, MountCache, Hosts, Mems
    <3>2. QED
      BY <2>2, <2>3, <3>1 DEF Binds
  <2>4. CASE pc = "prepare_target"
    <3>1. \E b \in Binds : host'.binds \subseteq host.binds \cup (mem'.recorded \cup {b}) /\ mem.recorded \subseteq mem'.recorded
      <4>1. CASE host' = host /\ mem' = mem
        BY <4>1 DEF Binds
      <4>2. CASE \E s \in {{}, {"mirror"}, {"mirror", "packages"}} :
                   /\ host' = [host EXCEPT !.binds = @ \cup s]
                   /\ \/ mem' = [mem EXCEPT !.recorded = @ \cup s]
                      \/ mem' = [[mem EXCEPT !.recorded = @ \cup s] EXCEPT !.prepared = TRUE]
        <5>1. PICK s : host'.binds = host.binds \cup s /\ mem'.recorded = mem.recorded \cup s
          BY <1>1, <4>2 DEF Hosts, Mems
        <5>2. QED
          BY <5>1 DEF Binds
      <4>3. CASE \E s \in {{"mirror"}, {"mirror", "packages"}} :
                   /\ host' = [host EXCEPT !.binds = @ \cup s]
                   /\ mem' = [mem EXCEPT !.recorded = @ \cup IF s = {"mirror", "packages"} THEN {"mirror"} ELSE {}]
        <5>1. CASE host' = [host EXCEPT !.binds = @ \cup {"mirror"}] /\ mem' = [mem EXCEPT !.recorded = @ \cup {}]
          BY <1>1, <5>1 DEF Hosts, Mems, Binds
        <5>2. CASE /\ host' = [host EXCEPT !.binds = @ \cup {"mirror", "packages"}]
                   /\ mem' = [mem EXCEPT !.recorded = @ \cup {"mirror"}]
          BY <1>1, <5>2 DEF Hosts, Mems, Binds
        <5>3. {"mirror"} # {"mirror", "packages"}
          OBVIOUS
        <5>4. QED
          BY <4>3, <5>1, <5>2, <5>3
      <4>4. QED
        BY <1>1, <2>4, <4>1, <4>2, <4>3 DEF Dispatched, PrepareTarget
    <3>2. QED
      BY <2>2, <2>4, <3>1
  <2>5. CASE pc = "bind_log"
    <3>1. host'.binds \subseteq host.binds \cup {"log"} /\ mem'.recorded = mem.recorded
      BY <1>1, <2>5 DEF Dispatched, BindLog, Hosts, MemWriters
    <3>2. QED
      BY <2>1, <3>1 DEF Binds
  <2>6. CASE pc \notin {"mount_cache", "prepare_target", "bind_log"}
    BY <1>10, <2>1, <2>6 DEF Binds
  <2>7. QED
    BY <2>3, <2>4, <2>5, <2>6
<1>13. QED
  BY <1>11, <1>12

-----------------------------------------------------------------------------
(* The unwinding invariant.                                                *)

(***************************************************************************)
(* What the clean-up of an attempt relies on: where an exception may be,   *)
(* which masks are on, what is mounted and noted, and what each call of    *)
(* the finally has undone.                                                 *)
(***************************************************************************)
UnwindInv ==
  /\ Raised /\ GivenBack
  /\ MasksOn /\ NothingBuilt
  /\ FirstHook /\ TargetKept /\ HookUnwound /\ Unboosted /\ LiveBack
  /\ BindsNoted /\ LogNoted /\ OneUnnoted

\* It holds before the first attempt.
LEMMA UnwindInit == Init => UnwindInv
<1> SUFFICES ASSUME Init PROVE UnwindInv
  OBVIOUS
<1>1. /\ attempt = 0 /\ proc = "none" /\ pc = "from_env" /\ phase = 0 /\ exc = "none" /\ rc = "none"
      /\ ~ ctx.protected /\ disk = BlankDisk
  BY DEF Init
<1>2. BlankDisk.hook = NoHook
  BY DEF BlankDisk
<1>3. Raised /\ GivenBack /\ MasksOn /\ NothingBuilt
  BY <1>1 DEF Raised, GivenBack, MasksOn, NothingBuilt, Unbuilt, Left
<1>4. FirstHook /\ TargetKept /\ HookUnwound /\ Unboosted /\ LiveBack
  BY <1>1, <1>2 DEF FirstHook, HookClean, TargetKept, HookUnwound, Unboosted, LiveBack, Left
<1>5. BindsNoted /\ LogNoted /\ OneUnnoted
  BY <1>1 DEF BindsNoted, LogNoted, OneUnnoted, Alive, TornDown
<1>6. QED
  BY <1>3, <1>4, <1>5 DEF UnwindInv

\* An attempt starts with it, whatever the one before left.
LEMMA UnwindStart ==
  ASSUME TypeInv, FirstHook, StartAttempt
  PROVE  UnwindInv'
<1>1. host \in Hosts /\ attempt \in Nat
  BY DEF TypeInv, DataOK, ControlOK
<1>2. /\ proc' = "running" /\ pc' = "from_env" /\ phase' = 0 /\ exc' = "none" /\ rc' = "none"
      /\ attempt' = attempt + 1 /\ disk' \in {disk, BlankDisk}
      /\ ctx'.protected => disk' = BlankDisk /\ host'.binds = {}
  BY <1>1 DEF StartAttempt, Hosts
<1>3. BlankDisk.hook = NoHook /\ BlankDisk.uki = {}
  BY DEF BlankDisk
<1>4. Raised' /\ GivenBack' /\ MasksOn' /\ NothingBuilt'
  BY <1>2, <1>3 DEF Raised, GivenBack, MasksOn, NothingBuilt, Unbuilt, Left
<1>5. FirstHook' /\ TargetKept' /\ HookUnwound' /\ Unboosted' /\ LiveBack'
  <2>1. attempt' # 0 /\ (attempt' <= 1 => attempt = 0)
    BY <1>1, <1>2
  <2>2. FirstHook'
    BY <1>2, <1>3, <2>1 DEF FirstHook, HookClean
  <2>3. QED
    BY <1>2, <2>2 DEF TargetKept, HookUnwound, Unboosted, LiveBack, Left, FinallyCalls
<1>6. BindsNoted' /\ LogNoted' /\ OneUnnoted'
  BY <1>2 DEF BindsNoted, LogNoted, OneUnnoted, Alive, TornDown
<1>7. QED
  BY <1>4, <1>5, <1>6 DEF UnwindInv

\* Every step keeps it.
LEMMA UnwindStep == IInv /\ UnwindInv /\ [Next]_vars => UnwindInv'
<1>1. ASSUME IInv, UnwindInv, Moves PROVE UnwindInv'
  <2>1. TypeInv /\ TargetMounted
    BY <1>1 DEF IInv
  <2>2. Raised' /\ GivenBack'
    BY <1>1, <2>1, RaisedNext, GivenBackNext DEF UnwindInv
  <2>3. MasksOn' /\ NothingBuilt'
    BY <1>1, <2>1, MasksOnNext, NothingBuiltNext DEF UnwindInv
  <2>4. FirstHook' /\ TargetKept'
    BY <1>1, <2>1, FirstHookNext, TargetKeptNext DEF UnwindInv
  <2>5. HookUnwound' /\ Unboosted' /\ LiveBack'
    BY <1>1, <2>1, HookUnwoundNext, UnboostedNext, LiveBackNext DEF UnwindInv
  <2>6. BindsNoted' /\ LogNoted' /\ OneUnnoted'
    BY <1>1, <2>1, BindsNotedNext, LogNotedNext, OneUnnotedNext DEF UnwindInv
  <2>7. QED
    BY <2>2, <2>3, <2>4, <2>5, <2>6 DEF UnwindInv
<1>2. ASSUME IInv, UnwindInv, StartAttempt PROVE UnwindInv'
  BY <1>2, UnwindStart DEF IInv, UnwindInv
<1>3. UnwindInv /\ UNCHANGED vars => UnwindInv'
  BY DEF UnwindInv, Raised, GivenBack, Left, MasksOn, NothingBuilt, Unbuilt, FirstHook, TargetKept, HookUnwound,
         Unboosted, LiveBack, BindsNoted, LogNoted, OneUnnoted, Alive, TornDown, vars
<1>4. QED
  BY <1>1, <1>2, <1>3 DEF Moves, Rest

\* The unwinding invariant: what each call of the clean-up finds and leaves.
THEOREM UnwindInvariant == Spec => [](IInv /\ UnwindInv)
BY UnwindInit, UnwindStep, InductiveInvariant, PTL DEF Spec

(***************************************************************************)
(* No UKI is built before limine-update: pacman finds every hook that      *)
(* would build one masked, whatever an earlier attempt left of the masks.  *)
(***************************************************************************)
THEOREM BuiltOnce == Spec => []NoThrowawayBuild
<1>1. IInv /\ UnwindInv => NoThrowawayBuild
  BY DEF IInv, TypeInv, Located, UnwindInv, NothingBuilt, Unbuilt, NoThrowawayBuild, At
<1>2. QED
  BY <1>1, UnwindInvariant, PTL

(***************************************************************************)
(* A protected attempt that fails or is interrupted gives the disk back:   *)
(* target unmounted, nothing bound, mapper closed                          *)
(* (cleanup_protected_state).                                              *)
(***************************************************************************)
THEOREM DiskGivenBack == Spec => []ProtectedGivesDiskBack
<1>1. UnwindInv => ProtectedGivesDiskBack
  BY DEF UnwindInv, GivenBack, Left, ProtectedGivesDiskBack
<1>2. QED
  BY <1>1, UnwindInvariant, PTL

(***************************************************************************)
(* main()'s finally undoes the masks, the boost and the bind mounts of the *)
(* attempt it ends, and a success leaves every live hook as it was found   *)
(* (cleanup_target_hook_masks, restore_cpu_governors, cleanup_bind_mounts, *)
(* the unmask after pacstrap).                                             *)
(***************************************************************************)
THEOREM AttemptUnwound == Spec => []Unwound
<1>1. ASSUME IInv, UnwindInv PROVE Unwound
  <2>1. /\ ControlOK /\ AnnouncedLast /\ Raised /\ HookUnwound /\ Unboosted /\ LiveBack
        /\ BindsNoted /\ LogNoted /\ OneUnnoted
    BY <1>1 DEF IInv, TypeInv, UnwindInv
  <2>2. NoHook = [path |-> "absent", backup |-> "absent"] /\ InstalledHook = [path |-> "real", backup |-> "absent"]
    BY DEF NoHook, InstalledHook
  <2>3. MaskUnwound
    BY <2>1, <2>2 DEF HookUnwound, Unboosted, Left, HookClean, MaskUnwound, IsMasked
  <2>4. BindsUnwound
    <3>1. SUFFICES ASSUME proc = "exited", phase > 1, ~ BusyMounts
                   PROVE  /\ rc = "ok" => host.binds = {}
                          /\ rc = "failed" => host.binds \subseteq {"log"}
                          /\ rc = "interrupted" => \E b \in Binds : host.binds \subseteq {b}
      BY DEF BindsUnwound
    <3>2. /\ pc = "exit" /\ exc \in {"none", "error", "interrupt"}
          /\ (rc = "ok" <=> exc = "none") /\ (rc = "failed" <=> exc = "error")
      BY <2>1, <3>1 DEF Raised, ControlOK
    <3>3. /\ mem.recorded = {}
          /\ exc # "interrupt" => host.binds \subseteq {"log"}
      BY <2>1, <3>1, <3>2 DEF BindsNoted, Alive, TornDown
    <3>4. rc = "ok" => "log" \notin host.binds
      BY <2>1, <3>1, <3>2 DEF LogNoted, Alive, TornDown
    <3>5. exc = "interrupt" => \E b \in Binds : host.binds \subseteq {b}
      BY <2>1, <3>1, <3>3 DEF OneUnnoted, Alive, TornDown
    <3>6. QED
      BY <3>2, <3>3, <3>4, <3>5
  <2>5. LiveHooksBack
    BY <2>1 DEF AnnouncedLast, LiveBack, HookClean, LiveHooksBack
  <2>6. QED
    BY <2>3, <2>4, <2>5 DEF Unwound
<1>2. QED
  BY <1>1, UnwindInvariant, PTL
=============================================================================
