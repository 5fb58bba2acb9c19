---------------------------- MODULE Orchestrator ----------------------------
(***************************************************************************)
(* One install attempt of the live ISO, as the Python process sees it:     *)
(* main() builds the context, boosts the CPUs, and has run() take the      *)
(* fourteen phases of build_phases() in order; whatever ends the run, the  *)
(* finally block of main() undoes what the phases did to the live system.  *)
(*                                                                         *)
(* A step is one call.  It either completes or is cut short, and then it   *)
(* leaves any prefix of its effects behind: by an exception of its own, by *)
(* a KeyboardInterrupt (SIGINT), which Python raises at the current line,  *)
(* or by a signal Python does not handle (SIGTERM), which ends the process *)
(* on the spot.  An exception travels to the innermost enclosing finally.  *)
(*                                                                         *)
(* An attempt that stopped may be followed by another one in the same live *)
(* session: the wizard says "You can retry later by running:               *)
(* ./.automated_script.sh".                                                *)
(***************************************************************************)
EXTENDS Naturals, Sequences, PacmanHooks

CONSTANTS
  LiveHooks,    \* how many hooks of the live system are deferred
  Signals,      \* the signals that may reach the process: "INT", "TERM"
  MaxSignals,   \* bound: signals delivered over all attempts
  MaxAttempts,  \* bound: attempts in one live session
  FileFaults,   \* may a file operation fail whose OSError is swallowed?
  BusyMounts    \* may an umount find its mount point busy?

ASSUME OrchestratorAssumption ==
  /\ LiveHooks \in Nat
  /\ Signals \subseteq {"INT", "TERM"}
  /\ MaxSignals \in Nat
  /\ MaxAttempts \in Nat
  /\ FileFaults \in BOOLEAN
  /\ BusyMounts \in BOOLEAN

VARIABLES
  attempt,    \* attempts started in this live session
  signals,    \* signals delivered so far
  ctx,        \* the InstallContext: [protected, deferred]
  proc,       \* the process: "none", "running", "exited", "aborted", "killed"
  pc,         \* the call about to be made
  phase,      \* enumerate() index of run(), counted from 1; 0 before the loop
  exc,        \* the exception in flight: "none", "error", "interrupt"
  rc,         \* why the process ended
  stateFile,  \* state.json: what the dashboard reads
  mem,        \* ctx.state and locals: lost with the process
  host,       \* the live system: mounts, hook directory, governors
  disk        \* the target's root file system

env == <<attempt, signals, ctx>>
control == <<proc, pc, phase, exc, rc>>
data == <<stateFile, mem, host, disk>>
vars == <<attempt, signals, ctx, proc, pc, phase, exc, rc, stateFile, mem, host, disk>>

-----------------------------------------------------------------------------
(* The program text: the phases in order, and where an exception goes.     *)

\* Seeded fault: provisioning is staged after the final UKI build.
PhasesStagedLate == <<
  "prepare_live", "prepare_install_target", "arch_install_system",
  "configure_hibernation", "run_system_finalizer", "finalize_limine_boot",
  "stage_provisioning_state", "run_chroot_finalizer", "configure_login",
  "configure_ssh_access", "configure_tailscale", "configure_dns_resolver",
  "validate_boot", "create_factory_snapshot" >>

Phases == <<
  "prepare_live", "prepare_install_target", "arch_install_system",
  "configure_hibernation", "run_system_finalizer", "stage_provisioning_state",
  "finalize_limine_boot", "run_chroot_finalizer", "configure_login",
  "configure_ssh_access", "configure_tailscale", "configure_dns_resolver",
  "validate_boot", "create_factory_snapshot" >>

\* The calls a phase makes after its first one.
InnerCalls == {
  "mount_layout", "mount_cache", "mask_live", "packages", "unmask_live",
  "unmount_cache", "finishers", "fstab",
  "prepare_target", "bind_log", "log_window", "chroot", "unbind_log",
  "unmask_target", "limine_update", "assert_hooks", "check_boot" }

RunCalls == {"init_state", "phase_start", "phase_ok", "finish", "timing", "unwind"}
FinallyCalls == {"restore_governors", "cleanup_binds", "cleanup_hooks", "cleanup_protected", "exit"}

Calls == {"from_env", "boost"} \cup {Phases[i] : i \in 1..Len(Phases)}
           \cup InnerCalls \cup RunCalls \cup FinallyCalls

\* The bind mounts a run makes under the target.
Binds == {"pkgcache", "mirror", "packages", "log"}

\* What the UKI is built from: the Limine defaults and the drop-ins of phases.
BootInputs == {"defaults", "hibernation", "hardware", "provisioning", "platform"}

InSystemFinalizer == Phases[phase] = "run_system_finalizer"

(***************************************************************************)
(* Where the exception raised by a call lands: the finally of the same     *)
(* function, the except of run() ("unwind"), main()'s finally, or nowhere  *)
(* when main() has no try around the call (the interpreter exits with a    *)
(* traceback and no cleanup).                                              *)
(***************************************************************************)
Handler(call) ==
  CASE call = "packages" -> "unmask_live"
    [] call = "chroot" -> "unbind_log"
    [] call \in {"prepare_target", "bind_log", "log_window", "unbind_log"} ->
         IF InSystemFinalizer THEN "unmask_target" ELSE "unwind"
    [] call \in RunCalls -> "restore_governors"
    [] call \in FinallyCalls \cup {"from_env", "boost"} -> "nowhere"
    [] OTHER -> "unwind"

\* Seeded fault: the target is unmounted before its hooks are unmasked.
AfterCleanupUnmountFirst(call) ==
  CASE call = "restore_governors" -> "cleanup_binds"
    [] call = "cleanup_binds" -> IF mem.success THEN "cleanup_hooks" ELSE "cleanup_protected"
    [] call = "cleanup_protected" -> "cleanup_hooks"
    [] call = "cleanup_hooks" -> "exit"

\* The order of main()'s finally block.
AfterCleanup(call) ==
  CASE call = "restore_governors" -> "cleanup_binds"
    [] call = "cleanup_binds" -> "cleanup_hooks"
    [] call = "cleanup_hooks" -> IF mem.success THEN "exit" ELSE "cleanup_protected"
    [] call = "cleanup_protected" -> "exit"

-----------------------------------------------------------------------------
(* Control: a call completes, or it is cut short.                          *)

Return(next) ==
  /\ pc' = next
  /\ UNCHANGED <<proc, phase, exc, rc, env>>

Raise(e) ==
  /\ exc' = e
  /\ IF Handler(pc) = "nowhere"
     THEN /\ proc' = "aborted"
          /\ rc' = "traceback"
          /\ UNCHANGED pc
     ELSE /\ pc' = Handler(pc)
          /\ UNCHANGED <<proc, rc>>
  /\ UNCHANGED phase

Interrupt ==
  /\ "INT" \in Signals
  /\ signals < MaxSignals
  /\ signals' = signals + 1
  /\ Raise("interrupt")
  /\ UNCHANGED <<attempt, ctx>>

Terminate ==
  /\ "TERM" \in Signals
  /\ signals < MaxSignals
  /\ signals' = signals + 1
  /\ proc' = "killed"
  /\ rc' = "signal"
  /\ UNCHANGED <<pc, phase, exc, attempt, ctx>>

Fail == Raise("error") /\ UNCHANGED env

Stopped == Interrupt \/ Terminate
CutShort == Fail \/ Stopped

At(call) == proc = "running" /\ pc = call

(***************************************************************************)
(* The shape of nearly every step: the call either has all of its effects, *)
(* given by done, or is cut short with a prefix of them, given by partly.  *)
(***************************************************************************)
Step(call, next, done, partly) ==
  /\ At(call)
  /\ \/ done /\ Return(next)
     \/ partly /\ CutShort

\* A call whose errors are swallowed: only a signal cuts it short.
QuietStep(call, next, done, partly) ==
  /\ At(call)
  /\ \/ done /\ Return(next)
     \/ partly /\ Stopped

\* A finally block that completes lets the exception in flight go on.
EndFinally(next, outer) == IF exc = "none" THEN next ELSE outer

HostBecomes(h) == host' = h /\ UNCHANGED <<stateFile, mem, disk>>
HostAmong(hs) == host' \in hs /\ UNCHANGED <<stateFile, mem, disk>>
DiskBecomes(d) == disk' = d /\ UNCHANGED <<stateFile, mem, host>>
DiskAmong(ds) == disk' \in ds /\ UNCHANGED <<stateFile, mem, host>>
MemBecomes(m) == mem' = m /\ UNCHANGED <<stateFile, host, disk>>
WriteState(s) == stateFile' = s /\ UNCHANGED <<mem, host, disk>>
\* _write_state replaces the file in one rename: the old one or the new one.
WriteStatePartly(s) == stateFile' \in {stateFile, s} /\ UNCHANGED <<mem, host, disk>>

-----------------------------------------------------------------------------
(* The data.                                                               *)

NoState == [present |-> FALSE, index |-> 0, ok |-> 0, failed |-> FALSE, finished |-> FALSE]
FreshMem == [recorded |-> {}, prepared |-> FALSE, logBound |-> FALSE, tries |-> 1, success |-> FALSE]
BlankDisk == [packages |-> FALSE, hook |-> NoHook, fstab |-> "none", boot |-> {}, uki |-> {}]

Retries == 3

Init ==
  /\ attempt = 0
  /\ signals = 0
  /\ ctx = [protected |-> FALSE, deferred |-> FALSE]
  /\ proc = "none"
  /\ pc = "from_env"
  /\ phase = 0
  /\ exc = "none"
  /\ rc = "none"
  /\ stateFile = NoState
  /\ mem = FreshMem
  /\ \E live \in [1..LiveHooks -> {NoHook, InstalledHook}] :
       host = [target |-> "absent", mapper |-> FALSE, binds |-> {}, live |-> live, boosted |-> FALSE]
  /\ disk = BlankDisk

Ended == proc \in {"none", "aborted", "killed"} \/ (proc = "exited" /\ rc # "ok")

(***************************************************************************)
(* .automated_script.sh: collect the inputs, drop the state file of an     *)
(* earlier attempt, start the installer.  For a protected install the      *)
(* configurator has just made and mounted a new layout at /mnt (an         *)
(* autoinstall rig may have left some of that undone).                     *)
(***************************************************************************)
StartAttempt ==
  /\ Ended
  /\ attempt < MaxAttempts
  /\ attempt' = attempt + 1
  /\ ctx' \in [protected : BOOLEAN, deferred : BOOLEAN]
  /\ \/ /\ ctx'.protected
        /\ \E t \in {"absent", "noesp", "mounted"}, m \in BOOLEAN :
             host' = [host EXCEPT !.target = t, !.mapper = m, !.binds = {}]
        /\ disk' = BlankDisk
     \/ /\ ~ ctx'.protected
        /\ UNCHANGED <<host, disk>>
  /\ stateFile' = NoState
  /\ mem' = FreshMem
  /\ proc' = "running"
  /\ pc' = "from_env"
  /\ phase' = 0
  /\ exc' = "none"
  /\ rc' = "none"
  /\ UNCHANGED signals

-----------------------------------------------------------------------------
(* main() and run()                                                        *)

\* A configuration error returns 2 from before the try: nothing to undo.
FromEnv ==
  /\ At("from_env")
  /\ UNCHANGED data
  /\ \/ Return("boost")
     \/ /\ proc' = "exited"
        /\ rc' = "config"
        /\ UNCHANGED <<pc, phase, exc, env>>
     \/ CutShort

BoostGovernor ==
  QuietStep("boost", "init_state",
    HostAmong({host, [host EXCEPT !.boosted = TRUE]}),
    HostAmong({host, [host EXCEPT !.boosted = TRUE]}))

InitState ==
  LET s == [NoState EXCEPT !.present = TRUE]
  IN  /\ At("init_state")
      /\ \/ /\ WriteState(s)
            /\ pc' = "phase_start"
            /\ phase' = 1
            /\ UNCHANGED <<proc, exc, rc, env>>
         \/ WriteStatePartly(s) /\ CutShort

PhaseStart ==
  LET s == [stateFile EXCEPT !.index = phase]
  IN  Step("phase_start", Phases[phase], WriteState(s), WriteStatePartly(s))

PhaseOk ==
  LET s == [stateFile EXCEPT !.ok = phase]
  IN  /\ At("phase_ok")
      /\ \/ /\ WriteState(s)
            /\ IF phase < Len(Phases)
               THEN pc' = "phase_start" /\ phase' = phase + 1
               ELSE pc' = "finish" /\ UNCHANGED phase
            /\ UNCHANGED <<proc, exc, rc, env>>
         \/ WriteStatePartly(s) /\ CutShort

\* The except of run() catches Exception, which KeyboardInterrupt is not.
Unwind ==
  LET s == [stateFile EXCEPT !.failed = TRUE]
  IN  \/ /\ exc = "error"
         /\ Step("unwind", "restore_governors", WriteState(s), WriteStatePartly(s))
      \/ /\ exc = "interrupt"
         /\ QuietStep("unwind", "restore_governors", UNCHANGED data, UNCHANGED data)

Finish ==
  LET s == [stateFile EXCEPT !.finished = TRUE]
  IN  Step("finish", "timing", WriteState(s), WriteStatePartly(s))

\* The copy of the final state in the target's /var/log; run() returns, and
\* between success = True and the finally there is still a message to print.
WriteTiming ==
  LET succeeded == [mem EXCEPT !.success = TRUE]
  IN  Step("timing", "restore_governors",
        MemBecomes(succeeded),
        mem' \in {mem, succeeded} /\ UNCHANGED <<stateFile, host, disk>>)

-----------------------------------------------------------------------------
(* Phases 1 and 2: the live system and the target's mounts.                *)

Torn(h) == [h EXCEPT !.target = "absent", !.mapper = FALSE, !.binds = {}]

\* What umount -R and cryptsetup close leave when a mount point is busy: some
\* submounts are gone, the root is still there and so the mapper stays open.
TornPartly(h) ==
  LET Left(t) == {[h EXCEPT !.target = t, !.binds = b] : b \in SUBSET h.binds}
  IN  IF h.target = "absent" THEN {h, [h EXCEPT !.mapper = FALSE]}
                             ELSE Left(h.target) \cup Left("noesp")

Teardown(h) == {Torn(h)} \cup IF BusyMounts THEN TornPartly(h) ELSE {}

\* omarchy-iso-cleanup-disk swallows the failures of its own commands.
PrepareLive ==
  IF ctx.protected
  THEN Step("prepare_live", "phase_ok", UNCHANGED data, UNCHANGED data)
  ELSE Step("prepare_live", "phase_ok",
         HostAmong(Teardown(host)), HostAmong(TornPartly(host) \cup {Torn(host)}))

\* verify_protected_mounts: the root must be mounted, the ESP is remounted.
PrepareInstallTarget ==
  /\ At("prepare_install_target")
  /\ \/ /\ ~ ctx.protected \/ host.target = "mounted"
        /\ UNCHANGED data
        /\ Return("phase_ok")
     \/ /\ ctx.protected /\ host.target = "noesp"
        /\ HostBecomes([host EXCEPT !.target = "mounted"])
        /\ Return("phase_ok")
     \/ UNCHANGED data /\ CutShort
     \/ /\ ctx.protected /\ host.target = "noesp"
        /\ HostBecomes([host EXCEPT !.target = "mounted"])
        /\ Stopped

-----------------------------------------------------------------------------
(* Phase 3: arch_install_system.                                           *)

\* A pre-mounted target is neither formatted nor mounted.
UsePreMounted ==
  /\ ctx.protected
  /\ Step("arch_install_system", "mount_cache", UNCHANGED data, UNCHANGED data)

\* A disk that is still in use can be neither repartitioned nor formatted.
Format ==
  /\ ~ ctx.protected
  /\ At("arch_install_system")
  /\ \/ host.target = "absent" /\ DiskBecomes(BlankDisk) /\ Return("mount_layout")
     \/ DiskAmong({disk, BlankDisk}) /\ CutShort

\* Seeded fault: the count starts again when it is used up.
FormatRetryForever ==
  /\ ~ ctx.protected
  /\ At("arch_install_system")
  /\ mem' = [mem EXCEPT !.tries = IF @ < Retries THEN @ + 1 ELSE 1]
  /\ disk' \in {disk, BlankDisk}
  /\ UNCHANGED <<stateFile, host>>
  /\ Return("arch_install_system")

\* Seeded fault: one retry too many.
FormatRetryOnceMore ==
  /\ ~ ctx.protected
  /\ At("arch_install_system")
  /\ mem.tries <= Retries
  /\ mem' = [mem EXCEPT !.tries = @ + 1]
  /\ disk' \in {disk, BlankDisk}
  /\ UNCHANGED <<stateFile, host>>
  /\ Return("arch_install_system")

\* Only the udev race is retried, and only Retries times in all.
FormatRetry ==
  /\ ~ ctx.protected
  /\ At("arch_install_system")
  /\ mem.tries < Retries
  /\ mem' = [mem EXCEPT !.tries = @ + 1]
  /\ disk' \in {disk, BlankDisk}
  /\ UNCHANGED <<stateFile, host>>
  /\ Return("arch_install_system")

MountLayout ==
  Step("mount_layout", "mount_cache",
    HostBecomes([host EXCEPT !.target = "mounted"]),
    HostAmong({[host EXCEPT !.target = t] : t \in {"absent", "noesp", "mounted"}}))

\* The mount comes before the entry that makes main() undo it.
MountCache ==
  LET mounted == [host EXCEPT !.binds = @ \cup {"pkgcache"}]
      noted == [mem EXCEPT !.recorded = @ \cup {"pkgcache"}]
  IN  /\ At("mount_cache")
      /\ UNCHANGED <<stateFile, disk>>
      /\ \/ host' = mounted /\ mem' = noted /\ Return("mask_live")
         \/ UNCHANGED <<host, mem>> /\ CutShort
         \/ host' = mounted /\ mem' \in {mem, noted} /\ Stopped

\* Called before the try: what it leaves when cut short nobody unmasks.
MaskLive ==
  Step("mask_live", "packages",
    HostBecomes([host EXCEPT !.live = AllMasked(host.live)]),
    HostAmong({[host EXCEPT !.live = l] : l \in AllMaskedPartly(host.live)}))

\* minimal_installation to the last add_additional_packages.  pacstrap runs the
\* hooks of the LIVE hook directory: one that is not masked builds a UKI.
InstallPackages ==
  LET full == [disk EXCEPT !.packages = TRUE, !.hook = InstalledHook, !.boot = @ \cup {"defaults"}]
      some == {disk, [disk EXCEPT !.hook = InstalledHook], full}
      Built(d) == IF \A i \in DOMAIN host.live : IsMasked(host.live[i])
                  THEN {d}
                  ELSE {d, [d EXCEPT !.uki = d.boot \cup {"defaults"}]}
  IN  Step("packages", "unmask_live", DiskAmong(Built(full)), DiskAmong(UNION {Built(d) : d \in some}))

\* The first call of the finally block.
UnmaskLive ==
  LET among == IF FileFaults THEN AllUnmaskedBestEffort(host.live) ELSE {AllUnmasked(host.live)}
  IN  QuietStep("unmask_live", "unmount_cache",
        HostAmong({[host EXCEPT !.live = l] : l \in among}),
        HostAmong({[host EXCEPT !.live = l] : l \in AllUnmaskedPartly(host.live) \cup among}))

\* Seeded fault: the result of umount is not checked.
UnmountCacheUnchecked ==
  /\ At("unmount_cache")
  /\ UNCHANGED <<stateFile, disk>>
  /\ mem' = [mem EXCEPT !.recorded = @ \ {"pkgcache"}]
  /\ host' \in {[host EXCEPT !.binds = @ \ {"pkgcache"}]} \cup IF BusyMounts THEN {host} ELSE {}
  /\ Return(EndFinally("finishers", "unwind"))

\* The second one.  It checks umount, so a busy mount raises here.
UnmountCache ==
  LET unmounted == [host EXCEPT !.binds = @ \ {"pkgcache"}]
      forgotten == [mem EXCEPT !.recorded = @ \ {"pkgcache"}]
  IN  /\ At("unmount_cache")
      /\ UNCHANGED <<stateFile, disk>>
      /\ \/ host' = unmounted /\ mem' = forgotten /\ Return(EndFinally("finishers", "unwind"))
         \/ BusyMounts /\ UNCHANGED <<host, mem>> /\ Fail
         \/ UNCHANGED <<host, mem>> /\ Stopped
         \/ host' = unmounted /\ mem' \in {mem, forgotten} /\ Stopped

Finishers == Step("finishers", "fstab", UNCHANGED data, UNCHANGED data)

\* genfstab lists whatever is mounted under the target; the table written for
\* a pre-mounted target is fixed.
WriteFstab ==
  LET table == IF ctx.protected \/ host.binds = {} THEN "clean" ELSE "polluted"
      written == [disk EXCEPT !.fstab = table]
  IN  Step("fstab", "phase_ok", DiskBecomes(written), DiskAmong({disk, written}))

-----------------------------------------------------------------------------
(* Phases 4 to 8: what the UKI is built from, and its final build.         *)

Staged(input) == [disk EXCEPT !.boot = @ \cup {input}]

\* Skipped when the runtime ships no omarchy-hibernation-setup.
ConfigureHibernation ==
  Step("configure_hibernation", "phase_ok",
    DiskAmong({disk, Staged("hibernation")}), DiskAmong({disk, Staged("hibernation")}))

\* Seeded fault: the target's hook is not deferred.
RunSystemFinalizerUnmasked ==
  Step("run_system_finalizer", "prepare_target", UNCHANGED data, UNCHANGED data)

\* Masks the hook before its try; the rest of the phase are the calls below.
RunSystemFinalizer ==
  Step("run_system_finalizer", "prepare_target",
    DiskBecomes([disk EXCEPT !.hook = Masked(@)]),
    DiskAmong({[disk EXCEPT !.hook = h] : h \in MaskedPartly(disk.hook)}))

\* Deferred provisioning leaves the user to the first boot.
RunChrootFinalizer ==
  Step("run_chroot_finalizer", IF ctx.deferred THEN "phase_ok" ELSE "prepare_target",
    UNCHANGED data, UNCHANGED data)

\* Seeded fault: both are recorded once both are made.
PrepareTargetNotedLast ==
  LET both == {"mirror", "packages"}
  IN  /\ At("prepare_target")
      /\ UNCHANGED <<stateFile, disk>>
      /\ \/ mem.prepared /\ UNCHANGED <<host, mem>> /\ Return("bind_log")
         \/ /\ host' = [host EXCEPT !.binds = @ \cup both]
            /\ \/ mem' = [mem EXCEPT !.recorded = @ \cup both, !.prepared = TRUE] /\ Return("bind_log")
               \/ UNCHANGED mem /\ Stopped

\* _prepare_target_setup: two bind mounts, each recorded once it is made.
PrepareTarget ==
  LET Mounted(b) == [host EXCEPT !.binds = @ \cup b]
      Noted(b) == [mem EXCEPT !.recorded = @ \cup b]
      both == {"mirror", "packages"}
  IN  /\ At("prepare_target")
      /\ UNCHANGED <<stateFile, disk>>
      /\ IF mem.prepared
         THEN /\ UNCHANGED <<host, mem>>
              /\ Return("bind_log") \/ CutShort
         ELSE \/ /\ host' = Mounted(both)
                 /\ mem' = [Noted(both) EXCEPT !.prepared = TRUE]
                 /\ Return("bind_log")
              \/ \E done \in {{}, {"mirror"}, both} :
                    /\ host' = Mounted(done)
                    /\ mem' = Noted(done)
                    /\ CutShort
              \/ \E done \in {{"mirror"}, both} :
                    /\ host' = Mounted(done)
                    /\ mem' = Noted(IF done = both THEN {"mirror"} ELSE {})
                    /\ Stopped

\* A mount that fails is logged and remembered; it is never recorded for main().
BindLog ==
  LET bound == [host EXCEPT !.binds = @ \cup {"log"}]
  IN  /\ At("bind_log")
      /\ UNCHANGED <<stateFile, disk>>
      /\ \/ host' = bound /\ mem' = [mem EXCEPT !.logBound = TRUE] /\ Return("log_window")
         \/ UNCHANGED host /\ mem' = [mem EXCEPT !.logBound = FALSE] /\ Return("log_window")
         \/ UNCHANGED <<host, mem>> /\ CutShort
         \/ host' = bound /\ UNCHANGED mem /\ Stopped

\* Between the mount and the try: collect the environment of the command.
LogWindow == Step("log_window", "chroot", UNCHANGED data, UNCHANGED data)

\* The command itself.  pacman inside the target reads the target's hooks: an
\* install hook that is not masked rebuilds the UKI of every kernel.
RunTargetCommand ==
  LET staged == IF InSystemFinalizer THEN Staged("hardware") ELSE disk
      Built(d) == IF IsMasked(d.hook) THEN {d} ELSE {d, [d EXCEPT !.uki = d.boot]}
  IN  Step("chroot", "unbind_log",
        DiskAmong(Built(staged)), DiskAmong(Built(staged) \cup Built(disk)))

\* The finally of _run_target_setup_command; inside phase 5 that of
\* run_system_finalizer comes next whatever happened.
UnbindLog ==
  LET unbound == [host EXCEPT !.binds = @ \ {"log"}]
      next == IF InSystemFinalizer THEN "unmask_target" ELSE EndFinally("phase_ok", "unwind")
  IN  QuietStep("unbind_log", next,
        IF mem.logBound THEN HostAmong({unbound} \cup IF BusyMounts THEN {host} ELSE {})
                        ELSE UNCHANGED data,
        IF mem.logBound THEN HostAmong({host, unbound}) ELSE UNCHANGED data)

HooksUnmasked ==
  {Unmasked(disk.hook)} \cup IF FileFaults THEN UnmaskedPartly(disk.hook) ELSE {}

HookAmong(hs) == DiskAmong({[disk EXCEPT !.hook = h] : h \in hs})

UnmaskTarget ==
  QuietStep("unmask_target", EndFinally("phase_ok", "unwind"),
    HookAmong(HooksUnmasked), HookAmong(UnmaskedPartly(disk.hook)))

\* On encrypted deferred installs, the drop-ins of the auto-unlock.
StageProvisioningState ==
  LET staged == IF ctx.deferred THEN {disk, Staged("provisioning")} ELSE {disk}
  IN  Step("stage_provisioning_state", "phase_ok", DiskAmong(staged), DiskAmong(staged))

\* The checks of finalize_limine_boot, and the drop-ins of the platform.
FinalizeLimineBoot ==
  Step("finalize_limine_boot", "limine_update",
    DiskAmong({disk, Staged("platform")}), DiskAmong({disk, Staged("platform")}))

\* limine-update rebuilds every kernel's UKI, whatever the hooks say.
LimineUpdate ==
  LET built == [disk EXCEPT !.uki = disk.boot]
  IN  Step("limine_update", "phase_ok", DiskBecomes(built), DiskAmong({disk, built}))

-----------------------------------------------------------------------------
(* Phases 9 to 14.                                                         *)

\* Files and services that neither boot nor the mounts depend on.
ConfigureUserland ==
  \E call \in {"configure_login", "configure_ssh_access", "configure_tailscale",
               "configure_dns_resolver", "create_factory_snapshot"} :
     Step(call, "phase_ok", UNCHANGED data, UNCHANGED data)

\* validate_boot begins by repairing the hook ...
ValidateBoot ==
  QuietStep("validate_boot", "assert_hooks",
    HookAmong(HooksUnmasked), HookAmong(UnmaskedPartly(disk.hook)))

\* Seeded fault: the repair is trusted.
AssertHooksTrusting ==
  /\ At("assert_hooks")
  /\ UNCHANGED data
  /\ Return("check_boot") \/ Stopped

\* ... then insists that it is there ...
AssertHooks ==
  /\ At("assert_hooks")
  /\ UNCHANGED data
  /\ \/ HookRestored(disk.hook) /\ Return("check_boot")
     \/ ~ HookRestored(disk.hook) /\ Fail
     \/ Stopped

\* ... and that a UKI is on the ESP, among other files.
CheckBoot ==
  /\ At("check_boot")
  /\ UNCHANGED data
  /\ \/ disk.uki # {} /\ Return("phase_ok")
     \/ CutShort

-----------------------------------------------------------------------------
(* main()'s finally block.                                                 *)

RestoreGovernors ==
  QuietStep("restore_governors", AfterCleanup("restore_governors"),
    HostAmong({[host EXCEPT !.boosted = FALSE]} \cup IF FileFaults THEN {host} ELSE {}),
    HostAmong({host, [host EXCEPT !.boosted = FALSE]}))

\* Seeded fault: the loop ends after the first bind.
CleanupBindsOne ==
  LET Without(b) == [host EXCEPT !.binds = @ \ b]
  IN  /\ At("cleanup_binds")
      /\ UNCHANGED <<stateFile, disk>>
      /\ \/ mem.recorded = {} /\ UNCHANGED host
         \/ host' \in {Without({b}) : b \in mem.recorded}
      /\ mem' = [mem EXCEPT !.recorded = {}]
      /\ Return(AfterCleanup("cleanup_binds"))

CleanupBinds ==
  LET Without(b) == [host EXCEPT !.binds = @ \ b]
      busy == IF BusyMounts THEN SUBSET mem.recorded ELSE {mem.recorded}
  IN  /\ At("cleanup_binds")
      /\ UNCHANGED <<stateFile, disk>>
      /\ \/ /\ host' \in {Without(b) : b \in busy}
            /\ mem' = [mem EXCEPT !.recorded = {}]
            /\ Return(AfterCleanup("cleanup_binds"))
         \/ /\ host' \in {Without(b) : b \in SUBSET mem.recorded}
            /\ UNCHANGED mem
            /\ Stopped

\* Without a mounted target there is no hook directory to look at.
CleanupHooks ==
  IF host.target = "absent"
  THEN QuietStep("cleanup_hooks", AfterCleanup("cleanup_hooks"), UNCHANGED data, UNCHANGED data)
  ELSE QuietStep("cleanup_hooks", AfterCleanup("cleanup_hooks"),
         HookAmong(HooksUnmasked), HookAmong(UnmaskedPartly(disk.hook)))

\* Seeded fault: the mapper is closed while the target is still mounted on it.
CleanupProtectedCloseFirst ==
  QuietStep("cleanup_protected", AfterCleanup("cleanup_protected"),
    HostBecomes(IF ctx.protected /\ host.target # "absent"
                THEN [Torn(host) EXCEPT !.mapper = host.mapper] ELSE host),
    UNCHANGED data)

\* After a failure only: a protected install gives the disk back.
CleanupProtected ==
  IF ctx.protected
  THEN QuietStep("cleanup_protected", AfterCleanup("cleanup_protected"),
         HostAmong(Teardown(host)),
         HostAmong(TornPartly(host) \cup {[host EXCEPT !.target = "absent", !.binds = {}], Torn(host)}))
  ELSE QuietStep("cleanup_protected", AfterCleanup("cleanup_protected"), UNCHANGED data, UNCHANGED data)

Exit ==
  /\ At("exit")
  /\ proc' = "exited"
  /\ rc' = CASE exc = "none" -> "ok" [] exc = "error" -> "failed" [] exc = "interrupt" -> "interrupted"
  /\ UNCHANGED <<pc, phase, exc, env, data>>

\* A finished install reboots; a session of failed ones may simply stay.
Rest ==
  /\ proc # "running"
  /\ attempt = MaxAttempts \/ rc = "ok"
  /\ UNCHANGED vars

-----------------------------------------------------------------------------
InstallStep ==
  \/ PrepareLive \/ PrepareInstallTarget
  \/ UsePreMounted \/ Format \/ FormatRetry \/ MountLayout \/ MountCache \/ MaskLive
  \/ InstallPackages \/ UnmaskLive \/ UnmountCache \/ Finishers \/ WriteFstab
  \/ ConfigureHibernation \/ RunSystemFinalizer \/ RunChrootFinalizer
  \/ PrepareTarget \/ BindLog \/ LogWindow \/ RunTargetCommand \/ UnbindLog \/ UnmaskTarget
  \/ StageProvisioningState \/ FinalizeLimineBoot \/ LimineUpdate
  \/ ConfigureUserland \/ ValidateBoot \/ AssertHooks \/ CheckBoot

DriverStep ==
  \/ FromEnv \/ BoostGovernor \/ InitState \/ PhaseStart \/ PhaseOk \/ Unwind \/ Finish \/ WriteTiming
  \/ RestoreGovernors \/ CleanupBinds \/ CleanupHooks \/ CleanupProtected \/ Exit

Next == StartAttempt \/ DriverStep \/ InstallStep \/ Rest

Spec == Init /\ [][Next]_vars

\* Every command a phase runs returns in the end.
FairSpec == Spec /\ WF_vars(DriverStep \/ InstallStep)

-----------------------------------------------------------------------------
Disks == [packages : BOOLEAN, hook : HookFile, fstab : {"none", "clean", "polluted"},
          boot : SUBSET BootInputs, uki : SUBSET BootInputs]

TypeOK ==
  /\ attempt \in 0..MaxAttempts
  /\ signals \in 0..MaxSignals
  /\ ctx \in [protected : BOOLEAN, deferred : BOOLEAN]
  /\ proc \in {"none", "running", "exited", "aborted", "killed"}
  /\ pc \in Calls
  /\ phase \in 0..Len(Phases)
  /\ exc \in {"none", "error", "interrupt"}
  /\ rc \in {"none", "ok", "config", "failed", "interrupted", "traceback", "signal"}
  /\ stateFile \in [present : BOOLEAN, index : 0..Len(Phases), ok : 0..Len(Phases),
                    failed : BOOLEAN, finished : BOOLEAN]
  /\ mem \in [recorded : SUBSET Binds, prepared : BOOLEAN, logBound : BOOLEAN,
              tries : 1..Retries, success : BOOLEAN]
  /\ host \in [target : {"absent", "noesp", "mounted"}, mapper : BOOLEAN, binds : SUBSET Binds,
               live : [1..LiveHooks -> HookFile], boosted : BOOLEAN]
  /\ disk \in Disks

\* The system boots from a UKI with everything the phases staged for it, its
\* next kernel update will build one, and it mounts nothing of the live ISO.
BootReady(d) ==
  /\ d.packages
  /\ HookRestored(d.hook)
  /\ d.fstab = "clean"
  /\ d.uki = d.boot
  /\ "defaults" \in d.boot

(***************************************************************************)
(* Whatever stops an install, once the packages are on disk the UKI        *)
(* rebuild hook is on disk too, under its name or as the backup that the   *)
(* next unmask puts back (phases_impl.py _mask, _unmask: rename, not copy). *)
(***************************************************************************)
HookPreserved == disk.packages => HookKept(disk.hook)

(***************************************************************************)
(* Once state.json says the installation finished, or the process exits 0, *)
(* the target boots (validate_boot: "Never hand over a system whose UKI    *)
(* rebuild hook is still masked"), whatever faults the attempt met and     *)
(* whatever an earlier attempt left.                                       *)
(***************************************************************************)
FinishedMeansBootable == stateFile.finished \/ rc = "ok" => BootReady(disk)

(***************************************************************************)
(* The offline package cache "is unmounted before genfstab so the          *)
(* live-only bind can never leak into the installed system's fstab".       *)
(***************************************************************************)
FstabClean == disk.fstab # "polluted"

(***************************************************************************)
(* No UKI is built before limine-update: the masks keep pacman from        *)
(* building images that "are always thrown away, and are stale anyway".    *)
(***************************************************************************)
NoThrowawayBuild == At("limine_update") => disk.uki = {}

(***************************************************************************)
(* An attempt that ends through main()'s finally is undone in the live     *)
(* system and on the disk, however it was interrupted.                     *)
(***************************************************************************)
\* Neither the mask of the target's hook nor the governor boost stays, unless a
\* file operation of the clean-up itself failed.  A retry that ends before it
\* has formatted leaves the disk as the attempt before did.
MaskUnwound ==
  proc = "exited" /\ rc # "config" /\ ~ FileFaults /\ (attempt = 1 \/ phase > 3) =>
    /\ ~ IsMasked(disk.hook)
    /\ disk.hook.backup = "absent"
    /\ ~ host.boosted

\* A success leaves no bind mount of this or an earlier attempt.  A failure may
\* leave the log's, since only _run_target_setup_command knows of it, and an
\* interrupt one: the one that was made and not recorded when it came.
BindsUnwound ==
  proc = "exited" /\ phase > 1 /\ ~ BusyMounts =>
    /\ rc = "ok" => host.binds = {}
    /\ rc = "failed" => host.binds \subseteq {"log"}
    /\ rc = "interrupted" => \E b \in Binds : host.binds \subseteq {b}

\* A success, even the one after an attempt that was killed in mid-mask, leaves
\* every live hook as it was found.
LiveHooksBack ==
  rc = "ok" /\ ~ FileFaults => \A i \in 1..LiveHooks : host.live[i] \in {NoHook, InstalledHook}

\* cleanup_target_hook_masks, restore_cpu_governors, cleanup_bind_mounts and the
\* unmask after pacstrap.
Unwound == MaskUnwound /\ BindsUnwound /\ LiveHooksBack

(***************************************************************************)
(* A protected attempt that fails unmounts the target and closes the       *)
(* mapper: the disk is shared, and the retry partitions it again           *)
(* (cleanup_protected_state).                                              *)
(***************************************************************************)
ProtectedGivesDiskBack ==
  proc = "exited" /\ rc \in {"failed", "interrupted"} /\ ctx.protected
    /\ ~ mem.success /\ ~ BusyMounts =>
      host.target = "absent" /\ host.binds = {} /\ ~ host.mapper

(***************************************************************************)
(* The live system's own hooks survive: no step, cut short or not, drops   *)
(* the only copy of one.                                                   *)
(***************************************************************************)
LiveHooksKept ==
  [][\A i \in 1..LiveHooks : HookKept(host.live[i]) => HookKept(host'.live[i])]_vars

(***************************************************************************)
(* Every attempt ends, retries and all, if the commands it runs return.    *)
(***************************************************************************)
AttemptEnds == proc = "running" ~> proc # "running"

(***************************************************************************)
(* The orchestrator implements InstallHandover.                            *)
(***************************************************************************)
InstallStatus ==
  CASE proc = "none" -> "idle"
    [] proc = "running" -> IF stateFile.finished THEN "announced" ELSE "installing"
    [] proc = "exited" /\ rc = "ok" -> "handedOver"
    [] OTHER -> "stopped"

Handover == INSTANCE InstallHandover
  WITH status <- InstallStatus, target <- disk, Bootable <- {d \in Disks : BootReady(d)}

ImplementsHandover == Handover!Spec
=============================================================================
