# Verification of the Omarchy live ISO installer

This directory holds TLA+ specifications of the program in `src/`: a live ISO
that installs Omarchy on a laptop, from the wizard that asks for a disk to the
reboot into the installed system. They are checked with TLC on small instances,
and the main results about the install orchestrator, its inputs, the
partitioning of the disk, the boot loader, the credentials staged for the first
boot and the package mirror of the image are proved with TLAPS for every value of the constants.

Paths are shortened: `O/` is
`src/configs/airootfs/usr/share/omarchy-iso/orchestrator/`, `B/` is
`src/configs/airootfs/usr/local/bin/`, `R/` is `src/configs/airootfs/root/`.

## 1. Inventory

### How the parts interact

    R/.automated_script.sh                       (tty1 of the live system)
       |  inputs: B/omarchy-cidata-load, or R/configurator  (-> disk-partitioning.sh)
       |          write install-input/*, the answers in /root
       v
    B/omarchy-iso-install, B/omarchy-install-dashboard
       |  starts the installer, polls state.json, signals it, decides the reboot
       v
    O/main.py -> O/phases.py: run() -> the 14 phases of O/phases_impl.py
       |  archinstall_adapter.py: partition, format, mount, pacstrap
       |  arch-chroot: the finalizers of the Omarchy runtime on the target
       v
    the target disk: root, ESP, fstab, pacman hooks, UKIs, Limine, factory snapshot

The processes share nothing but files: the inputs (written before the installer
starts), `state.json` (written by the installer, polled by the dashboard), the
mount table and the pacman hook directories. The only calls back are a SIGTERM
from the dashboard and the exit status of the installer.

### Components

| Component | State it keeps | Operations | What makes it correct |
|---|---|---|---|
| Driver (`O/main.py`, `O/phases.py`) | `state.json`, the CPU governors, the exit status | build the context, boost, run the phases, record each one, unwind in `finally` | nothing is announced that does not boot; the clean-up runs in the right order and past its own failures |
| Phases (`O/phases_impl.py`, `O/archinstall_adapter.py`) | mounts, hook masks, `ctx.state` (binds made, log), the target's files | 14 phases | masks and binds are undone; the drop-ins are staged before the last UKI build; no live-only mount in the fstab; EFI entries and removable loader agree; the factory snapshot holds no secret |
| Context (`O/context.py`) | the immutable `InstallContext` | `from_env` | account fields and passphrase are there exactly in the modes that need them |
| Dashboard (`B/omarchy-install-dashboard`) | the child's pid, progress, elapsed time | start, poll, interrupt, failure menu, reboot | progress never runs backwards; no reboot of an unfinished install; a stopped child is really gone |
| Session script (`R/.automated_script.sh`, `B/omarchy-iso-install`) | the inputs, the deferral decision | load inputs, start, retry | takes the same deferral decision as `from_env` |
| Disk clean-up (`B/omarchy-iso-cleanup-disk`) | mounts, mappers, swap, LVM | unmount, close, swapoff | leaves the disk free, or the next step fails |
| Cidata loader (`B/omarchy-cidata-load`) | `install-input/*` | find the drive, mount, check, copy, clean up | no inputs of another drive |
| Configurator (`R/configurator`) | the answers, the partitions it made | the wizard's steps, abort | an abort undoes the partitions; the answers are of one run |
| Partitioning (`disk-partitioning.sh`) | the list of partitions created | create, wait, roll back | rolls back exactly what it created |
| Hardware profiles (`O/hardware.py`, `platforms.json`) | none | load and check the manifest, select the machine's entry, list a medium's packages | no machine is installed from a medium that lacks its packages |
| Keyboard, command, UI helpers | none | look-ups, logging | |
| ISO build (`src/builder`) | the offline mirror, a directory that outlives the build | build packages of a checkout, download with a retry, resolve, prune, index, check, make the image | an image has what was selected and nothing else, and all that its packages depend on; a failed build does not cost the next one its cache |
| Release tools, VM harness, live DSP scripts, menus and package lists | files outside the installer | linear scripts | |

### Which behaviours are hard

* **Interrupts.** Python raises `KeyboardInterrupt` between any two calls: after
  a mount and before the line that records it, inside a `finally`, while the
  `except` of `run()` is writing. `except Exception` does not catch it.
* **SIGTERM.** Nothing handles it. The dashboard uses it on Ctrl-C, and no
  `finally` runs.
* **Failures that replace each other.** `umount` is checked in a `finally`;
  its failure replaces the exception in flight, or turns success into failure.
* **Swallowed failures.** `_unmask`, `restore_cpu_governors`, the disk clean-up
  and `umount -R` go on after an error; something later has to notice.
* **Retries in a dirty system.** An attempt that was killed leaves masks, binds,
  mounts and a mapper, and the wizard invites the user to run the script again.
* **Two sources of truth.** The deferral decision is taken twice; the EFI boot
  entry is created by ignored commands and then looked for by its label; what the
  dashboard shows comes from a file an earlier attempt may have written; the
  passphrase of a deferred install lives in two dictionaries and three files.
* **State that outlives the disk.** The firmware's boot list is shared with the
  machine's other systems and edited by commands one at a time, from a reading
  taken before the first of them.
* **Secrets that must survive, and must not.** What is staged for the first boot
  has to be on the root until it was used and nowhere in the factory snapshot of
  that root, with power cuts between using a key and removing it.

* **A cache that outlives its writer.** The mirror of the image is filled from
  repositories that change meanwhile, by builds that may be killed at any point and
  whose package lists differ.

`PROJECT.json` lists each hazard at its line with the properties that watch it.

## 2. The modules

| Module | What it is |
|---|---|
| `PacmanHooks` | the mask/unmask file protocol for one hook name and for a tuple of names, undisturbed and cut short |
| `Orchestrator` | one or more install attempts: `main()`, `run()`, the fourteen phases, the `finally` block |
| `InstallHandover` | the abstract promise: announce and hand over only what boots, and take nothing back |
| `MCOrchestrator` | model checking of `Orchestrator` |
| `OrchestratorProofs` | the theorems about the orchestrator, with the lemmas about the mask/unmask operators for hooks and tuples of any length |
| `UnwindProofs` | the theorems about what an attempt undoes, on top of `OrchestratorProofs` |
| `InstallInputs` | the input files in `/root` over several runs of the session script: cidata loader, wizard, deferral decision, `from_env` |
| `MCInstallInputs` | drives for model checking of `InstallInputs`; two more claims of comments that the code does not keep |
| `InstallInputsProofs` | the theorems about the inputs |
| `Partitioning` | the free-space install beside other systems: partitions made, formatted, mounted, handed over or undone, over several attempts |
| `MCPartitioning` | disks for model checking of `Partitioning` |
| `PartitioningProofs` | the theorems about the partitioning |
| `HardwareProfiles` | the platform manifest as operators: which packages and boot arguments a known machine needs |
| `LimineBoot` | the boot loader of several installs of one machine: loader, boot list, configuration, kernel image, `validate_boot` |
| `MCLimineBoot` | machines and manifests for model checking of `LimineBoot` |
| `LimineBootProofs` | the theorems about the boot loader |
| `Provisioning` | what is staged for the first boot, the factory snapshot of it, and the boots of the installed machine |
| `MCProvisioning` | installations for model checking of `Provisioning` |
| `ProvisioningProofs` | the theorems about the staged credentials |
| `Dashboard` | the dashboard beside the installer it supervises |
| `MCDashboard` | sessions for model checking of `Dashboard` |
| `DashboardProofs` | the theorems about the dashboard |
| `OfflineMirror` | the package mirror of the image over several builds on one cache |
| `MCOfflineMirror` | packages and lists for model checking of `OfflineMirror` |
| `OfflineMirrorProofs` | the theorems about the mirror |

`Orchestrator` extends `PacmanHooks` (it uses its operators on the live hooks,
`host.live`, and on the target's hook, `disk.hook`) and instantiates
`InstallHandover` under a refinement mapping. `LimineBoot` extends
`HardwareProfiles`. `LimineBoot` and `Provisioning` look closer at phases that
`Orchestrator` has as a few steps, `Dashboard` at the process that signals it and
polls its `state.json`. `OfflineMirror` is about the medium that all of them run
from: `InstallPackages` of `Orchestrator` installs from the mirror it describes.

### PacmanHooks

A hook name is a pair of directory entries, the hook and its
`.omarchy-backup` (`O/phases_impl.py` 715-767). `Masked` and `Unmasked` are the
loop bodies; `MaskedPartly` and `UnmaskedPartly` give every state in which an
exception or a kill may leave the pair, one for each file operation. The
`All...` operators are the loops: names before the one in progress are done,
names after it untouched, except that `_unmask` swallows the `OSError` of each
name on its own (`AllUnmaskedBestEffort`).

### Orchestrator

**A step is one call.** It completes, or it is *cut short* with any prefix of
its effects in place: by an exception of its own (`Fail`), by SIGINT
(`Interrupt`) or by SIGTERM (`Terminate`). `Step(call, next, done, partly)` has
that shape; `QuietStep` is a call that swallows its own errors, which only a
signal cuts short. Where an exception goes is `Handler`: the `finally` of the
same function, the `except` of `run()`, the `finally` of `main()`, or nowhere.
A `finally` that completes passes the exception on (`EndFinally`); one that
fails replaces it.

| Variable | Code |
|---|---|
| `attempt`, `signals` | how many installs were started in this live session and how many signals were sent |
| `ctx` | `InstallContext`: protected (the configurator partitioned and mounted) and deferred (no user yet) |
| `proc`, `rc` | the Python process and why it ended: 0, configuration error, failure, interrupt, traceback, signal |
| `pc`, `phase`, `exc` | the call about to be made, the index of `run()`'s loop, the exception in flight |
| `stateFile` | `state.json`: index, last phase recorded ok, failed, `finished_at` |
| `mem` | `ctx.state` and locals: binds recorded, log bound, retries, `success`; lost with the process |
| `host` | the live system: the target's mounts (`"noesp"`: the root without its ESP), mapper, binds, live hooks, governors |
| `disk` | the target's root: packages, its hook, its fstab, what a UKI is to be built from (`boot`) and what the last UKI was built from (`uki`) |

| Actions | Code |
|---|---|
| `StartAttempt` | `.automated_script.sh` and the configurator: a new attempt on what an earlier one left |
| `FromEnv`, `BoostGovernor`, `InitState`, `PhaseStart`, `PhaseOk`, `Unwind`, `Finish`, `WriteTiming` | `main()` up to the `finally`, `run()` |
| `PrepareLive`, `PrepareInstallTarget` | phases 1 and 2, with `omarchy-iso-cleanup-disk` and `verify_protected_mounts` |
| `UsePreMounted`, `Format`, `FormatRetry`, `MountLayout`, `MountCache`, `MaskLive`, `InstallPackages`, `UnmaskLive`, `UnmountCache`, `Finishers`, `WriteFstab` | phase 3, `arch_install_system`, with the udev-race retry of the adapter |
| `ConfigureHibernation`, `RunSystemFinalizer`, `PrepareTarget`, `BindLog`, `LogWindow`, `RunTargetCommand`, `UnbindLog`, `UnmaskTarget`, `StageProvisioningState`, `FinalizeLimineBoot`, `LimineUpdate`, `RunChrootFinalizer` | phases 4 to 8 |
| `ConfigureUserland`, `ValidateBoot`, `AssertHooks`, `CheckBoot` | phases 9 to 14 |
| `RestoreGovernors`, `CleanupBinds`, `CleanupHooks`, `CleanupProtected`, `Exit` | the `finally` of `main()` |

A UKI is abstracted to the *set of inputs it was built from* (`BootInputs`):
a build copies `disk.boot` to `disk.uki`, so "the last UKI has everything the
phases staged" is `disk.uki = disk.boot`. pacman reads the hooks of the live
system during pacstrap and those of the target under `arch-chroot`; a hook that
is not masked may rebuild the UKI at that moment.

Operators marked "Seeded fault" are wrong variants of the one that follows; no
definition uses them. Each property is known to fail when the right operator is
exchanged for one of them (`PROJECT.json`, `mutants`).

### InstallHandover

`idle -> installing -> announced -> handedOver`, or `stopped`. `Announce` needs
a bootable target, and from then on the target is constant. The mapping takes
"announced" to a running process whose `state.json` has `finished_at`,
"handedOver" to exit status 0, and `Bootable` to `BootReady`.

### InstallInputs

The inputs are five files: configuration, credentials, marker, `profile` for the
three `user_*.txt` and `access` for `authorized_keys` and `tailscale_authkey`.
Each is either absent or remembers the run that wrote it and the *source* it came
from: a drive or a wizard's answers. A source is a record: which files there
are, the deferral flag, whether the configuration has account fields, whether
the credentials name a user.

| Variable | Code |
|---|---|
| `run`, `pc` | how often `.automated_script.sh` was started, and where it is |
| `drive`, `mounts` | the drive plugged in for this run; the stack of mounts on `/run/cidata`, which a stopped run or a failed umount leaves behind |
| `inputs` | the files in `/root` |
| `load` | how the loader ended: `no_drive`, `no_mount`, `fallback`, `loaded` |
| `ui`, `ctx` | the two deferral decisions: the variable the script exports, and `InstallContext` |

| Actions | Code |
|---|---|
| `Start` | a new run, with another drive or none |
| `Probe`, `Mount`, `Clear`, `Copy`, `Discard`, `Umount` | `omarchy-cidata-load`, command by command |
| `WriteUserFiles`, `WriteConfiguration` | the files of the configurator |
| `Decide`, `FromEnv`, `Reboot` | lines 104-112 of the script, `from_env()` with the user's name `main()` asks for, the end of the dashboard |
| `Stop` | Ctrl-C, an aborted wizard, an error, with any part of the work of the command under way |

It meets `Orchestrator` in `FromEnv`: `ctx.deferred` here is the mode that module
chooses freely, so what is proved there holds for whatever is decided here.

### Partitioning

The disk is a table of `NSlots` slots. A slot is free or holds a partition: first
and last unit (of the ESP's size), which attempt made it (0: it was there), what
is on it. Behind the table lie the mapper `omarchy_root` and the stack of mounts
below `/mnt`. They survive an attempt; the shell variables do not.

| Variable | Code |
|---|---|
| `attempt`, `pc`, `how` | runs of the configurator, the command about to be run, how the last run ended |
| `table`, `mapper`, `mounts` | the disk and the kernel's view of it |
| `plan`, `encrypt` | `EFI_START_B` to `ROOT_END_B`, `encrypt_installation` |
| `role`, `before`, `num` | the arguments and locals of `create_partition` |
| `parts`, `created` | `efi_part_num` and `root_part_num`, `created_parts` |

| Actions | Code |
|---|---|
| `Start`, `Stop` | a run of the configurator; Ctrl-C or an abort without the hook |
| `Decide`, `PartitionTool` | `run_partition_decide`; cfdisk, offered when there is not enough space |
| `Mklabel`, `Before`, `Mkpart`, `After`, `Record` | `create_partition`, once for the ESP and once for the root |
| `Flag`, `WipeEfi`, `WipeRoot`, `LuksFormat`, `LuksOpen`, `MakeRoot`, `MountTmp`, `Subvolumes`, `UmountTmp`, `MountRoot`, `MakeEsp`, `MountEsp`, `Check` | `run_partition_execute`, command by command |
| `Install` | the orchestrator with a protected target: success, clean-up after a failure, or killed |
| `UmountTarget`, `ReleaseTmp`, `CloseMapper`, `Rollback`, `Abort` | `disk_abort_hook` and `rollback_created_parts` |

A guarded command fails before or after its effect (`Failed`, `Then`) and goes to
the hook. `faults` are the rarer failures the session meets, one of `FaultSets`: a table that cannot be read
(`"label"`, `"before"`, `"after"`, `"size"`; the code hides the error), a `mkpart`
that writes and then fails (`"commit"`), a file system that cannot be unmounted
(`"busy"`). The layout of Orchestrator's "protected" mode is what `Install` starts
from here: `HandoffMounted` is what `verify_protected_mounts` relies on there.

### HardwareProfiles and LimineBoot

A manifest is a sequence of entries; `ValidManifest` is what `load_platforms`
insists on, `Rejected` what `detect_platform` raises on, `OfflinePackages` what the
build puts on a medium. Kernel arguments and packages are sets of names.

| Variable | Code |
|---|---|
| `machine`, `cfg` | the firmware and the medium; the install asked for, `flag` is `ctx.encrypt` |
| `attempt`, `pc`, `how` | installs of this machine, the next step, how the last one ended |
| `entries`, `order` | the boot entries and BootOrder, which outlive every install |
| `pre`, `todo` | `pre_state` of `_register_limine_efi_entry`, the stale entries still to be deleted |
| `target` | loaders on the ESP or in the boot sector, the pacman hook that refreshes one, configured arguments, what `limine.conf` and the image say |

| Actions | Code |
|---|---|
| `Start`, `Detect`, `Format` | an install; `detect_platform` at the head of `prepare_live`; an empty root and ESP |
| `Configure`, `CopyLoader`, `InstallBios` | `_configure_limine_boot` by firmware and mode, `_install_limine_efi` |
| `ReadBoot`, `DeleteStale`, `Create`, `SetOrder`, `CheckWindows` | `_register_limine_efi_entry` and its callers, one `efibootmgr` command each |
| `WriteDefaults`, `InstallPackages`, `Finalize`, `LimineUpdate`, `CheckConfig` | `/etc/default/limine`, pacstrap, `finalize_limine_boot` |
| `ValidateBoot` | the checks on the loader, the image and the boot list |
| `Stop` | Ctrl-C or the power, anywhere |

`efibootmgr` may fail after it has done its work (`Create`), a deletion may be
refused (`machine.stuck`), `limine-update` may leave out the image or its entry.

### Provisioning

`root` and the snapshot are functions from the paths the phases write to what is
there: nothing, a file, or a passphrase. One attempt is enough, since every
attempt begins on a fresh root; what was there before (the volume of a mounted
target, an old `@factory`) is part of `install`, which also says what the drive
asked for and what the medium lacks.

| Variable | Code |
|---|---|
| `install`, `given`, `slot` | the installation; the passphrase in the configuration and in the credentials; the one that opens the volume |
| `root`, `image` | the staged files; the key and command line in the kernel image, the words of `limine.conf` |
| `factory`, `next` | `@factory`: there, read-only, its files; how many paths are scrubbed |
| `power`, `boots`, `online`, `unit`, `joined` | the installed machine, the line its join unit is at |

| Actions | Code |
|---|---|
| `Load`, `Format`, `InstallPackages` | `_inject_provisioning_encryption_password`, archinstall with one of the two passphrases, the uplink's package |
| `StageNode`, `Arm`, `StageUnlock`, `BuildImage` | `stage_provisioning_state`, `_stage_provisioning_luks_unlock`, `limine-update` |
| `ConfigureLogin`, `AuthorizeKeys`, `EnableSshd`, `AllowSsh`, `StageAuthkey`, `EnableJoin`, `AllowTailnet` | `configure_login`, `configure_ssh_access`, `configure_tailscale` |
| `ValidateBoot` | `_validate_provisioning_state` and the encryption checks |
| `DeleteOld`, `TakeSnapshot`, `Scrub`, `Seal` | `create_factory_snapshot`, one `FACTORY_SCRUB_PATHS` entry per step |
| `PowerOn`, `PowerOff`, `Network`, `Up`, `RemoveKey`, `DisableJoin` | the boots that follow and `TAILSCALE_JOIN_UNIT`, line by line |

### Dashboard

Three processes: the session script (`Begin`), the installer as far as it can be
seen (`Starting` to `Die`), and the dashboard. The arithmetic of the progress bar
is the code's, in seconds, per-mille and packages.

| Variable | Code |
|---|---|
| `session`, `attempt`, `clock` | the environment variables and the medium's package total, runs of the session script, the time |
| `file`, `inst`, `packages` | `state.json`, the installer (`whole`: all phases done), the package database of the target |
| `dash`, `pid` | the line the dashboard is at, `child_pid` |
| `frame`, `view` | the locals of one frame, the globals of `install_progress` |
| `polls`, `rebooted` | the loop of `stop_child`, who rebooted |

| Actions | Code |
|---|---|
| `Launch`, `Record` | `launch_child`: the fork, and the line that records its pid |
| `Look`, `Draw` | one turn of the poll loop: `state.json` is read, then the packages are counted |
| `Reap`, `LastLook`, `LastDraw`, `Finish`, `RebootPrompt`, `Reboot` | `wait`, the last frame, the way to the reboot |
| `Failure`, `FailureMenu` | the failure screen |
| `Interrupt`, `Poll`, `Kill`, `Wait` | the trap and `stop_child` |

The installer may change anything between any two of these, and may fail, hang or
ignore SIGTERM at any point.

### OfflineMirror

A package file has a name, the package and its version, and contents: nothing, a
torn copy, or the number of the release or of the local build they come from. So
"republished under the same name" and "built from the checkout with the version
that is published" are differences that a name does not show.

| Variable | Code |
|---|---|
| `published`, `stamp` | the repositories (external): what they serve now, how many contents there are |
| `archives`, `sigs`, `index` | the files of `offline_mirror_dir`, the `.sig` files, `offline.db` |
| `builds`, `pc`, `local`, `lists` | builds on this cache, the command about to run, `LOCAL_OMARCHY_BUILD`, the package lists of this build |
| `synced`, `retried`, `made`, `required` | `/tmp/offlinedb`, the retry, what `makepkg` made, `required_package_files` |
| `calm` | history: no transfer failed and nothing was published in this build |

| Actions | Code |
|---|---|
| `Publish` | anybody, at any time: a newer version, or a file name again with other contents |
| `Start`, `Abort`, `Mkarchiso` | `omarchy-iso-make`; a failure under `set -e` or a kill anywhere; the end |
| `Clean`, `Makepkg`, `Place` | `build-omarchy-packages.sh`, file by file |
| `Sync`, `Fetch`, `Verify`, `Retry` | `download_offline_packages` and its second call: the databases, the missing files, the checksums |
| `Resolve`, `Locals` | the selection and the packages of the checkout |
| `Check`, `Delete`, `Sweep` | `prune-offline-mirror.sh`, file by file |
| `Gates`, `Unindex`, `RepoAdd`, `ExpectedPackages` | `find_offline_package`, the new index, the resolution of the target against it |

## 3. The properties

* `HookPreserved`: once packages are on the target, its UKI rebuild hook is on
  disk too, under its name or as its backup, whatever stopped the install.
* `LiveHooksKept` (a step property): the same for the hooks of the live system.
* `FstabClean`: no live-only bind mount reaches the installed fstab.
* `NoThrowawayBuild`: no UKI is built before `limine-update`.
* `FinishedMeansBootable`: `finished_at` or exit status 0 implies packages, a
  restored hook, a clean fstab and an up-to-date UKI.
* `ImplementsHandover`: the refinement; beyond `FinishedMeansBootable`, nothing
  changes the target after the announcement.
* `Unwound`: an attempt that ends through `main()`'s `finally` leaves neither
  the target's mask nor the governor boost (`MaskUnwound`); it leaves no bind mount
  after a success, at most the log's after a failure and at most one after an
  interrupt, the one that was made and not yet recorded (`BindsUnwound`); after a
  success the live hooks are as they were found (`LiveHooksBack`).
* `ProtectedGivesDiskBack`: a protected attempt that fails unmounts the target
  and closes the mapper, unless a mount was busy.
* `AttemptEnds`: every attempt ends.
* `LoadedInputsOfOneDrive`: after the loader's exit 0 the installer has exactly
  the files of this run's drive, whatever earlier runs left.
* `FallbackInheritsNothing`: after a drive was mounted and given up, the installer
  has exactly the answers of this run's wizard.
* `PresentationMatches`: a machine reboots without a prompt if and only if no
  account was made on it.
* `OthersKept` (a step property): no command of an attempt changes, formats or
  removes a partition that was there when the attempt began.
* `HandoffMounted`: the installer starts on a root and an ESP of its own, both
  formatted by this attempt and mounted last, whatever earlier attempts left.
* `LayoutUndone`: after `disk_abort_hook` no partition of the attempt is left
  (`HalfBuiltUndone`), in sessions without the rarer faults.
* `OthersKept` of `LimineBoot`: the boot entries of the machine's other systems
  are not touched, stay in BootOrder, and in the order they had, whatever is killed.
* `InstalledStarts`: after a finished install the firmware starts the entry of this
  install, no other Limine entry is left, and its loader is the one upgrades refresh.
* `BuiltToBoot`: the image has every argument of the root and the platform.
* `ProfileServed`: no disk is written from a medium that lacks a package of the
  machine.
* `BootsToOwnerSetup`: a machine without an account comes up in its first-boot
  setup by itself; an encrypted one opens with the key inside its image.
* `AutologinBehindPrompt`: no machine logs in by itself that is plain or unlocks itself.
* `Reachable`: the SSH keys and the tailnet key of a drive are where they work,
  the latter, with its unit, until it was used.
* `SealedFactoryClean`: a sealed factory image has no credential of this
  deployment, nothing that refers to one, and the tarball for a reset.
* `JoinsEventually`: a machine that has a network again and again joins the tailnet
  and forgets the key.
* `BarNeverAhead`: the bar stays inside the bands of the phases that this
  attempt's installer has begun, and is full only when all are done.
* `HonestCount`: only packages this installer has installed are credited.
* `RebootEarned`: the dashboard reboots only a complete install that exited with 0.
* `StoppedGone`: an interrupted dashboard does not leave its installer behind.
* `DashboardEnds`: without a keyboard it ends once the installer has, and a stop
  ends in any case.
* `ImageInstalls`: the index of an image is of the files in it, and the target's
  packages resolve from it with all they depend on.
* `ImageExact`: an image has the selection of this build as it was downloaded, what
  this build made, one file of each package and no signature without one; nothing
  else of what the cache held. One built from a checkout has its packages and no
  others of their names (`LocalWins`).
* `WarmCacheKept` (a step property): a file leaves the cache only to be built again,
  because its checksum is wrong, or when all that is selected is there without it.
* `RetryEnough`: one retry of the download is enough, unless a transfer fails or
  something is published meanwhile.

## 4. The runs

| Run | Instance | What it shows |
|---|---|---|
| `faults` | one attempt, any mode, one SIGINT or SIGTERM, failing calls, failing file operations, busy mounts | `TypeOK`, `HookPreserved`, `FinishedMeansBootable`, `FstabClean` (3.1 million states) |
| `retry` | two attempts, one live hook, one SIGINT or SIGTERM anywhere, fairness | `LiveHooksKept`, `NoThrowawayBuild`, `Unwound`, `ProtectedGivesDiskBack`, `ImplementsHandover`, `AttemptEnds` (1.1 million) |
| `inputs` | three runs of the session script, five kinds of drives (owner, imaging rig, one with a marker and an account, one with a flag, half a pair) | `TypeOK`, `LoadedInputsOfOneDrive`, `FallbackInheritsNothing`, `PresentationMatches` (0.2 million) |
| `attempts` | three attempts on two disks, with none and with all of the rarer faults; commands fail and Ctrl-C comes anywhere | `TypeOK`, `HandoffMounted`, `OthersKept`, `LayoutUndone` of `Partitioning` (2.8 million) |
| `marker` | two runs, a rig's drive | expected violation of `WizardDecides`, see section 7 |
| `orphan` | one attempt, `mkpart` fails after writing | expected violation of `HalfBuiltUndone`, see section 7 |
| `boot` | three installs of ten machines: dual boot, firmware that refuses deletions, a full boot list, BIOS, aarch64 with the right and the wrong medium, an ambiguous manifest, no EFI variables | `TypeOK`, `OthersKept`, `InstalledStarts`, `BuiltToBoot`, `ProfileServed` of `LimineBoot` |
| `fallback` | one install of an aarch64 laptop without EFI variables | expected violation of `FallbackAccepted`, see section 7 |
| `provision` | some hundred installations, every phase failing or stopped, three boots, fairness | `TypeOK`, `BootsToOwnerSetup`, `AutologinBehindPrompt`, `Reachable`, `SealedFactoryClean`, `JoinsEventually` |
| `factory` | one rig's drive | expected violation of `FactoryNeverHoldsCredentials`, see section 7 |
| `dashboard` | two runs of the session script, three sessions, fairness | `TypeOK`, `BarNeverAhead`, `HonestCount`, `RebootEarned`, `StoppedGone`, `DashboardEnds` (0.35 million) |
| `mirror` | three builds on one cache, with and without a checkout, two sets of lists; repositories that change, builds that end anywhere | `TypeOK`, `ImageInstalls`, `ImageExact`, `WarmCacheKept`, `RetryEnough` of `OfflineMirror` (3.4 million) |

### Bounds, and why they are enough

* `MaxAttempts` = 2 where retries matter: what an attempt inherits is `host`
  and `disk` only, and the second attempt meets every state in which the first
  can leave them.
* `MaxSignals` = 1: ordinary failures (`Fail`) are not bounded, so a signal can
  still meet a clean-up that began with an exception. `Unwound` and
  `ProtectedGivesDiskBack` speak of a process that reached `exit`; a second
  signal inside the `finally` takes the process to "aborted", which they exclude.
* `LiveHooks` = 1 in `retry`: names do not interact, and the lemmas about a loop
  that stops between two names hold for tuples of any length. `faults` needs none:
  its properties are about the target.
* `Retries` = 3 is the code's own number (`archinstall_adapter.py` 120).
* `FileFaults` and `BusyMounts` are FALSE where a property excludes them anyway
  and in the runs with two attempts, to keep them small; the theorems hold for both.

* `MaxRuns` = 3 and one drive of each kind: a first run leaves files, a second
  mixes its own with them, a third uses them. The theorems need no bound.
* The disks of `Partitioning` have four slots and eight units: one has a hole in
  its numbering, partitions of the sizes Omarchy's may get and a free region just
  large enough; the other a region on both sides, so that a second attempt finds
  room beside what the first left. What an attempt inherits is the disk, the
  mapper and the mounts; three attempts meet all of it.
* `LayoutUndone` is about sessions without the rarer faults: it fails with each of `"after"`,
  `"size"`, `"commit"` (run `orphan`) and when a busy mount keeps a partition in use.
  `OthersKept` holds with all of these (it is proved), but not when the table is
  misread before a command writes: the numbers from before `mkpart` are read with
  errors hidden and nobody checks that there are any (`disk-partitioning.sh` 35, 91),
  unlike the second reading (99). If the first fails, all numbers are new, and a
  partition of somebody else that comes first and has the right size is taken.

* `Nums` = 1..5 in `boot`: two stale Limine entries, one of them first, Windows,
  a third system and one number to spare, or a list with one room left. Three
  installs: the second meets the entries of the first, the third those of both.
* `MaxBoots` = 3 in `provision`: the unit can be cut off between joining and
  removing the key, again between removing it and disabling the unit, and be seen
  once more. `SomeInstalls` varies one thing at a time beside the encryption, all
  of whose combinations are there.
* `dashboard`: `MaxAttempts` = 2, since a second attempt meets what the first left;
  at most one `Delay` of 1800 s, which is past every cap on waiting; one `Batch` of
  400 packages, more than the 300 the medium announces; one package moved; one poll
  of a stopping installer for the code's 20.
* `mirror`: `MaxBuilds` = 3, a cache that two builds with different lists have left.
  `MaxStamp` = 4, the first release of everything and three more contents: enough to
  publish between two tries, to republish a file the cache has, and to build from a
  checkout twice. Four packages: an application whose new version needs a library
  and the runtime; the library, which is not on every list; the runtime, of which the
  checkout's version is older than the published one and needs the settings (the
  application may then make pacman fetch the published one beside it); the settings,
  which the checkout has in the very version that is published, so that the checkout
  replaces a downloaded file of that name and a later build without it replaces
  the checkout's. `Gated` are two of
  them, where aarch64 media check ten; on x86_64 there is no gate. The theorems hold
  for any packages, lists, gates and bounds.

### Fairness and deadlock

`FairSpec` adds `WF_vars(DriverStep \/ InstallStep)`: a running process keeps
taking steps, i.e. the commands it runs return. The code is sequential and has
no lock to wait for; it has no timeout either, so the assumption is needed: a
command that hangs hangs the install. No fairness is assumed for signals, for
the failure or success of a command, or for a new attempt.

`FairSpec` of `Provisioning` is about the installed machine only: it is switched on
again, systemd runs the unit's next line while it is on, and an attempt of the
`until` loop falls into a moment with a network if there is one again and again.
`FairSpec` of `Dashboard` is that the dashboard runs and that the kernel ends a
process that was sent SIGKILL. Nothing is assumed of the installer, which may hang,
nor of anybody at the keyboard. Deadlock is checked
in every run; `Rest` is the stuttering of a session that is over.

## 5. What is proved

The theorems about the orchestrator hold for every `LiveHooks`, `MaxSignals`, `MaxAttempts`, every set
of signals, with and without `FileFaults` and `BusyMounts`. The only assumption
is `OrchestratorAssumption` (the constants' types).

| Theorem | Property |
|---|---|
| `TypeCorrect` | `TypeOK` |
| `HookNeverLost` | `HookPreserved` |
| `LiveHooksNeverLost` | `LiveHooksKept` |
| `InductiveInvariant` | `IInv` |
| `FstabNeverPolluted` | `FstabClean` |
| `FinishedBoots` | `FinishedMeansBootable` |
| `HandoverImplemented` | `ImplementsHandover` |
| `UnwindInvariant` of `UnwindProofs` | `IInv` and `UnwindInv` |
| `BuiltOnce`, `DiskGivenBack`, `AttemptUnwound` of `UnwindProofs` | `NoThrowawayBuild`, `ProtectedGivesDiskBack`, `Unwound` |
| `LoadedOfOneDrive`, `FallbackClean`, `PresentationAgrees`, `TypeCorrect` of `InstallInputsProofs` | `LoadedInputsOfOneDrive`, `FallbackInheritsNothing`, `PresentationMatches`, `TypeOK` of `InstallInputs` |
| `TypeCorrect`, `HandoffSound`, `OthersSafe`, `LayoutIsUndone` of `PartitioningProofs` | `TypeOK`, `HandoffMounted`, `OthersKept`, `LayoutUndone` of `Partitioning` |
| `BootTypes`, `OtherSystemsKept`, `FinishedStarts`, `ImageComplete`, `MediumServes` of `LimineBootProofs` | `TypeOK`, `OthersKept`, `InstalledStarts`, `BuiltToBoot`, `ProfileServed` of `LimineBoot` |
| `TypeCorrect`, `ImageInstallsCorrect`, `ImageExactCorrect`, `WarmCacheKeptCorrect`, `RetryEnoughCorrect` of `OfflineMirrorProofs` | the properties of `OfflineMirror` |
| `TypeCorrect`, `BootsToOwnerSetupCorrect`, `AutologinBehindPromptCorrect`, `ReachableCorrect`, `SealedFactoryCleanCorrect` of `ProvisioningProofs` | the invariants of `Provisioning` |
| `DashboardTypes`, `BarIsHonest`, `CountIsHonest`, `RebootIsEarned`, `InstallerStopped` of `DashboardProofs` | `TypeOK`, `BarNeverAhead`, `HonestCount`, `RebootEarned`, `StoppedGone` of `Dashboard` |
| `DashboardInvariant` of `DashboardProofs` | `DInv` |

**Argument.** `TypeOK` is not inductive: `PhaseStart` reads `Phases[phase]` and
`PhaseOk` adds one to it, so one has to know where in the program text a call
is made. `TypeInv` adds `Located` (each call with the phases it belongs to).
`HookPreserved` and `LiveHooksKept` follow from `TypeInv` and the lemmas at the head
of `OrchestratorProofs`: neither loop, wherever it stops, drops the only copy.

`FinishedMeansBootable` speaks of the end and is not inductive either. `IInv` is
`TypeInv` and four parts that carry what each phase did up to the end:

* `AnnouncedLast`: `finished_at` is set only in the last two calls of `run()` and
  in the `finally`; the process that reaches the `finally` without an exception
  has announced.
* `TargetMounted`, `NothingBound`: between mounting and tearing down the target
  is mounted, nothing is bound below a target that is not there, and `finishers`
  and `fstab` are reached with no bind left. This is where the *checked* umount of
  the package cache is needed.
* `DiskSettled`: after phase 3 the fstab is clean and the packages are there,
  after phase 7 the UKI is up to date, after the check in phase 13 the hook is in
  place.

The induction step uses two lemmas that summarise the 40-odd actions: `OrderNext`
(from which calls a given call can be reached) and `DiskFrameNext` (which part of
the disk a step may change, depending on the phase). The refinement adds
`FinalNext`: from the announcement on `disk` is unchanged, because the unmask in
the `finally` finds the hook restored and has nothing to do.

What an attempt undoes needs a second invariant, `UnwindInv`, over `IInv`. The
properties speak of the exit, and each of their conjuncts is carried to it from the
call that did the undoing, past whatever may raise, be interrupted or be killed:

* `Raised`: an exception in flight is only at the calls of a `finally`, and the exit
  code says what became of it. `CleanupProtected` decides by it.
* `MasksOn`, `NothingBuilt`: pacman runs under the masks, the live ones in phase 3 and
  the target's in phase 5, and no other call before limine-update builds anything.
* `FirstHook`, `TargetKept`, `HookUnwound`: `cleanup_target_hook_masks` finds the
  target's hook only if the target is mounted, which it is from phase 3 to the last
  call but one of the `finally`. Before that an attempt leaves the hook as it found
  it, and the first one finds none; hence the condition of `MaskUnwound`.
* `Unboosted`, `LiveBack`: the governors after the first call of the `finally`, the
  live hooks after the inner one around pacstrap.
* `BindsNoted`, `LogNoted`, `OneUnnoted`: between two calls what is bound is recorded
  in `ctx`, but for the log, which only the call that bound it will unbind. A bind is
  made before it is recorded, so an interrupt may find one that is not; no other is
  made after it, since the calls that bind are not of a `finally`. `BindsUnwound` is
  what is left of these once `cleanup_bind_mounts` has undone what is recorded.
* `GivenBack`: after `cleanup_protected_state` nothing of the disk is held.

They were checked with the bounds of the runs `faults` and `retry` before they were
proved. The step
does not go through the actions one by one: `FlowNext` says which call follows which
and where an exception lands (`Flow`), and `HostWritten`, `MemWritten`,
`DiskWritten` say which calls write which field. A conjunct looks only at the calls
that its fields are written by.

The theorems about the inputs hold for every set of drives (`Drives` need only be
a set of sources) and every `MaxRuns`. The invariant of `InstallInputsProofs` adds
how the loader ended by where the script is (`LoadSettled`), that `/root` is empty
when the copy begins and again when the loader gives up (`InputsSettled`), and
that the inputs do not change once a decision has been taken from them
(`DecisionsSettled`).

The theorems about the partitioning hold for every disk, table, set of faults and
number of attempts; the assumption (`PartitioningAssumption`) is that the smallest
region is larger than two ESPs, as 32 GB is. `OthersKept` is about
sessions in which the table is read as it is before a command writes (`ReadRight`). The invariant adds to `TypeOK` that
the planned region is large enough (`Planned`), that what was recorded has the size
asked for (`Sized`), so that the ESP and the root are different partitions and
formatting one keeps the other (`Formatted`), what was mounted last (`Stacked`), and
that what `create_partition` records is its own (`Own`). The size check (107-111)
carries the hand-over even when the numbers were misread.

`LayoutUndone` is about a roll-back that stops at nothing: `umount -R` of the root, a
single `umount` of the temporary mount, the closing of the mapper, then a deletion
for each recorded partition, each of which fails silently if the partition is still in use. `UndoInv`
says why none is, in sessions without the rarer faults (`LayoutUndone` fails with
some of them, see section 4): no later attempt has made a partition (`Past`) and what is mounted
exists (`MountedTaken`), so that what earlier attempts left is never mistaken for
this one's; `created_parts` lists all that the attempt has made but the one whose
number is just being looked for (`Listed`); and the attempt's own mounts lie where
those two commands reach, whatever is below them (`Laid`): there are none, or the
temporary mount is the last of all, or its root is the last root and nothing of its
own is below that. `TableMoves` summarises what a step does to the table, `MountMoves` what it
does to the mounts. The invariant was checked with the bounds of the run `attempts` first.

The theorems about the boot loader hold for any boot numbers, machines, manifests
and number of installs (`LimineAssumption`: types, what was found on a machine was
made by no attempt, aarch64 is UEFI). The invariant adds: the profile was accepted
before the disk was touched (`Served`), which steps are for which firmware
(`Routed`), how far the disk is (`Made`), that both the boot list and the reading of
it keep the other systems and nothing of theirs is to be deleted (`Sparing`), and
where the own entry stands, if deletions work (`Listed`). `Sparing` has both because
BootOrder is written from the reading while entries come and go: the number given to
the new entry may be one that was in BootOrder without an entry, and `SetOrder` must
still keep everybody else's.

The theorems about the credentials hold for every set of installations that meets
`ProvisioningAssumption`: a configuration that makes the disk and a target that is
mounted already exclude each other, and the credentials of a mounted target name its
own passphrase or none. The parts of the invariant say what has been written once the
installation is past a phase (`Past(steps)`): `Secret` (the two places of the
passphrase agree, and the volume was made with one of them), `Armed` and `Keyed`
(what is staged), `Imaged` (what the image was built from, and that `limine.conf` was
looked at), `Visited`, `Uplinked`, `Imprinted` (how far the scrubbing is). Two lemmas
summarise the 26 actions: `Order` (who takes the installation past a phase) and
`Writers` (who writes which file).

The theorems about the mirror hold for any packages, versions, dependencies, lists
and gates, under `MirrorAssumption` (types; what a medium's target needs is on the
list of its mirror, and so are the packages of a checkout) and
`LocalNamesAssumption`: nothing that a build from a checkout downloads makes pacman
fetch a package of the checkout in the checkout's own version, whatever the
repositories offer. The checkout's packages themselves are not among the downloads
(`src/builder/build-iso.sh` 397-405 takes them from the list), and what they need is
not resolved there: so a checkout at a published commit, whose package files have the
published names (`src/builder/local-pkgs/omarchy-dev/PKGBUILD` 87-99, handled by
`src/builder/build-omarchy-packages.sh` 77-82) while `omarchy-dev` needs
`omarchy-settings-dev` (PKGBUILD 22), is within the theorems, and within the run
`mirror` (the settings there, which the checkout's runtime needs). What is assumed is
about the packages of the repositories, which are not part of this code: none that is
downloaded pulls the checkout's packages in under those names. If one did, pacman would
take the file in the cache for a damaged copy of the published one and replace it,
and nothing after that looks at contents. The invariant says, part by part of the scripts:
signatures are of the file beside them (`Signed`); what was made is in place, since the
download neither misses nor compares it (`Placed`, lemma `LocalNotSelected`); the
selection is there with the right contents (`Selected`); the pruner is given these two
and one file of each package of the checkout (`Required`, lemma `FoundLocals`); nothing
else is left, and the index is of what is left (`Tidy`); in an undisturbed build what
the retry finds is right (`Retried`).

The theorems about the dashboard hold for any package total the medium states,
packages held before, delays, batches, sessions and bounds (`DashboardAssumption`:
types). `DInv` has the types variable by variable, with the order of the times that
are subtracted, and says: `state.json` (`FileHonest`) and the frame that was read from it
(`FrameHonest`) name only a phase that this installer has begun, which is why the
dashboard may draw an old reading; the database has grown since the phase was first
seen by no more than was installed (`Grown`), so neither what the target held before
nor a package that is moved aside while it is reinstalled is credited; whoever is on
the way to a reboot has seen the exit code 0 (`Earned`); a pid is held only at the
lines that wait for it (`Held`). `BarNeverAhead` is inductive with these: a draw stops
short of the end of the band of the frame's phase (`Drawn`), and where the last begun
phase ends only grows (`EndsGrow`). `Drawn` needs nothing of the quotients of the
curve but that they are integers (`QuotientInt`), since the bar is clamped between
what it showed and the end of the band; that is why no proof depends on how fast the
bar moves.

**Only model-checked.** Every invariant and action property of the passing runs and the
refinement are proved. The three liveness properties are not: `AttemptEnds` of
`Orchestrator`, `JoinsEventually` of `Provisioning` and `DashboardEnds` of `Dashboard`
rest on fairness and ENABLED, which are out of the prover's reach. The runs whose
outcome is a violation (section 7) are counterexamples and need no proof.

## 6. What is not modelled, and simplifications

* In `Orchestrator` nothing is kept of the contents of files but what a UKI is
  built from. `CheckBoot` requires a UKI and may fail for any other reason. The
  Limine configuration, the boot entries, the provisioning files and the factory
  snapshot are in `LimineBoot` and `Provisioning`, and these two do not share a
  state with it.
* `Provisioning` does not look at a failed or stopped attempt any further, but for
  `@factory`, and leaves out the mounting and unmounting of the top of the
  filesystem for the snapshot. The keys' contents are "usable" or "unusable".
* `Dashboard` leaves out drawing, the log tail and upload and the diagnosis, the
  even bands of a phase without a published index, and members of the installer's
  process group that ignore SIGTERM and outlive its leader (the dashboard looks at
  the leader).
* `OfflineMirror` takes pacman's word that a completed transaction has all that the
  targets depend on, and leaves out builds without a cache (`--no-cache`, a first build
  on an empty directory), the checks of the contents of aarch64 packages, the
  count of the target's packages, and a second build of the same channel and target at
  the same time, which nothing in `omarchy-iso-make` prevents.
* archinstall's own clean-up (`Installer.__exit__`) is taken to do nothing to the
  target's mounts.
* "protected" stands for the three things the code keeps in step: the
  installation mode, the pre-mounted layout of the archinstall configuration and
  `ctx.is_protected`.
* The failure of a write to a governor is one outcome for all CPUs.
* In `Orchestrator` the dashboard appears only through its SIGTERM; its SIGKILL
  after a grace period is the same event for the installer. Power loss that undoes
  completed file operations is not modelled.
* Under the dashboard the installer ignores SIGINT, because bash starts background
  commands that way; the runs with `"INT"` are about an installer started by hand,
  which `main()` provides for (`O/main.py` 96-98).
* In `InstallInputs` a file is complete or absent; the truncated file of a write
  that was cut short is always written again before it is read. Two drives with
  the same contents are one drive.
* `Partitioning` rounds nothing: alignment and the tolerance of one MiB disappear
  in its units. The user's changes in cfdisk are deletions. The root with its
  subvolumes is one mount. Going back in the wizard after the decision is a `Stop`
  and a `Start`.
* Components of section 1 without a module: see `PROJECT.json` for the reason
  and the plan below.

## 7. Where the code and its comments differ

Shown by a run:

1. `WizardDecides` (run `marker`). The session script says deferral is signalled by
   the flag after the wizard and by the marker after a cidata drive
   (`R/.automated_script.sh` 105-106), and the loader's test wants stale inputs
   cleared so that the wizard does not inherit them. The loader leaves before it
   clears when there is no drive (36) or no mount (39). A rig's drive, a run that
   stops, the drive unplugged and `./.automated_script.sh` again, as the wizard
   suggests: the wizard asks for an account, and the machine is installed without.
2. `HalfBuiltUndone` (run `orphan`). A half-built layout is to be undone
   (`R/configurator` 487-488), but a partition is recorded for that only after all
   checks (115). One that `mkpart` wrote before it failed (93), or that one of the
   checks rejects (99, 108, 111), stays as an orphan.
3. `FallbackAccepted` (run `fallback`). Firmware without EFI runtime variables is
   said to boot the removable fallback path (`O/phases_impl.py` 465-466), and the
   configurator asks for it on every aarch64 machine (`R/configurator` 4-5).
   `validate_boot` looks for the loader in its own directory (1722-1724) and calls
   `efibootmgr` with `check=True` (1735): it refuses every such install.
4. `FactoryNeverHoldsCredentials` (run `factory`). Credentials "must not survive into
   the factory image" (`O/phases_impl.py` 1882-1883). The snapshot is taken with all
   of them (1869) and scrubbed path by path (1873); an unlink that fails, or a stop,
   leaves a writable `@factory` with the rest beside a root that boots.

Read off the code while modelling, without a run:

* `cleanup_target_hook_masks` says "an interrupt must never leave the installed
  system with its UKI rebuild hook pointing at /dev/null" (`O/phases_impl.py` 1958).
  Ctrl-C on the dashboard stops the installer with SIGTERM
  (`B/omarchy-install-dashboard` 85-113), which ends Python without its `finally`.
  The install has not finished then, and a retry formats or repairs
  (`FinishedMeansBootable`, `HookPreserved`).
* "Bind mounts get unwound on success, failure, or interrupt" (`O/phases_impl.py`
  1946): a bind is made before it is recorded (702-703, 1066-1067), and the log's
  (1126) is never recorded. `BindsUnwound` is what holds: an interrupt leaves at most
  one, a failure at most the log's, and it goes with the target: `PrepareLive` of the next
  attempt unmounts it, or `CleanupProtected` of a protected one.
* "The same JSON semantics the orchestrator uses" (`R/.automated_script.sh` 107) is
  text equality with `true` in the script and `bool()` in `O/context.py` 70; `1` or
  `"yes"` are true only there. `PresentationMatches` is checked and proved for
  Boolean flags.
* A signal between the fork of the installer (`B/omarchy-install-dashboard` 794) and
  the line that records its pid (795) ends the dashboard and leaves the installer.
  `StoppedGone` is about a recorded pid.
* A stale Limine entry whose deletion the firmware refuses may have a smaller number
  than the new one and is then put in front of BootOrder (`_find_label_entries`
  returns the first). `InstalledStarts` excludes `machine.stuck`; `OthersKept` does
  not.

## 8. Plan

1. *(done)* `PacmanHooks`, `Orchestrator`, `InstallHandover`: the install itself and
   its promise. `InstallInputs`: what it is told to do. `Partitioning`: the disk it
   gets. `HardwareProfiles`, `LimineBoot`: how the machine starts it. `Provisioning`:
   what it hands over. `Dashboard`: who watches it. `OfflineMirror`: what it is
   installed from. Each with its runs and its proofs.
2. *(done)* The proofs of the safety properties: what an attempt undoes
   (`UnwindProofs`), the roll-back of a half-built layout (`PartitioningProofs`), the
   dashboard (`DashboardProofs`).
3. More of the same kind: action properties that a run does not check yet (no step
   takes back what `UnwindInv` carries), and an abstract specification of the
   free-space install that `Partitioning` implements.
