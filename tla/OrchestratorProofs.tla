------------------------- MODULE OrchestratorProofs -------------------------
(***************************************************************************)
(* Proofs about Orchestrator, for any number of live hooks, attempts and   *)
(* signals and with or without faults.                                     *)
(***************************************************************************)
EXTENDS Orchestrator, TLAPS

-----------------------------------------------------------------------------
(* What masking and unmasking one hook, and the loops over hooks, keep.    *)

(***************************************************************************)
(* Both operations, cut short or not, stay within the possible entries     *)
(* (_mask_mkinitcpio_pacman_hooks, _unmask_mkinitcpio_pacman_hooks).       *)
(***************************************************************************)
LEMMA MaskType ==
  ASSUME NEW h \in HookFile
  PROVE  /\ Masked(h) \in HookFile
         /\ MaskedPartly(h) \subseteq HookFile
BY DEF HookFile, Entry, Masked, MaskedPartly

\* Unmasking a name, cut short or not, leaves a hook entry.
LEMMA UnmaskType ==
  ASSUME NEW h \in HookFile
  PROVE  /\ Unmasked(h) \in HookFile
         /\ UnmaskedPartly(h) \subseteq HookFile
BY DEF HookFile, Entry, Unmasked, Unlinked, UnmaskedPartly, IsMasked, InstalledHook

(***************************************************************************)
(* Neither operation loses a hook: at every point of the rename the hook's *)
(* own file is under one of its two names.                                 *)
(***************************************************************************)
LEMMA MaskKeepsHook ==
  ASSUME NEW h \in HookFile, HookKept(h)
  PROVE  /\ HookKept(Masked(h))
         /\ \A g \in MaskedPartly(h) : HookKept(g)
BY DEF HookFile, Entry, Masked, MaskedPartly, HookKept

\* Unmasking a name, cut short or not, never drops the only copy of the hook.
LEMMA UnmaskKeepsHook ==
  ASSUME NEW h \in HookFile, HookKept(h)
  PROVE  /\ HookKept(Unmasked(h))
         /\ \A g \in UnmaskedPartly(h) : HookKept(g)
BY DEF HookFile, Entry, Unmasked, Unlinked, UnmaskedPartly, IsMasked, InstalledHook, HookKept

(***************************************************************************)
(* Unmasking is idempotent: a hook that is in place stays as it is, however*)
(* far the call gets (cleanup_target_hook_masks: "Idempotent, and a no-op  *)
(* when nothing was masked").                                              *)
(***************************************************************************)
LEMMA UnmaskRestoredHook ==
  /\ Unmasked(InstalledHook) = InstalledHook
  /\ UnmaskedPartly(InstalledHook) = {InstalledHook}
BY DEF Unmasked, Unlinked, UnmaskedPartly, IsMasked, InstalledHook

(***************************************************************************)
(* A mask and an unmask that both complete restore a hook, also when the   *)
(* mask is the second one, after an attempt that was cut short in either   *)
(* of the two: this is what makes a retry safe.                            *)
(***************************************************************************)
LEMMA RetriedMaskRestores ==
  ASSUME NEW found \in {NoHook, InstalledHook}
  PROVE  /\ Unmasked(Masked(found)) = found
         /\ \A h \in MaskedPartly(found) \cup UnmaskedPartly(Masked(found)) : Unmasked(Masked(h)) = found
<1> DEFINE entry(p, b) == [path |-> p, backup |-> b]
<1>1. CASE found = InstalledHook
  <2>1. Masked(found) = entry("devnull", "real")
    BY <1>1 DEF Masked, InstalledHook
  <2>2. MaskedPartly(found) \subseteq
          {InstalledHook, entry("devnull", "real"), entry("absent", "real")}
    BY <1>1, <2>1 DEF MaskedPartly, InstalledHook
  <2>3. UnmaskedPartly(Masked(found)) \subseteq
          {entry("devnull", "real"), entry("absent", "real"), InstalledHook}
    BY <2>1 DEF UnmaskedPartly, Unmasked, Unlinked, IsMasked
  <2>4. /\ Masked(entry("devnull", "real")) = entry("devnull", "real")
        /\ Masked(entry("absent", "real")) = entry("devnull", "real")
    BY DEF Masked
  <2>5. Unmasked(entry("devnull", "real")) = InstalledHook
    BY DEF Unmasked
  <2>6. QED
    BY <1>1, <2>1, <2>2, <2>3, <2>4, <2>5
<1>2. CASE found = NoHook
  <2>1. Masked(found) = entry("devnull", "absent")
    BY <1>2 DEF Masked, NoHook
  <2>2. MaskedPartly(found) \subseteq {NoHook, entry("devnull", "absent")}
    BY <1>2, <2>1 DEF MaskedPartly, NoHook
  <2>3. Unmasked(entry("devnull", "absent")) = NoHook
    BY DEF Unmasked, Unlinked, IsMasked, NoHook
  <2>4. UnmaskedPartly(Masked(found)) \subseteq {entry("devnull", "absent"), NoHook}
    BY <2>1, <2>3 DEF UnmaskedPartly, Unlinked, IsMasked, NoHook
  <2>5. Masked(NoHook) = entry("devnull", "absent") /\ Masked(entry("devnull", "absent")) = entry("devnull", "absent")
    BY DEF Masked, NoHook
  <2>6. QED
    BY <1>2, <2>1, <2>2, <2>3, <2>4, <2>5
<1>3. QED
  BY <1>1, <1>2

(***************************************************************************)
(* The loops act on each name by itself.                                   *)
(***************************************************************************)
LEMMA LoopStops ==
  ASSUME NEW I, NEW hs \in [I -> HookFile], I \subseteq Nat
  PROVE  /\ \A fs \in AllMaskedPartly(hs) : fs \in [I -> HookFile]
         /\ \A fs \in AllUnmaskedPartly(hs) : fs \in [I -> HookFile]
         /\ \A fs \in AllUnmaskedBestEffort(hs) : fs \in [I -> HookFile]
         /\ AllMasked(hs) \in [I -> HookFile]
         /\ AllUnmasked(hs) \in [I -> HookFile]
<1>1. DOMAIN hs = I
  OBVIOUS
<1>2. \A i \in I : hs[i] \in HookFile
  OBVIOUS
<1>3. AllMasked(hs) \in [I -> HookFile] /\ AllUnmasked(hs) \in [I -> HookFile]
  BY <1>1, <1>2, MaskType, UnmaskType DEF AllMasked, AllUnmasked
<1>4. \A k \in I : \A h \in MaskedPartly(hs[k]) : LoopStoppedAt(hs, AllMasked(hs), k, h) \in [I -> HookFile]
  BY <1>1, <1>2, <1>3, MaskType DEF LoopStoppedAt
<1>5. \A k \in I : \A h \in UnmaskedPartly(hs[k]) : LoopStoppedAt(hs, AllUnmasked(hs), k, h) \in [I -> HookFile]
  BY <1>1, <1>2, <1>3, UnmaskType DEF LoopStoppedAt
<1>6. \A fs \in AllMaskedPartly(hs) : fs \in [I -> HookFile]
  BY <1>1, <1>4 DEF AllMaskedPartly
<1>7. \A fs \in AllUnmaskedPartly(hs) : fs \in [I -> HookFile]
  BY <1>1, <1>5 DEF AllUnmaskedPartly
<1>8. \A fs \in AllUnmaskedBestEffort(hs) : fs \in [I -> HookFile]
  BY <1>1 DEF AllUnmaskedBestEffort
<1>9. QED
  BY <1>3, <1>6, <1>7, <1>8

(***************************************************************************)
(* A loop over several hooks loses none of them, wherever it is stopped    *)
(* and whichever of its file operations fail.                              *)
(***************************************************************************)
LEMMA LoopsKeepHooks ==
  ASSUME NEW I, NEW hs \in [I -> HookFile], I \subseteq Nat, NEW i \in I, HookKept(hs[i])
  PROVE  /\ \A fs \in {AllMasked(hs)} \cup AllMaskedPartly(hs) : HookKept(fs[i])
         /\ \A fs \in {AllUnmasked(hs)} \cup AllUnmaskedPartly(hs) \cup AllUnmaskedBestEffort(hs) :
               HookKept(fs[i])
<1>1. DOMAIN hs = I /\ hs[i] \in HookFile
  OBVIOUS
<1>2. /\ HookKept(Masked(hs[i])) /\ \A g \in MaskedPartly(hs[i]) : HookKept(g)
      /\ HookKept(Unmasked(hs[i])) /\ \A g \in UnmaskedPartly(hs[i]) : HookKept(g)
  BY <1>1, MaskKeepsHook, UnmaskKeepsHook
<1>3. HookKept(AllMasked(hs)[i]) /\ HookKept(AllUnmasked(hs)[i])
  BY <1>1, <1>2 DEF AllMasked, AllUnmasked
<1>4. \A k \in I : \A h \in MaskedPartly(hs[k]) : HookKept(LoopStoppedAt(hs, AllMasked(hs), k, h)[i])
  <2> TAKE k \in I
  <2> TAKE h \in MaskedPartly(hs[k])
  <2>1. LoopStoppedAt(hs, AllMasked(hs), k, h)[i] = IF i < k THEN Masked(hs[i]) ELSE IF i = k THEN h ELSE hs[i]
    BY <1>1 DEF LoopStoppedAt, AllMasked, AllUnmasked
  <2>2. QED
    BY <1>2, <2>1
<1>5. \A k \in I : \A h \in UnmaskedPartly(hs[k]) : HookKept(LoopStoppedAt(hs, AllUnmasked(hs), k, h)[i])
  <2> TAKE k \in I
  <2> TAKE h \in UnmaskedPartly(hs[k])
  <2>1. LoopStoppedAt(hs, AllUnmasked(hs), k, h)[i] = IF i < k THEN Unmasked(hs[i]) ELSE IF i = k THEN h ELSE hs[i]
    BY <1>1 DEF LoopStoppedAt, AllMasked, AllUnmasked
  <2>2. QED
    BY <1>2, <2>1
<1>6. \A fs \in AllMaskedPartly(hs) : HookKept(fs[i])
  BY <1>1, <1>4 DEF AllMaskedPartly
<1>7. \A fs \in AllUnmaskedPartly(hs) : HookKept(fs[i])
  BY <1>1, <1>5 DEF AllUnmaskedPartly
<1>8. \A fs \in AllUnmaskedBestEffort(hs) : HookKept(fs[i])
  BY <1>1, <1>2 DEF AllUnmaskedBestEffort
<1>9. QED
  BY <1>3, <1>6, <1>7, <1>8

-----------------------------------------------------------------------------
(* Type correctness.                                                       *)

\* The variables that Return, Fail and Stopped set, and those that they do not.
ControlOK ==
  /\ attempt \in 0..MaxAttempts
  /\ signals \in 0..MaxSignals
  /\ ctx \in [protected : BOOLEAN, deferred : BOOLEAN]
  /\ proc \in {"none", "running", "exited", "aborted", "killed"}
  /\ pc \in Calls
  /\ phase \in 0..14
  /\ exc \in {"none", "error", "interrupt"}
  /\ rc \in {"none", "ok", "config", "failed", "interrupted", "traceback", "signal"}

StateFiles == [present : BOOLEAN, index : 0..14, ok : 0..14, failed : BOOLEAN, finished : BOOLEAN]

Mems == [recorded : SUBSET Binds, prepared : BOOLEAN, logBound : BOOLEAN,
         tries : 1..Retries, success : BOOLEAN]

Hosts == [target : {"absent", "noesp", "mounted"}, mapper : BOOLEAN, binds : SUBSET Binds,
          live : [1..LiveHooks -> HookFile], boosted : BOOLEAN]

DataOK == stateFile \in StateFiles /\ mem \in Mems /\ host \in Hosts /\ disk \in Disks

\* build_phases() lists fourteen phases.
LEMMA FourteenPhases == Len(Phases) = 14
BY DEF Phases

\* TypeOK in the two halves that the steps set apart.
LEMMA TypeSplit == TypeOK <=> ControlOK /\ DataOK
BY FourteenPhases DEF TypeOK, ControlOK, DataOK, StateFiles, Mems, Hosts

\* The phases and the calls named above are calls.
LEMMA CallNames ==
  /\ \A i \in 1..14 : Phases[i] \in Calls
  /\ InnerCalls \cup RunCalls \cup FinallyCalls \cup {"from_env", "boost"} \subseteq Calls
BY FourteenPhases DEF Calls

\* A call may only be left for another one.
LEMMA ReturnControl ==
  ASSUME ControlOK, NEW next \in Calls, Return(next)
  PROVE  ControlOK'
BY DEF ControlOK, Return, env

\* An exception lands at a call, or ends the process.
LEMMA HandlerIsCall ==
  ASSUME NEW call \in Calls
  PROVE  Handler(call) \in Calls \cup {"nowhere"}
BY CallNames DEF Handler, InnerCalls, RunCalls, FinallyCalls

\* Raising an exception keeps the control variables typed.
LEMMA RaiseControl ==
  ASSUME ControlOK, NEW e \in {"error", "interrupt"}, Raise(e),
         attempt' = attempt, signals' \in 0..MaxSignals, ctx' = ctx
  PROVE  ControlOK'
BY HandlerIsCall DEF ControlOK, Raise

\* A signal keeps the control variables typed.
LEMMA StoppedControl ==
  ASSUME ControlOK, Stopped
  PROVE  ControlOK'
<1>1. CASE Interrupt
  BY <1>1, RaiseControl, OrchestratorAssumption DEF Interrupt, ControlOK
<1>2. CASE Terminate
  BY <1>2, OrchestratorAssumption DEF Terminate, ControlOK
<1>3. QED
  BY <1>1, <1>2 DEF Stopped

\* So does any other way to cut a call short.
LEMMA CutShortControl ==
  ASSUME ControlOK, CutShort
  PROVE  ControlOK'
<1>1. CASE Fail
  BY <1>1, RaiseControl DEF Fail, env, ControlOK
<1>2. CASE Stopped
  BY <1>2, StoppedControl
<1>3. QED
  BY <1>1, <1>2 DEF CutShort

-----------------------------------------------------------------------------
(* Which phase a call belongs to.                                          *)

Located ==
  /\ pc \in {"from_env", "boost", "init_state"} => phase = 0
  /\ pc \in {"phase_start", "phase_ok"} => phase \in 1..14
  /\ pc = "prepare_live" => phase = 1
  /\ pc = "prepare_install_target" => phase = 2
  /\ pc \in {"arch_install_system", "mount_layout", "mount_cache", "mask_live", "packages",
             "unmask_live", "unmount_cache", "finishers", "fstab"} => phase = 3
  /\ pc = "configure_hibernation" => phase = 4
  /\ pc \in {"run_system_finalizer", "unmask_target"} => phase = 5
  /\ pc \in {"prepare_target", "bind_log", "log_window", "chroot", "unbind_log"} => phase \in {5, 8}
  /\ pc = "stage_provisioning_state" => phase = 6
  /\ pc \in {"finalize_limine_boot", "limine_update"} => phase = 7
  /\ pc = "run_chroot_finalizer" => phase = 8
  /\ pc = "configure_login" => phase = 9
  /\ pc = "configure_ssh_access" => phase = 10
  /\ pc = "configure_tailscale" => phase = 11
  /\ pc = "configure_dns_resolver" => phase = 12
  /\ pc \in {"validate_boot", "assert_hooks", "check_boot"} => phase = 13
  /\ pc = "create_factory_snapshot" => phase = 14
  /\ pc \in {"finish", "timing"} => phase = 14

\* build_phases(), entry by entry.
LEMMA PhaseNames ==
  /\ Phases[1] = "prepare_live"
  /\ Phases[2] = "prepare_install_target"
  /\ Phases[3] = "arch_install_system"
  /\ Phases[4] = "configure_hibernation"
  /\ Phases[5] = "run_system_finalizer"
  /\ Phases[6] = "stage_provisioning_state"
  /\ Phases[7] = "finalize_limine_boot"
  /\ Phases[8] = "run_chroot_finalizer"
  /\ Phases[9] = "configure_login"
  /\ Phases[10] = "configure_ssh_access"
  /\ Phases[11] = "configure_tailscale"
  /\ Phases[12] = "configure_dns_resolver"
  /\ Phases[13] = "validate_boot"
  /\ Phases[14] = "create_factory_snapshot"
BY DEF Phases

\* An exception lands in the phase that was under way.
LEMMA RaiseLocated ==
  ASSUME ControlOK, Located, NEW e, Raise(e)
  PROVE  Located'
<1>1. CASE Handler(pc) = "nowhere"
  BY <1>1 DEF Raise, Located
<1>2. CASE Handler(pc) # "nowhere"
  <2>1. pc' = Handler(pc) /\ phase' = phase
    BY <1>2 DEF Raise
  <2>2. CASE pc' \in {"unwind", "restore_governors"}
    BY <2>2 DEF Located
  <2>3. CASE pc = "packages" /\ pc' = "unmask_live"
    BY <2>1, <2>3 DEF Located
  <2>4. CASE pc = "chroot" /\ pc' = "unbind_log"
    BY <2>1, <2>4 DEF Located
  <2>5. CASE pc \in {"prepare_target", "bind_log", "log_window", "unbind_log"} /\ pc' = "unmask_target" /\ InSystemFinalizer
    <3>1. phase = 5
      BY <2>5, PhaseNames DEF Located, InSystemFinalizer
    <3>2. QED
      BY <2>1, <2>5, <3>1 DEF Located
  <2>6. QED
    BY <1>2, <2>1, <2>2, <2>3, <2>4, <2>5 DEF Handler, RunCalls, FinallyCalls
<1>3. QED
  BY <1>1, <1>2

\* A signal leaves the process in the phase that was under way.
LEMMA StoppedLocated ==
  ASSUME ControlOK, Located, Stopped
  PROVE  Located'
BY RaiseLocated DEF Stopped, Interrupt, Terminate, Located

\* So does any other way to cut a call short.
LEMMA CutShortLocated ==
  ASSUME ControlOK, Located, CutShort
  PROVE  Located'
BY RaiseLocated, StoppedLocated DEF CutShort, Fail

(***************************************************************************)
(* Every step keeps the control variables typed and the call in its phase. *)
(***************************************************************************)
LEMMA ControlNext ==
  ASSUME ControlOK, Located, Next
  PROVE  ControlOK' /\ Located'
<1>0. /\ Stopped \/ CutShort => ControlOK' /\ Located'
      /\ \A i \in 1..14 : Phases[i] \in Calls
  BY StoppedControl, CutShortControl, StoppedLocated, CutShortLocated, CallNames
<1> USE <1>0, ReturnControl, CallNames DEF At, Step, QuietStep, Return, Located, InnerCalls, RunCalls, FinallyCalls
<1>1. CASE StartAttempt
  <2>1. attempt' \in 0..MaxAttempts
    <3>1. attempt < MaxAttempts /\ attempt' = attempt + 1
      BY <1>1 DEF StartAttempt
    <3>2. QED
      BY <3>1, OrchestratorAssumption DEF ControlOK
  <2>2. signals' = signals /\ ctx' \in [protected : BOOLEAN, deferred : BOOLEAN]
    BY <1>1 DEF StartAttempt
  <2>3. proc' = "running" /\ pc' = "from_env" /\ phase' = 0 /\ exc' = "none" /\ rc' = "none"
    BY <1>1 DEF StartAttempt
  <2>4. QED
    BY <2>1, <2>2, <2>3 DEF ControlOK
<1>2. CASE FromEnv
  BY <1>2 DEF FromEnv, env, ControlOK
<1>3. CASE BoostGovernor
  BY <1>3 DEF BoostGovernor
<1>4. CASE InitState
  BY <1>4 DEF InitState, env, ControlOK
<1>5. CASE PhaseStart
  BY <1>5, PhaseNames DEF PhaseStart
<1>6. CASE PhaseOk
  BY <1>6, FourteenPhases DEF PhaseOk, env, ControlOK
<1>7. CASE Unwind
  BY <1>7 DEF Unwind
<1>8. CASE Finish
  BY <1>8 DEF Finish
<1>9. CASE WriteTiming
  BY <1>9 DEF WriteTiming
<1>10. CASE RestoreGovernors
  BY <1>10 DEF RestoreGovernors, AfterCleanup
<1>11. CASE CleanupBinds
  BY <1>11 DEF CleanupBinds, AfterCleanup
<1>12. CASE CleanupHooks
  BY <1>12 DEF CleanupHooks, AfterCleanup
<1>13. CASE CleanupProtected
  BY <1>13 DEF CleanupProtected, AfterCleanup
<1>14. CASE Exit
  BY <1>14 DEF Exit, env, ControlOK
<1>15. CASE PrepareLive
  BY <1>15 DEF PrepareLive
<1>16. CASE PrepareInstallTarget
  BY <1>16 DEF PrepareInstallTarget
<1>17. CASE UsePreMounted
  BY <1>17 DEF UsePreMounted
<1>18. CASE Format
  BY <1>18 DEF Format
<1>19. CASE FormatRetry
  BY <1>19, PhaseNames DEF FormatRetry
<1>20. CASE MountLayout
  BY <1>20 DEF MountLayout
<1>21. CASE MountCache
  BY <1>21 DEF MountCache
<1>22. CASE MaskLive
  BY <1>22 DEF MaskLive
<1>23. CASE InstallPackages
  BY <1>23 DEF InstallPackages
<1>24. CASE UnmaskLive
  BY <1>24 DEF UnmaskLive
<1>25. CASE UnmountCache
  BY <1>25 DEF UnmountCache, EndFinally, CutShort
<1>26. CASE Finishers
  BY <1>26 DEF Finishers
<1>27. CASE WriteFstab
  BY <1>27 DEF WriteFstab
<1>28. CASE ConfigureHibernation
  BY <1>28 DEF ConfigureHibernation
<1>29. CASE RunSystemFinalizer
  BY <1>29 DEF RunSystemFinalizer
<1>30. CASE RunChrootFinalizer
  BY <1>30 DEF RunChrootFinalizer
<1>31. CASE PrepareTarget
  BY <1>31 DEF PrepareTarget
<1>32. CASE BindLog
  BY <1>32 DEF BindLog
<1>33. CASE LogWindow
  BY <1>33 DEF LogWindow
<1>34. CASE RunTargetCommand
  BY <1>34 DEF RunTargetCommand
<1>35. CASE UnbindLog
  BY <1>35, PhaseNames DEF UnbindLog, EndFinally, InSystemFinalizer
<1>36. CASE UnmaskTarget
  BY <1>36 DEF UnmaskTarget, EndFinally
<1>37. CASE StageProvisioningState
  BY <1>37 DEF StageProvisioningState
<1>38. CASE FinalizeLimineBoot
  BY <1>38 DEF FinalizeLimineBoot
<1>39. CASE LimineUpdate
  BY <1>39 DEF LimineUpdate
<1>40. CASE ConfigureUserland
  BY <1>40 DEF ConfigureUserland
<1>41. CASE ValidateBoot
  BY <1>41 DEF ValidateBoot
<1>42. CASE AssertHooks
  BY <1>42 DEF AssertHooks, CutShort
<1>43. CASE CheckBoot
  BY <1>43 DEF CheckBoot
<1>44. CASE Rest
  BY <1>44 DEF Rest, vars, ControlOK
<1>45. QED
  BY <1>1, <1>2, <1>3, <1>4, <1>5, <1>6, <1>7, <1>8, <1>9, <1>10, <1>11, <1>12, <1>13, <1>14, <1>15,
     <1>16, <1>17, <1>18, <1>19, <1>20, <1>21, <1>22, <1>23, <1>24, <1>25, <1>26, <1>27, <1>28,
     <1>29, <1>30, <1>31, <1>32, <1>33, <1>34, <1>35, <1>36, <1>37, <1>38, <1>39, <1>40, <1>41,
     <1>42, <1>43, <1>44
     DEF Next, DriverStep, InstallStep

-----------------------------------------------------------------------------
(* The data stay in their types.                                           *)

\* The writes to state.json keep its type.
LEMMA StateUpdates ==
  ASSUME NEW s \in StateFiles
  PROVE  /\ [s EXCEPT !.present = TRUE] \in StateFiles
         /\ \A i \in 0..14 : [s EXCEPT !.index = i] \in StateFiles
         /\ \A i \in 0..14 : [s EXCEPT !.ok = i] \in StateFiles
         /\ [s EXCEPT !.failed = TRUE] \in StateFiles
         /\ [s EXCEPT !.finished = TRUE] \in StateFiles
BY DEF StateFiles

\* The assignments to ctx.state and the locals keep their types.
LEMMA MemUpdates ==
  ASSUME NEW m \in Mems
  PROVE  /\ \A r \in SUBSET Binds : [m EXCEPT !.recorded = r] \in Mems
         /\ \A b \in BOOLEAN : [m EXCEPT !.prepared = b] \in Mems
         /\ \A b \in BOOLEAN : [m EXCEPT !.logBound = b] \in Mems
         /\ \A n \in 1..Retries : [m EXCEPT !.tries = n] \in Mems
         /\ \A b \in BOOLEAN : [m EXCEPT !.success = b] \in Mems
BY DEF Mems

\* The changes to the live system keep its type.
LEMMA HostUpdates ==
  ASSUME NEW h \in Hosts
  PROVE  /\ \A t \in {"absent", "noesp", "mounted"} : [h EXCEPT !.target = t] \in Hosts
         /\ \A b \in BOOLEAN : [h EXCEPT !.mapper = b] \in Hosts
         /\ \A s \in SUBSET Binds : [h EXCEPT !.binds = s] \in Hosts
         /\ \A l \in [1..LiveHooks -> HookFile] : [h EXCEPT !.live = l] \in Hosts
         /\ \A b \in BOOLEAN : [h EXCEPT !.boosted = b] \in Hosts
         /\ \A t \in {"absent", "noesp", "mounted"}, s \in SUBSET Binds :
               [h EXCEPT !.target = t, !.binds = s] \in Hosts
         /\ \A t \in {"absent", "noesp", "mounted"}, b \in BOOLEAN, s \in SUBSET Binds :
               [h EXCEPT !.target = t, !.mapper = b, !.binds = s] \in Hosts
BY DEF Hosts

\* The sets of bind mounts that the phases name.
LEMMA BindNames ==
  /\ {"pkgcache"} \in SUBSET Binds /\ {"log"} \in SUBSET Binds /\ {} \in SUBSET Binds
  /\ {"mirror"} \in SUBSET Binds /\ {"mirror", "packages"} \in SUBSET Binds
BY DEF Binds

\* Adding and removing bind mounts keeps the type of the live system.
LEMMA HostBinds ==
  ASSUME NEW h \in Hosts, NEW b \in SUBSET Binds
  PROVE  /\ [h EXCEPT !.binds = @ \cup b] \in Hosts
         /\ [h EXCEPT !.binds = @ \ b] \in Hosts
BY DEF Hosts

\* Recording and forgetting bind mounts keeps the type of ctx.state.
LEMMA MemBinds ==
  ASSUME NEW m \in Mems, NEW b \in SUBSET Binds
  PROVE  /\ [m EXCEPT !.recorded = @ \cup b] \in Mems
         /\ [m EXCEPT !.recorded = @ \ b] \in Mems
         /\ [[m EXCEPT !.recorded = @ \cup b] EXCEPT !.prepared = TRUE] \in Mems
         /\ [m EXCEPT !.recorded = {}] \in Mems
BY DEF Mems

\* The changes to the target keep its type.
LEMMA DiskUpdates ==
  ASSUME NEW d \in Disks
  PROVE  /\ \A h \in HookFile : [d EXCEPT !.hook = h] \in Disks
         /\ \A f \in {"none", "clean", "polluted"} : [d EXCEPT !.fstab = f] \in Disks
         /\ \A i \in SUBSET BootInputs : [d EXCEPT !.boot = i] \in Disks
         /\ \A i \in SUBSET BootInputs : [d EXCEPT !.uki = i] \in Disks
         /\ \A h \in HookFile, i \in SUBSET BootInputs :
               [d EXCEPT !.packages = TRUE, !.hook = h, !.boot = i] \in Disks
BY DEF Disks

\* A hook as its package installs it is a hook entry.
LEMMA InstalledType == InstalledHook \in HookFile
BY DEF InstalledHook, HookFile, Entry

\* The initial values are typed.
LEMMA FreshType ==
  /\ NoState \in StateFiles
  /\ FreshMem \in Mems
  /\ BlankDisk \in Disks
BY DEF NoState, StateFiles, FreshMem, Mems, Retries, BlankDisk, Disks, NoHook, HookFile, Entry

\* A target with some of its mounts left is typed.
LEMMA TornAmong ==
  ASSUME NEW h \in Hosts, NEW t \in {"absent", "noesp", "mounted"}, NEW b \in SUBSET h.binds
  PROVE  [h EXCEPT !.target = t, !.binds = b] \in Hosts
BY DEF Hosts

\* Tearing the target down, partly or not, keeps the type of the live system.
LEMMA TeardownType ==
  ASSUME NEW h \in Hosts
  PROVE  /\ Torn(h) \in Hosts
         /\ TornPartly(h) \subseteq Hosts
         /\ Teardown(h) \subseteq Hosts
<1>1. Torn(h) \in Hosts
  BY DEF Torn, Hosts
<1>2. TornPartly(h) \subseteq Hosts
  <2>1. h.target \in {"absent", "noesp", "mounted"} /\ h.binds \in SUBSET Binds
    BY DEF Hosts
  <2>2. CASE h.target = "absent"
    <3>1. TornPartly(h) = {h, [h EXCEPT !.mapper = FALSE]}
      BY <2>2 DEF TornPartly
    <3>2. QED
      BY <3>1, HostUpdates
  <2>3. CASE h.target # "absent"
    <3> DEFINE Left(t) == {[h EXCEPT !.target = t, !.binds = b] : b \in SUBSET h.binds}
    <3>1. TornPartly(h) = Left(h.target) \cup Left("noesp")
      BY <2>3 DEF TornPartly
    <3>2. ASSUME NEW t \in {"absent", "noesp", "mounted"}
          PROVE  Left(t) \subseteq Hosts
      <4>1. \A b \in SUBSET h.binds : [h EXCEPT !.target = t, !.binds = b] \in Hosts
        BY TornAmong
      <4>2. QED
        BY <4>1
    <3>3. QED
      BY <2>1, <3>1, <3>2
  <2>4. QED
    BY <2>2, <2>3
<1>3. QED
  BY <1>1, <1>2 DEF Teardown

\* The loops over the live hooks, cut short or not, leave hook entries.
LEMMA LiveLoops ==
  ASSUME NEW hs \in [1..LiveHooks -> HookFile]
  PROVE  /\ \A l \in {AllMasked(hs)} \cup AllMaskedPartly(hs) : l \in [1..LiveHooks -> HookFile]
         /\ \A l \in {AllUnmasked(hs)} \cup AllUnmaskedPartly(hs) \cup AllUnmaskedBestEffort(hs) :
               l \in [1..LiveHooks -> HookFile]
<1>1. 1..LiveHooks \subseteq Nat
  BY OrchestratorAssumption
<1>2. /\ AllMasked(hs) \in [1..LiveHooks -> HookFile]
      /\ AllUnmasked(hs) \in [1..LiveHooks -> HookFile]
      /\ \A l \in AllMaskedPartly(hs) : l \in [1..LiveHooks -> HookFile]
      /\ \A l \in AllUnmaskedPartly(hs) : l \in [1..LiveHooks -> HookFile]
      /\ \A l \in AllUnmaskedBestEffort(hs) : l \in [1..LiveHooks -> HookFile]
  BY <1>1, LoopStops
<1>3. QED
  BY <1>2

\* Staging a drop-in keeps the type of the target.
LEMMA StagedType ==
  ASSUME disk \in Disks, NEW input \in BootInputs
  PROVE  Staged(input) \in Disks
BY DiskUpdates DEF Staged, Disks

\* Unmasking the hook of the target keeps the type of the target.
LEMMA HooksUnmaskedType ==
  ASSUME disk \in Disks
  PROVE  /\ \A h \in HooksUnmasked : [disk EXCEPT !.hook = h] \in Disks
         /\ \A h \in UnmaskedPartly(disk.hook) : [disk EXCEPT !.hook = h] \in Disks
<1>1. disk.hook \in HookFile
  BY DEF Disks
<1>2. QED
  BY <1>1, UnmaskType, DiskUpdates DEF HooksUnmasked

\* Every step keeps the data typed.
LEMMA DataNext ==
  ASSUME ControlOK, Located, DataOK, Next
  PROVE  DataOK'
<1>0. /\ stateFile \in StateFiles /\ mem \in Mems /\ host \in Hosts /\ disk \in Disks
      /\ mem.recorded \in SUBSET Binds /\ host.binds \in SUBSET Binds
      /\ host.live \in [1..LiveHooks -> HookFile] /\ disk.hook \in HookFile
      /\ disk.boot \in SUBSET BootInputs /\ disk.uki \in SUBSET BootInputs
      /\ host.target \in {"absent", "noesp", "mounted"} /\ mem.tries \in 1..Retries
  BY DEF DataOK, Hosts, Mems, Disks
<1> USE <1>0 DEF DataOK, Step, QuietStep, data, HostBecomes, HostAmong, DiskBecomes, DiskAmong,
                 MemBecomes, WriteState, WriteStatePartly
<1>1. CASE StartAttempt
  <2>1. stateFile' = NoState /\ mem' = FreshMem /\ disk' \in {disk, BlankDisk}
    BY <1>1 DEF StartAttempt
  <2>2. host' = host \/ \E t \in {"absent", "noesp", "mounted"}, m \in BOOLEAN :
                         host' = [host EXCEPT !.target = t, !.mapper = m, !.binds = {}]
    BY <1>1 DEF StartAttempt
  <2>3. host' \in Hosts
    <3>1. ASSUME NEW t \in {"absent", "noesp", "mounted"}, NEW m \in BOOLEAN
          PROVE  [host EXCEPT !.target = t, !.mapper = m, !.binds = {}] \in Hosts
      BY DEF Hosts
    <3>2. QED
      BY <2>2, <3>1
  <2>4. QED
    BY <2>1, <2>3, FreshType
<1>2. CASE FromEnv
  BY <1>2 DEF FromEnv
<1>3. CASE BoostGovernor
  BY <1>3, HostUpdates DEF BoostGovernor
<1>4. CASE InitState
  BY <1>4, StateUpdates, FreshType DEF InitState
<1>5. CASE PhaseStart
  BY <1>5, StateUpdates DEF PhaseStart, Located, ControlOK, At
<1>6. CASE PhaseOk
  BY <1>6, StateUpdates DEF PhaseOk, ControlOK
<1>7. CASE Unwind
  BY <1>7, StateUpdates DEF Unwind
<1>8. CASE Finish
  BY <1>8, StateUpdates DEF Finish
<1>9. CASE WriteTiming
  BY <1>9, MemUpdates DEF WriteTiming
<1>10. CASE RestoreGovernors
  BY <1>10, HostUpdates DEF RestoreGovernors
<1>11. CASE CleanupBinds
  BY <1>11, HostBinds, MemBinds DEF CleanupBinds
<1>12. CASE CleanupHooks
  BY <1>12, HooksUnmaskedType DEF CleanupHooks, HookAmong
<1>13. CASE CleanupProtected
  BY <1>13, HostUpdates, TeardownType DEF CleanupProtected
<1>14. CASE Exit
  BY <1>14 DEF Exit
<1>15. CASE PrepareLive
  BY <1>15, TeardownType DEF PrepareLive
<1>16. CASE PrepareInstallTarget
  BY <1>16, HostUpdates DEF PrepareInstallTarget
<1>17. CASE UsePreMounted
  BY <1>17 DEF UsePreMounted
<1>18. CASE Format
  BY <1>18, FreshType DEF Format
<1>19. CASE FormatRetry
  BY <1>19, FreshType, MemUpdates DEF FormatRetry, Mems, Retries
<1>20. CASE MountLayout
  BY <1>20, HostUpdates DEF MountLayout
<1>21. CASE MountCache
  <2>1. /\ host' \in {host, [host EXCEPT !.binds = @ \cup {"pkgcache"}]}
        /\ mem' \in {mem, [mem EXCEPT !.recorded = @ \cup {"pkgcache"}]}
        /\ UNCHANGED <<stateFile, disk>>
    BY <1>21 DEF MountCache
  <2>2. QED
    BY <2>1, HostBinds, MemBinds, BindNames
<1>22. CASE MaskLive
  <2>1. \E l \in {AllMasked(host.live)} \cup AllMaskedPartly(host.live) : host' = [host EXCEPT !.live = l]
    BY <1>22 DEF MaskLive
  <2>2. \A l \in {AllMasked(host.live)} \cup AllMaskedPartly(host.live) : l \in [1..LiveHooks -> HookFile]
    BY LiveLoops
  <2>3. UNCHANGED <<stateFile, mem, disk>>
    BY <1>22 DEF MaskLive
  <2>4. host' \in Hosts
    <3>1. PICK l : /\ l \in {AllMasked(host.live)} \cup AllMaskedPartly(host.live)
                  /\ host' = [host EXCEPT !.live = l]
      BY <2>1
    <3>2. l \in [1..LiveHooks -> HookFile]
      BY <2>2, <3>1
    <3>3. [host EXCEPT !.live = l] \in Hosts
      BY <3>2, HostUpdates
    <3>4. QED
      BY <3>1, <3>3
  <2>5. QED
    BY <2>3, <2>4
<1>23. CASE InstallPackages
  <2> DEFINE full == [disk EXCEPT !.packages = TRUE, !.hook = InstalledHook, !.boot = @ \cup {"defaults"}]
             some == {disk, [disk EXCEPT !.hook = InstalledHook], full}
  <2>1. \E d \in some : disk' \in {d, [d EXCEPT !.uki = d.boot \cup {"defaults"}]}
    BY <1>23 DEF InstallPackages
  <2>2. InstalledHook \in HookFile
    BY DEF InstalledHook, HookFile, Entry
  <2>3. \A d \in some : d \in Disks
    <3>1. full \in Disks /\ [disk EXCEPT !.hook = InstalledHook] \in Disks
      BY <2>2 DEF Disks, BootInputs
    <3>2. QED
      BY <3>1
  <2>4. \A d \in some : d.boot \cup {"defaults"} \in SUBSET BootInputs
    BY <2>3 DEF Disks, BootInputs
  <2>5. UNCHANGED <<stateFile, mem, host>>
    BY <1>23 DEF InstallPackages
  <2>6. PICK d \in some : disk' \in {d, [d EXCEPT !.uki = d.boot \cup {"defaults"}]}
    BY <2>1
  <2>7. disk' \in Disks
    <3>1. d \in Disks /\ d.boot \cup {"defaults"} \in SUBSET BootInputs
      BY <2>3, <2>4
    <3>2. [d EXCEPT !.uki = d.boot \cup {"defaults"}] \in Disks
      BY <3>1, DiskUpdates
    <3>3. QED
      BY <2>6, <3>1, <3>2
  <2>8. QED
    BY <2>5, <2>7
<1>24. CASE UnmaskLive
  <2> DEFINE outcomes == {AllUnmasked(host.live)} \cup AllUnmaskedPartly(host.live)
                          \cup AllUnmaskedBestEffort(host.live)
  <2>1. \E l \in outcomes : host' = [host EXCEPT !.live = l]
    BY <1>24 DEF UnmaskLive
  <2>2. \A l \in outcomes : l \in [1..LiveHooks -> HookFile]
    BY LiveLoops
  <2>3. UNCHANGED <<stateFile, mem, disk>>
    BY <1>24 DEF UnmaskLive
  <2>4. host' \in Hosts
    <3>1. PICK l : l \in outcomes /\ host' = [host EXCEPT !.live = l]
      BY <2>1
    <3>2. l \in [1..LiveHooks -> HookFile]
      BY <2>2, <3>1
    <3>3. [host EXCEPT !.live = l] \in Hosts
      BY <3>2, HostUpdates
    <3>4. QED
      BY <3>1, <3>3
  <2>5. QED
    BY <2>3, <2>4
<1>25. CASE UnmountCache
  <2>1. /\ host' \in {host, [host EXCEPT !.binds = @ \ {"pkgcache"}]}
        /\ mem' \in {mem, [mem EXCEPT !.recorded = @ \ {"pkgcache"}]}
        /\ UNCHANGED <<stateFile, disk>>
    BY <1>25 DEF UnmountCache
  <2>2. QED
    BY <2>1, HostBinds, MemBinds, BindNames
<1>26. CASE Finishers
  BY <1>26 DEF Finishers
<1>27. CASE WriteFstab
  BY <1>27, DiskUpdates DEF WriteFstab
<1>28. CASE ConfigureHibernation
  BY <1>28, StagedType DEF ConfigureHibernation, BootInputs
<1>29. CASE RunSystemFinalizer
  BY <1>29, DiskUpdates, MaskType DEF RunSystemFinalizer
<1>30. CASE RunChrootFinalizer
  BY <1>30 DEF RunChrootFinalizer
<1>31. CASE PrepareTarget
  <2>1. \E b \in {{}, {"mirror"}, {"mirror", "packages"}} :
           host' \in {host, [host EXCEPT !.binds = @ \cup b]}
    BY <1>31 DEF PrepareTarget
  <2>2. \E r \in {{}, {"mirror"}, {"mirror", "packages"}} :
           mem' \in {mem, [mem EXCEPT !.recorded = @ \cup r],
                    [[mem EXCEPT !.recorded = @ \cup r] EXCEPT !.prepared = TRUE]}
    BY <1>31 DEF PrepareTarget
  <2>3. UNCHANGED <<stateFile, disk>>
    BY <1>31 DEF PrepareTarget
  <2>4. host' \in Hosts
    BY <2>1, HostBinds, BindNames
  <2>5. mem' \in Mems
    <3>1. PICK r \in {{}, {"mirror"}, {"mirror", "packages"}} :
             mem' \in {mem, [mem EXCEPT !.recorded = @ \cup r],
                      [[mem EXCEPT !.recorded = @ \cup r] EXCEPT !.prepared = TRUE]}
      BY <2>2
    <3>2. r \in SUBSET Binds
      BY BindNames
    <3>3. /\ [mem EXCEPT !.recorded = @ \cup r] \in Mems
          /\ [[mem EXCEPT !.recorded = @ \cup r] EXCEPT !.prepared = TRUE] \in Mems
      BY <3>2, MemBinds
    <3>4. QED
      BY <3>1, <3>3
  <2>6. QED
    BY <2>3, <2>4, <2>5
<1>32. CASE BindLog
  BY <1>32, HostBinds, BindNames, MemUpdates DEF BindLog
<1>33. CASE LogWindow
  BY <1>33 DEF LogWindow
<1>34. CASE RunTargetCommand
  <2>1. \E d \in {disk, Staged("hardware")} : disk' \in {d, [d EXCEPT !.uki = d.boot]}
    BY <1>34 DEF RunTargetCommand
  <2>2. \A d \in {disk, Staged("hardware")} : d \in Disks /\ d.boot \in SUBSET BootInputs
    BY StagedType DEF Disks, BootInputs
  <2>3. UNCHANGED <<stateFile, mem, host>>
    BY <1>34 DEF RunTargetCommand
  <2>4. PICK d \in {disk, Staged("hardware")} : disk' \in {d, [d EXCEPT !.uki = d.boot]}
    BY <2>1
  <2>5. disk' \in Disks
    <3>1. d \in Disks /\ d.boot \in SUBSET BootInputs
      BY <2>2
    <3>2. d.uki \in SUBSET BootInputs => [d EXCEPT !.uki = d.boot] \in Disks
      BY <3>1 DEF Disks
    <3>3. d.uki \in SUBSET BootInputs
      BY <3>1 DEF Disks
    <3>4. QED
      BY <2>4, <3>1, <3>2, <3>3
  <2>6. QED
    BY <2>3, <2>5
<1>35. CASE UnbindLog
  <2>1. /\ host' \in {host, [host EXCEPT !.binds = @ \ {"log"}]}
        /\ UNCHANGED <<stateFile, mem, disk>>
    BY <1>35 DEF UnbindLog
  <2>2. QED
    BY <2>1, HostBinds, MemBinds, BindNames
<1>36. CASE UnmaskTarget
  BY <1>36, HooksUnmaskedType DEF UnmaskTarget, HookAmong
<1>37. CASE StageProvisioningState
  BY <1>37, StagedType DEF StageProvisioningState, BootInputs
<1>38. CASE FinalizeLimineBoot
  BY <1>38, StagedType DEF FinalizeLimineBoot, BootInputs
<1>39. CASE LimineUpdate
  BY <1>39, DiskUpdates DEF LimineUpdate
<1>40. CASE ConfigureUserland
  BY <1>40 DEF ConfigureUserland
<1>41. CASE ValidateBoot
  BY <1>41, HooksUnmaskedType DEF ValidateBoot, HookAmong
<1>42. CASE AssertHooks
  BY <1>42 DEF AssertHooks
<1>43. CASE CheckBoot
  BY <1>43 DEF CheckBoot
<1>44. CASE Rest
  BY <1>44 DEF Rest, vars
<1>45. QED
  BY <1>1, <1>2, <1>3, <1>4, <1>5, <1>6, <1>7, <1>8, <1>9, <1>10, <1>11, <1>12, <1>13, <1>14, <1>15,
     <1>16, <1>17, <1>18, <1>19, <1>20, <1>21, <1>22, <1>23, <1>24, <1>25, <1>26, <1>27, <1>28,
     <1>29, <1>30, <1>31, <1>32, <1>33, <1>34, <1>35, <1>36, <1>37, <1>38, <1>39, <1>40, <1>41,
     <1>42, <1>43, <1>44
     DEF Next, DriverStep, InstallStep

(***************************************************************************)
(* The initial state and every step keep the variables in their types.     *)
(***************************************************************************)
LEMMA TypeInit == Init => ControlOK /\ Located /\ DataOK
<1> SUFFICES ASSUME Init PROVE ControlOK /\ Located /\ DataOK
  OBVIOUS
<1>1. ControlOK /\ Located
  BY OrchestratorAssumption, CallNames DEF Init, ControlOK, Located
<1>2. stateFile \in StateFiles /\ mem \in Mems /\ disk \in Disks
  BY FreshType DEF Init
<1>3. host \in Hosts
  <2>1. PICK live \in [1..LiveHooks -> {NoHook, InstalledHook}] :
          host = [target |-> "absent", mapper |-> FALSE, binds |-> {}, live |-> live, boosted |-> FALSE]
    BY DEF Init
  <2>2. live \in [1..LiveHooks -> HookFile]
    BY DEF NoHook, InstalledHook, HookFile, Entry
  <2>3. QED
    BY <2>1, <2>2 DEF Hosts
<1>4. QED
  BY <1>1, <1>2, <1>3 DEF DataOK

TypeInv == ControlOK /\ Located /\ DataOK

\* Every reachable state is typed and every call is made in its own phase.
THEOREM TypeInvariant == Spec => []TypeInv
<1>1. Init => TypeInv
  BY TypeInit DEF TypeInv
<1>2. TypeInv /\ [Next]_vars => TypeInv'
  <2>1. TypeInv /\ Next => TypeInv'
    BY ControlNext, DataNext DEF TypeInv
  <2>2. TypeInv /\ UNCHANGED vars => TypeInv'
    BY DEF TypeInv, ControlOK, Located, DataOK, vars
  <2>3. QED
    BY <2>1, <2>2
<1>3. QED
  BY <1>1, <1>2, PTL DEF Spec

(***************************************************************************)
(* Every reachable state has the types TypeOK names.                       *)
(***************************************************************************)
THEOREM TypeCorrect == Spec => []TypeOK
<1>1. TypeInv => TypeOK
  BY TypeSplit DEF TypeInv
<1>2. QED
  BY <1>1, TypeInvariant, PTL
-----------------------------------------------------------------------------
(* The hook is never lost.                                                 *)

\* The actions that leave the target's root file system alone.
DiskUntouched ==
  \/ FromEnv \/ BoostGovernor \/ InitState \/ PhaseStart \/ PhaseOk \/ Unwind \/ Finish \/ WriteTiming
  \/ RestoreGovernors \/ CleanupBinds \/ CleanupProtected \/ Exit
  \/ PrepareLive \/ PrepareInstallTarget \/ UsePreMounted \/ MountLayout \/ MountCache \/ MaskLive
  \/ UnmaskLive \/ UnmountCache \/ Finishers \/ RunChrootFinalizer \/ PrepareTarget \/ BindLog
  \/ LogWindow \/ UnbindLog \/ ConfigureUserland \/ AssertHooks \/ CheckBoot \/ Rest

\* These actions do leave the target alone.
LEMMA DiskUnchanged ==
  ASSUME DiskUntouched
  PROVE  UNCHANGED disk
<1> USE DEF Step, QuietStep, data, HostBecomes, HostAmong, MemBecomes, WriteState, WriteStatePartly
<1>1. CASE FromEnv \/ BoostGovernor \/ InitState \/ PhaseStart \/ PhaseOk \/ Unwind \/ Finish \/ WriteTiming
  BY <1>1 DEF FromEnv, BoostGovernor, InitState, PhaseStart, PhaseOk, Unwind, Finish, WriteTiming
<1>2. CASE RestoreGovernors \/ CleanupBinds \/ CleanupProtected \/ Exit \/ Rest
  BY <1>2 DEF RestoreGovernors, CleanupBinds, CleanupProtected, Exit, Rest, vars
<1>3. CASE PrepareLive \/ PrepareInstallTarget \/ UsePreMounted \/ MountLayout \/ MountCache
  BY <1>3 DEF PrepareLive, PrepareInstallTarget, UsePreMounted, MountLayout, MountCache
<1>4. CASE MaskLive \/ UnmaskLive \/ UnmountCache \/ Finishers \/ RunChrootFinalizer
  BY <1>4 DEF MaskLive, UnmaskLive, UnmountCache, Finishers, RunChrootFinalizer
<1>5. CASE PrepareTarget \/ BindLog \/ LogWindow \/ UnbindLog
  BY <1>5 DEF PrepareTarget, BindLog, LogWindow, UnbindLog
<1>6. CASE ConfigureUserland \/ AssertHooks \/ CheckBoot
  BY <1>6 DEF ConfigureUserland, AssertHooks, CheckBoot
<1>7. QED
  BY <1>1, <1>2, <1>3, <1>4, <1>5, <1>6 DEF DiskUntouched

\* What masking and unmasking the target's hook may leave on the disk.
LEMMA HookRewritten ==
  ASSUME disk \in Disks, HookPreserved,
         NEW h \in {Masked(disk.hook), Unmasked(disk.hook)}
                     \cup MaskedPartly(disk.hook) \cup UnmaskedPartly(disk.hook),
         disk' = [disk EXCEPT !.hook = h]
  PROVE  HookPreserved'
<1>1. disk.hook \in HookFile
  BY DEF Disks
<1>2. HookKept(disk.hook) => HookKept(h)
  BY <1>1, MaskKeepsHook, UnmaskKeepsHook
<1>3. disk'.packages = disk.packages /\ disk'.hook = h
  BY DEF Disks
<1>4. QED
  BY <1>2, <1>3 DEF HookPreserved

\* Unmasking the hook of the target, cut short or not, keeps it on disk.
LEMMA HooksUnmaskedPreserve ==
  ASSUME disk \in Disks, HookPreserved,
         HookAmong(HooksUnmasked) \/ HookAmong(UnmaskedPartly(disk.hook))
  PROVE  HookPreserved'
<1>1. PICK h \in {Unmasked(disk.hook)} \cup UnmaskedPartly(disk.hook) : disk' = [disk EXCEPT !.hook = h]
  BY DEF HookAmong, DiskAmong, HooksUnmasked
<1>2. QED
  BY <1>1, HookRewritten

\* Steps that keep the packages and the hook as they were.
LEMMA HookUntouched ==
  ASSUME HookPreserved, disk'.packages = disk.packages, disk'.hook = disk.hook
  PROVE  HookPreserved'
BY DEF HookPreserved

\* A wiped disk holds no packages, so there is no hook to lose.
LEMMA BlankHook == ASSUME HookPreserved, disk' \in {disk, BlankDisk} PROVE HookPreserved'
BY DEF HookPreserved, BlankDisk

\* No step loses the hook of the target.
LEMMA HookPreservedNext ==
  ASSUME TypeInv, HookPreserved, Next
  PROVE  HookPreserved'
<1>0. disk \in Disks
  BY DEF TypeInv, DataOK
<1> USE <1>0
<1>1. CASE DiskUntouched
  BY <1>1, DiskUnchanged, HookUntouched
<1>2. CASE StartAttempt
  BY <1>2, BlankHook DEF StartAttempt
<1>3. CASE Format \/ FormatRetry
  BY <1>3, BlankHook DEF Format, FormatRetry, DiskBecomes, DiskAmong
<1>4. CASE InstallPackages
  <2> DEFINE full == [disk EXCEPT !.packages = TRUE, !.hook = InstalledHook, !.boot = @ \cup {"defaults"}]
             some == {disk, [disk EXCEPT !.hook = InstalledHook], full}
  <2>1. PICK d \in some : disk' \in {d, [d EXCEPT !.uki = d.boot \cup {"defaults"}]}
    BY <1>4 DEF InstallPackages, Step, DiskAmong
  <2>2. d \in Disks
    BY InstalledType DEF Disks, BootInputs
  <2>3. disk'.packages = d.packages /\ disk'.hook = d.hook
    BY <2>1, <2>2 DEF Disks
  <2>4. d.packages => HookKept(d.hook)
    <3>1. d.hook \in {InstalledHook, disk.hook} /\ (d.hook = InstalledHook \/ d = disk)
      BY DEF Disks
    <3>2. HookKept(InstalledHook)
      BY DEF HookKept, InstalledHook
    <3>3. QED
      BY <3>1, <3>2 DEF HookPreserved
  <2>5. QED
    BY <2>3, <2>4 DEF HookPreserved
<1>5. CASE WriteFstab
  <2>1. \E f \in {"none", "clean", "polluted"} : disk' \in {disk, [disk EXCEPT !.fstab = f]}
    BY <1>5 DEF WriteFstab, Step, DiskBecomes, DiskAmong
  <2>2. QED
    BY <2>1, HookUntouched DEF Disks
<1>6. CASE ConfigureHibernation \/ StageProvisioningState \/ FinalizeLimineBoot
  <2>1. \E input \in BootInputs : disk' \in {disk, Staged(input)}
    BY <1>6 DEF ConfigureHibernation, StageProvisioningState, FinalizeLimineBoot, Step, DiskAmong, BootInputs
  <2>2. QED
    BY <2>1, HookUntouched DEF Disks, Staged
<1>7. CASE RunSystemFinalizer
  <2>1. PICK h \in {Masked(disk.hook)} \cup MaskedPartly(disk.hook) : disk' = [disk EXCEPT !.hook = h]
    BY <1>7 DEF RunSystemFinalizer, Step, DiskBecomes, DiskAmong, Disks
  <2>2. QED
    BY <2>1, HookRewritten
<1>8. CASE RunTargetCommand
  <2>1. PICK d \in {disk, Staged("hardware")} : disk' \in {d, [d EXCEPT !.uki = d.boot]}
    BY <1>8 DEF RunTargetCommand, Step, DiskAmong
  <2>2. d \in Disks /\ d.packages = disk.packages /\ d.hook = disk.hook
    BY StagedType DEF Staged, Disks, BootInputs
  <2>3. QED
    BY <2>1, <2>2, HookUntouched DEF Disks
<1>9. CASE LimineUpdate
  BY <1>9, HookUntouched DEF LimineUpdate, Step, DiskBecomes, DiskAmong, Disks
<1>10. CASE UnmaskTarget \/ ValidateBoot
  BY <1>10, HooksUnmaskedPreserve DEF UnmaskTarget, ValidateBoot, QuietStep
<1>11. CASE CleanupHooks
  BY <1>11, HooksUnmaskedPreserve, HookUntouched DEF CleanupHooks, QuietStep, data
<1>12. QED
  BY <1>1, <1>2, <1>3, <1>4, <1>5, <1>6, <1>7, <1>8, <1>9, <1>10, <1>11
     DEF Next, DriverStep, InstallStep, DiskUntouched

(***************************************************************************)
(* However often installs are interrupted, killed and retried, once the    *)
(* packages are on the target's disk its UKI rebuild hook is there too.    *)
(***************************************************************************)
THEOREM HookNeverLost == Spec => []HookPreserved
<1>1. Init => HookPreserved
  BY DEF Init, HookPreserved, BlankDisk
<1>2. TypeInv /\ HookPreserved /\ [Next]_vars => HookPreserved'
  BY HookPreservedNext, HookUntouched DEF vars
<1>3. QED
  BY <1>1, <1>2, TypeInvariant, PTL DEF Spec
-----------------------------------------------------------------------------
(* The live system's hooks.                                                *)

\* Changes of the live system that leave its hooks alone.
LiveUntouched == host'.live = host.live

\* Tearing the target down does not touch the live hooks.
LEMMA TeardownKeepsLive ==
  ASSUME NEW h \in Hosts, NEW g \in Teardown(h) \cup TornPartly(h)
  PROVE  g.live = h.live
<1>1. Torn(h).live = h.live
  BY DEF Torn, Hosts
<1>2. \A f \in TornPartly(h) : f.live = h.live
  <2>1. \A t : \A b : [h EXCEPT !.target = t, !.binds = b].live = h.live
    BY DEF Hosts
  <2>2. [h EXCEPT !.mapper = FALSE].live = h.live
    BY DEF Hosts
  <2>3. CASE h.target = "absent"
    BY <2>2, <2>3 DEF TornPartly
  <2>4. CASE h.target # "absent"
    <3> TAKE f \in TornPartly(h)
    <3>1. \E t \in {h.target, "noesp"} : \E b \in SUBSET h.binds : f = [h EXCEPT !.target = t, !.binds = b]
      BY <2>4 DEF TornPartly
    <3>2. QED
      BY <2>1, <3>1
  <2>5. QED
    BY <2>3, <2>4
<1>3. QED
  BY <1>1, <1>2 DEF Teardown

\* Only _mask and _unmask change the live hooks.
LEMMA OthersLeaveLive ==
  ASSUME TypeInv, Next, ~ MaskLive, ~ UnmaskLive
  PROVE  LiveUntouched
<1>0. host \in Hosts
  BY DEF TypeInv, DataOK
<1> USE <1>0
    DEF LiveUntouched, Hosts, Step, QuietStep, data, HostBecomes, HostAmong, DiskBecomes, DiskAmong,
        MemBecomes, WriteState, WriteStatePartly
<1>1. CASE StartAttempt \/ Rest
  BY <1>1 DEF StartAttempt, Rest, vars
<1>2. CASE FromEnv \/ InitState \/ PhaseStart \/ PhaseOk \/ Unwind \/ Finish \/ WriteTiming \/ Exit
  BY <1>2 DEF FromEnv, InitState, PhaseStart, PhaseOk, Unwind, Finish, WriteTiming, Exit
<1>3. CASE BoostGovernor \/ RestoreGovernors
  BY <1>3 DEF BoostGovernor, RestoreGovernors
<1>4. CASE CleanupBinds
  BY <1>4 DEF CleanupBinds
<1>5. CASE CleanupHooks
  BY <1>5 DEF CleanupHooks, HookAmong
<1>6. CASE CleanupProtected
  BY <1>6, TeardownKeepsLive DEF CleanupProtected, Torn
<1>7. CASE PrepareLive
  <2>1. host' = host \/ host' \in Teardown(host) \cup TornPartly(host) \cup {Torn(host)}
    BY <1>7 DEF PrepareLive
  <2>2. QED
    BY <2>1, TeardownKeepsLive DEF Teardown
<1>8. CASE PrepareInstallTarget
  BY <1>8 DEF PrepareInstallTarget
<1>9. CASE UsePreMounted \/ Format \/ FormatRetry \/ Finishers \/ WriteFstab
  BY <1>9 DEF UsePreMounted, Format, FormatRetry, Finishers, WriteFstab
<1>10. CASE MountLayout
  BY <1>10 DEF MountLayout
<1>11. CASE MountCache
  BY <1>11 DEF MountCache
<1>12. CASE InstallPackages
  BY <1>12 DEF InstallPackages
<1>13. CASE UnmountCache
  BY <1>13 DEF UnmountCache
<1>14. CASE ConfigureHibernation \/ RunSystemFinalizer \/ RunChrootFinalizer \/ StageProvisioningState
            \/ FinalizeLimineBoot \/ LimineUpdate
  BY <1>14 DEF ConfigureHibernation, RunSystemFinalizer, RunChrootFinalizer, StageProvisioningState,
               FinalizeLimineBoot, LimineUpdate
<1>15. CASE PrepareTarget
  BY <1>15 DEF PrepareTarget
<1>16. CASE BindLog
  BY <1>16 DEF BindLog
<1>17. CASE LogWindow \/ RunTargetCommand
  BY <1>17 DEF LogWindow, RunTargetCommand
<1>18. CASE UnbindLog
  BY <1>18 DEF UnbindLog
<1>19. CASE UnmaskTarget \/ ValidateBoot \/ ConfigureUserland \/ AssertHooks \/ CheckBoot
  BY <1>19 DEF UnmaskTarget, ValidateBoot, HookAmong, ConfigureUserland, AssertHooks, CheckBoot
<1>20. QED
  BY <1>1, <1>2, <1>3, <1>4, <1>5, <1>6, <1>7, <1>8, <1>9, <1>10, <1>11, <1>12, <1>13, <1>14, <1>15,
     <1>16, <1>17, <1>18, <1>19 DEF Next, DriverStep, InstallStep

\* No step loses a live hook.
LEMMA LiveHooksNext ==
  ASSUME TypeInv, Next, NEW i \in 1..LiveHooks, HookKept(host.live[i])
  PROVE  HookKept(host'.live[i])
<1>1. 1..LiveHooks \subseteq Nat /\ host \in Hosts /\ host.live \in [1..LiveHooks -> HookFile]
  BY OrchestratorAssumption DEF TypeInv, DataOK, Hosts
<1>2. CASE MaskLive
  <2>1. PICK l \in {AllMasked(host.live)} \cup AllMaskedPartly(host.live) : host' = [host EXCEPT !.live = l]
    BY <1>2 DEF MaskLive, Step, HostBecomes, HostAmong
  <2>2. HookKept(l[i])
    BY <1>1, LoopsKeepHooks
  <2>3. host'.live = l
    BY <1>1, <2>1 DEF Hosts
  <2>4. QED
    BY <2>2, <2>3
<1>3. CASE UnmaskLive
  <2>1. PICK l \in {AllUnmasked(host.live)} \cup AllUnmaskedPartly(host.live)
                     \cup AllUnmaskedBestEffort(host.live) : host' = [host EXCEPT !.live = l]
    BY <1>3 DEF UnmaskLive, QuietStep, HostAmong
  <2>2. HookKept(l[i])
    BY <1>1, LoopsKeepHooks
  <2>3. host'.live = l
    BY <1>1, <2>1 DEF Hosts
  <2>4. QED
    BY <2>2, <2>3
<1>4. QED
  BY <1>2, <1>3, OthersLeaveLive DEF LiveUntouched

(***************************************************************************)
(* No step of any attempt drops the only copy of a hook of the live system *)
(* (_mask and _unmask rename it aside and back, stopped or not).           *)
(***************************************************************************)
THEOREM LiveHooksNeverLost == Spec => LiveHooksKept
<1> DEFINE Kept == \A i \in 1..LiveHooks : HookKept(host.live[i]) => HookKept(host'.live[i])
<1>1. TypeInv /\ [Next]_vars => [Kept]_vars
  BY LiveHooksNext
<1>2. QED
  BY <1>1, TypeInvariant, PTL DEF Spec, LiveHooksKept
-----------------------------------------------------------------------------
(* The order of the calls.                                                 *)

Unwinding == {"unwind"} \cup FinallyCalls

\* Where a call that is cut short leaves the process.
CutShortLands ==
  /\ phase' = phase /\ ctx' = ctx
  /\ \/ proc' \in {"killed", "aborted"} /\ pc' = pc /\ rc' # "ok" /\ (exc' = exc \/ exc' # "none")
     \/ /\ proc' = proc /\ rc' = rc /\ exc' # "none" /\ pc \notin FinallyCalls
        /\ \/ pc' = "unwind" /\ pc \notin RunCalls
           \/ pc' = "restore_governors"
           \/ pc = "packages" /\ pc' = "unmask_live"
           \/ pc = "chroot" /\ pc' = "unbind_log"
           \/ /\ phase = 5 /\ pc' = "unmask_target"
              /\ pc \in {"prepare_target", "bind_log", "log_window", "unbind_log"}

\* An exception lands in a finally, in the except of run(), or nowhere.
LEMMA RaiseLands ==
  ASSUME ControlOK, Located, NEW e \in {"error", "interrupt"}, Raise(e), ctx' = ctx
  PROVE  CutShortLands
<1>1. phase' = phase /\ exc' = e
  BY DEF Raise
<1>2. CASE Handler(pc) = "nowhere"
  BY <1>1, <1>2 DEF Raise, CutShortLands
<1>3. CASE Handler(pc) # "nowhere"
  <2>1. proc' = proc /\ rc' = rc /\ pc' = Handler(pc)
    BY <1>3 DEF Raise
  <2>2. pc \notin FinallyCalls
    BY <1>3 DEF Handler, FinallyCalls, RunCalls
  <2>3. \/ Handler(pc) = "unwind" /\ pc \notin RunCalls
        \/ Handler(pc) = "restore_governors"
        \/ pc = "packages" /\ Handler(pc) = "unmask_live"
        \/ pc = "chroot" /\ Handler(pc) = "unbind_log"
        \/ InSystemFinalizer /\ Handler(pc) = "unmask_target"
           /\ pc \in {"prepare_target", "bind_log", "log_window", "unbind_log"}
    BY <1>3 DEF Handler, RunCalls
  <2>4. InSystemFinalizer /\ pc \in {"prepare_target", "bind_log", "log_window", "unbind_log"} => phase = 5
    BY PhaseNames DEF InSystemFinalizer, Located
  <2>5. QED
    BY <1>1, <2>1, <2>2, <2>3, <2>4 DEF CutShortLands
<1>4. QED
  BY <1>2, <1>3

\* So does a call that is cut short, unless the process is killed on the spot.
LEMMA CutShortEffect ==
  ASSUME ControlOK, Located, Stopped \/ CutShort
  PROVE  CutShortLands
<1>1. CASE Terminate
  BY <1>1 DEF Terminate, CutShortLands
<1>2. CASE Interrupt
  BY <1>2, RaiseLands DEF Interrupt
<1>3. CASE Fail
  BY <1>3, RaiseLands DEF Fail, env
<1>4. QED
  BY <1>1, <1>2, <1>3 DEF CutShort, Stopped

\* The call that comes next in the same phase when this one completes.
Follows ==
  \/ pc = "from_env" /\ pc' = "boost"
  \/ pc = "boost" /\ pc' = "init_state"
  \/ pc = "phase_start" /\ pc' = Phases[phase]
  \/ pc = "phase_ok" /\ pc' = "finish"
  \/ pc = "finish" /\ pc' = "timing"
  \/ pc \in {"timing", "unwind"} /\ pc' = "restore_governors"
  \/ pc = "restore_governors" /\ pc' = "cleanup_binds"
  \/ pc = "cleanup_binds" /\ pc' = "cleanup_hooks"
  \/ pc = "cleanup_hooks" /\ pc' = IF mem.success THEN "exit" ELSE "cleanup_protected"
  \/ pc = "cleanup_protected" /\ pc' = "exit"
  \/ pc = "arch_install_system" /\ pc' = IF ctx.protected THEN "mount_cache" ELSE "mount_layout"
  \/ pc = "arch_install_system" /\ pc' = "arch_install_system" /\ ~ ctx.protected
  \/ pc = "mount_layout" /\ pc' = "mount_cache"
  \/ pc = "mount_cache" /\ pc' = "mask_live"
  \/ pc = "mask_live" /\ pc' = "packages"
  \/ pc = "packages" /\ pc' = "unmask_live"
  \/ pc = "unmask_live" /\ pc' = "unmount_cache"
  \/ pc = "unmount_cache" /\ pc' = IF exc = "none" THEN "finishers" ELSE "unwind"
  \/ pc = "finishers" /\ pc' = "fstab"
  \/ pc \in {"run_system_finalizer", "run_chroot_finalizer"} /\ pc' = "prepare_target"
  \/ pc = "prepare_target" /\ pc' = "bind_log"
  \/ pc = "bind_log" /\ pc' = "log_window"
  \/ pc = "log_window" /\ pc' = "chroot"
  \/ pc = "chroot" /\ pc' = "unbind_log"
  \/ pc = "unbind_log" /\ phase = 5 /\ pc' = "unmask_target"
  \/ pc \in {"unbind_log", "unmask_target"} /\ pc' = IF exc = "none" THEN "phase_ok" ELSE "unwind"
  \/ pc = "finalize_limine_boot" /\ pc' = "limine_update"
  \/ pc = "validate_boot" /\ pc' = "assert_hooks"
  \/ pc = "assert_hooks" /\ pc' = "check_boot"
  \/ /\ pc \in {"prepare_live", "prepare_install_target", "fstab", "configure_hibernation",
                "stage_provisioning_state", "limine_update", "run_chroot_finalizer", "configure_login",
                "configure_ssh_access", "configure_tailscale", "configure_dns_resolver",
                "create_factory_snapshot", "check_boot"}
     /\ pc' = "phase_ok"

\* A step of a running process: the call is cut short, it ends the process, or it completes.
Flow ==
  /\ proc = "running" /\ attempt' = attempt /\ ctx' = ctx
  /\ \/ CutShortLands
     \/ /\ proc' = "exited" /\ pc' = pc /\ phase' = phase /\ exc' = exc
        /\ \/ pc = "from_env" /\ rc' = "config"
           \/ pc = "exit" /\ (rc' = "ok" <=> exc = "none") /\ (rc' = "failed" <=> exc = "error")
     \/ /\ proc' = "running" /\ rc' = rc /\ exc' = exc
        /\ \/ pc = "init_state" /\ pc' = "phase_start" /\ phase' = 1
           \/ pc = "phase_ok" /\ pc' = "phase_start" /\ phase' = phase + 1
           \/ Follows /\ phase' = phase

\* A call that is cut short, with what no way of cutting it short changes.
LEMMA CutShortFlow ==
  ASSUME ControlOK, Located, proc = "running", Stopped \/ CutShort
  PROVE  Flow
<1>1. attempt' = attempt /\ ctx' = ctx
  BY DEF CutShort, Stopped, Interrupt, Terminate, Fail, env
<1>2. QED
  BY <1>1, CutShortEffect DEF Flow

\* Every step of an attempt goes with the flow.
LEMMA FlowNext ==
  ASSUME ControlOK, Located, Next, ~ StartAttempt, ~ Rest
  PROVE  Flow
<1>0. proc = "running" /\ (Stopped \/ CutShort) => Flow
  BY CutShortFlow
<1> USE <1>0 DEF ControlOK, Located, Flow, Follows, At, Step, QuietStep, Return, env
<1>1. CASE FromEnv
  BY <1>1 DEF FromEnv, env
<1>2. CASE BoostGovernor
  BY <1>2 DEF BoostGovernor
<1>3. CASE InitState
  BY <1>3 DEF InitState, env
<1>4. CASE PhaseStart
  BY <1>4, PhaseNames DEF PhaseStart
<1>5. CASE PhaseOk
  BY <1>5, FourteenPhases DEF PhaseOk, env
<1>6. CASE Unwind
  BY <1>6 DEF Unwind
<1>7. CASE Finish
  BY <1>7 DEF Finish
<1>8. CASE WriteTiming
  BY <1>8 DEF WriteTiming
<1>9. CASE RestoreGovernors
  BY <1>9 DEF RestoreGovernors, AfterCleanup
<1>10. CASE CleanupBinds
  BY <1>10 DEF CleanupBinds, AfterCleanup
<1>11. CASE CleanupHooks
  BY <1>11 DEF CleanupHooks, AfterCleanup
<1>12. CASE CleanupProtected
  BY <1>12 DEF CleanupProtected, AfterCleanup
<1>13. CASE Exit
  BY <1>13 DEF Exit, env
<1>14. CASE PrepareLive
  BY <1>14 DEF PrepareLive
<1>15. CASE PrepareInstallTarget
  BY <1>15 DEF PrepareInstallTarget
<1>16. CASE UsePreMounted
  BY <1>16 DEF UsePreMounted
<1>17. CASE Format
  BY <1>17 DEF Format
<1>18. CASE FormatRetry
  BY <1>18, PhaseNames DEF FormatRetry
<1>19. CASE MountLayout
  BY <1>19 DEF MountLayout
<1>20. CASE MountCache
  BY <1>20 DEF MountCache
<1>21. CASE MaskLive
  BY <1>21 DEF MaskLive
<1>22. CASE InstallPackages
  BY <1>22 DEF InstallPackages
<1>23. CASE UnmaskLive
  BY <1>23 DEF UnmaskLive
<1>24. CASE UnmountCache
  BY <1>24 DEF UnmountCache, EndFinally, CutShort
<1>25. CASE Finishers
  BY <1>25 DEF Finishers
<1>26. CASE WriteFstab
  BY <1>26 DEF WriteFstab
<1>27. CASE ConfigureHibernation
  BY <1>27 DEF ConfigureHibernation
<1>28. CASE RunSystemFinalizer
  BY <1>28 DEF RunSystemFinalizer
<1>29. CASE RunChrootFinalizer
  BY <1>29 DEF RunChrootFinalizer
<1>30. CASE PrepareTarget
  BY <1>30 DEF PrepareTarget
<1>31. CASE BindLog
  BY <1>31 DEF BindLog
<1>32. CASE LogWindow
  BY <1>32 DEF LogWindow
<1>33. CASE RunTargetCommand
  BY <1>33 DEF RunTargetCommand
<1>34. CASE UnbindLog
  BY <1>34, PhaseNames DEF UnbindLog, EndFinally, InSystemFinalizer
<1>35. CASE UnmaskTarget
  BY <1>35 DEF UnmaskTarget, EndFinally
<1>36. CASE StageProvisioningState
  BY <1>36 DEF StageProvisioningState
<1>37. CASE FinalizeLimineBoot
  BY <1>37 DEF FinalizeLimineBoot
<1>38. CASE LimineUpdate
  BY <1>38 DEF LimineUpdate
<1>39. CASE ConfigureUserland
  BY <1>39 DEF ConfigureUserland
<1>40. CASE ValidateBoot
  BY <1>40 DEF ValidateBoot
<1>41. CASE AssertHooks
  BY <1>41 DEF AssertHooks, CutShort
<1>42. CASE CheckBoot
  BY <1>42 DEF CheckBoot
<1>43. QED
  BY <1>1, <1>2, <1>3, <1>4, <1>5, <1>6, <1>7, <1>8, <1>9, <1>10, <1>11, <1>12, <1>13, <1>14, <1>15,
     <1>16, <1>17, <1>18, <1>19, <1>20, <1>21, <1>22, <1>23, <1>24, <1>25, <1>26, <1>27, <1>28, <1>29,
     <1>30, <1>31, <1>32, <1>33, <1>34, <1>35, <1>36, <1>37, <1>38, <1>39, <1>40, <1>41, <1>42
     DEF Next, DriverStep, InstallStep

\* What must have come just before the calls that the invariants speak of.
Order ==
  /\ phase' > 3 => phase > 3 \/ (phase = 3 /\ pc = "phase_ok")
  /\ phase' = 3 /\ pc' = "phase_ok" => phase = 3 /\ pc \in {"phase_ok", "fstab"}
  /\ pc' = "fstab" => phase = 3 /\ pc \in {"fstab", "finishers"}
  /\ pc' = "finishers" => phase = 3 /\ (pc = "finishers" \/ (pc = "unmount_cache" /\ exc = "none"))
  /\ pc' = "unmount_cache" /\ exc' = "none" => pc \in {"unmount_cache", "unmask_live"} /\ exc = "none"
  /\ pc' = "unmask_live" /\ exc' = "none" => pc \in {"unmask_live", "packages"} /\ exc = "none"
  /\ phase' > 7 => phase > 7 \/ (phase = 7 /\ pc = "phase_ok")
  /\ phase' = 7 /\ pc' = "phase_ok" => phase = 7 /\ pc \in {"phase_ok", "limine_update"}
  /\ phase' = 14 => phase = 14 \/ (phase = 13 /\ pc = "phase_ok")
  /\ phase' = 13 /\ pc' = "phase_ok" => phase = 13 /\ pc \in {"phase_ok", "check_boot"}
  /\ pc' = "check_boot" => pc \in {"check_boot", "assert_hooks"}

\* Every step keeps to the order of the calls.
LEMMA OrderNext ==
  ASSUME ControlOK, Located, Next
  PROVE  Order
<1>1. CASE StartAttempt
  <2>1. pc' = "from_env" /\ phase' = 0
    BY <1>1 DEF StartAttempt
  <2>2. QED
    BY <2>1 DEF Order
<1>2. CASE Rest
  BY <1>2 DEF Rest, vars, Order, ControlOK, Located
<1>3. CASE ~ StartAttempt /\ ~ Rest
  <2>1. Flow
    BY <1>3, FlowNext
  <2>2. CASE CutShortLands
    BY <2>2 DEF CutShortLands, Order, FinallyCalls, Located
  <2>3. CASE ~ CutShortLands
    BY <2>1, <2>3, PhaseNames DEF Flow, Follows, Order, ControlOK, Located
  <2>4. QED
    BY <2>2, <2>3
<1>4. QED
  BY <1>1, <1>2, <1>3

-----------------------------------------------------------------------------
(* What is announced.                                                      *)

\* The end of the run is announced once, after the last phase, and only a run
\* that announced it ends in "ok".
AnnouncedLast ==
  /\ stateFile.finished => phase = 14 /\ pc \in {"finish", "timing"} \cup FinallyCalls
  /\ pc = "timing" => stateFile.finished
  /\ pc = "unwind" => exc # "none"
  /\ pc \in FinallyCalls /\ exc = "none" => stateFile.finished
  /\ rc = "ok" => stateFile.finished /\ proc = "exited"

\* No write but that of Finish changes finished_at.
LEMMA StateUpdatesFinished ==
  ASSUME NEW s \in StateFiles
  PROVE  /\ \A i : [s EXCEPT !.index = i].finished = s.finished
         /\ \A i : [s EXCEPT !.ok = i].finished = s.finished
         /\ [s EXCEPT !.failed = TRUE].finished = s.finished
         /\ [s EXCEPT !.finished = TRUE].finished = TRUE
BY DEF StateFiles

\* A call that is cut short announces nothing.
LEMMA CutShortAnnounced ==
  ASSUME ControlOK, Located, AnnouncedLast, proc = "running", Stopped \/ CutShort,
         stateFile'.finished = stateFile.finished
  PROVE  AnnouncedLast'
BY CutShortEffect DEF CutShortLands, AnnouncedLast, FinallyCalls, RunCalls

\* Every step keeps the announcement last.
LEMMA AnnouncedNext ==
  ASSUME ControlOK, Located, stateFile \in StateFiles, AnnouncedLast, Next
  PROVE  AnnouncedLast'
<1>0. proc = "running" /\ (Stopped \/ CutShort) /\ stateFile'.finished = stateFile.finished => AnnouncedLast'
  BY CutShortAnnounced
<1> USE <1>0 DEF Located, AnnouncedLast, FinallyCalls, At, Step, QuietStep, Return, data, HostBecomes, HostAmong,
                 DiskBecomes, DiskAmong, MemBecomes, WriteState, WriteStatePartly
<1>1. CASE StartAttempt
  <2>1. pc' = "from_env" /\ exc' = "none" /\ rc' = "none" /\ stateFile' = NoState
    BY <1>1 DEF StartAttempt
  <2>2. QED
    BY <2>1 DEF NoState
<1>2. CASE FromEnv
  BY <1>2 DEF FromEnv, env
<1>3. CASE BoostGovernor
  BY <1>3 DEF BoostGovernor
<1>4. CASE InitState
  <2>1. stateFile.finished = FALSE /\ rc # "ok"
    <3>1. ~ stateFile.finished /\ rc # "ok"
      BY <1>4 DEF InitState
    <3>2. stateFile.finished \in BOOLEAN
      BY DEF StateFiles
    <3>3. QED
      BY <3>1, <3>2
  <2>2. stateFile'.finished = FALSE
    BY <1>4, <2>1 DEF InitState, NoState
  <2>3. QED
    <3>1. CASE CutShort
      BY <1>4, <2>1, <2>2, <3>1 DEF InitState
    <3>2. CASE pc' = "phase_start" /\ UNCHANGED rc
      BY <2>1, <2>2, <3>2
    <3>3. QED
      BY <1>4, <3>1, <3>2 DEF InitState
<1>5. CASE PhaseStart
  <2>1. stateFile'.finished = stateFile.finished
    BY <1>5 DEF PhaseStart, StateFiles
  <2>2. QED
    BY <1>5, <2>1, PhaseNames DEF PhaseStart
<1>6. CASE PhaseOk
  <2>1. stateFile'.finished = stateFile.finished
    BY <1>6 DEF PhaseOk, StateFiles
  <2>2. QED
    BY <1>6, <2>1, FourteenPhases DEF PhaseOk, env
<1>7. CASE Unwind
  <2>1. stateFile'.finished = stateFile.finished
    BY <1>7, StateUpdatesFinished DEF Unwind
  <2>2. QED
    BY <1>7, <2>1 DEF Unwind
<1>8. CASE Finish
  <2>1. phase = 14 /\ rc # "ok" /\ stateFile'.finished \in {stateFile.finished, TRUE}
    BY <1>8, StateUpdatesFinished DEF Finish
  <2>2. CASE stateFile'.finished = stateFile.finished /\ CutShort
    BY <1>8, <2>2 DEF Finish
  <2>3. CASE stateFile'.finished = TRUE /\ CutShort
    BY <1>8, <2>1, <2>3, CutShortEffect DEF Finish, CutShortLands, RunCalls
  <2>4. CASE Return("timing")
    BY <1>8, <2>1, <2>4, StateUpdatesFinished DEF Finish
  <2>5. QED
    BY <1>8, <2>1, <2>2, <2>3, <2>4, StateUpdatesFinished DEF Finish
<1>9. CASE WriteTiming
  BY <1>9 DEF WriteTiming
<1>10. CASE RestoreGovernors
  BY <1>10 DEF RestoreGovernors, AfterCleanup
<1>11. CASE CleanupBinds
  BY <1>11 DEF CleanupBinds, AfterCleanup
<1>12. CASE CleanupHooks
  BY <1>12 DEF CleanupHooks, AfterCleanup, HookAmong
<1>13. CASE CleanupProtected
  BY <1>13 DEF CleanupProtected, AfterCleanup
<1>14. CASE Exit
  <2>1. /\ pc' = pc /\ phase' = phase /\ exc' = exc /\ stateFile' = stateFile /\ proc' = "exited"
        /\ rc' = "ok" => exc = "none"
    BY <1>14 DEF Exit, ControlOK
  <2>2. QED
    BY <1>14, <2>1 DEF Exit
<1>15. CASE PrepareLive
  BY <1>15 DEF PrepareLive
<1>16. CASE PrepareInstallTarget
  BY <1>16 DEF PrepareInstallTarget
<1>17. CASE UsePreMounted
  BY <1>17 DEF UsePreMounted
<1>18. CASE Format
  BY <1>18 DEF Format
<1>19. CASE FormatRetry
  BY <1>19, PhaseNames DEF FormatRetry
<1>20. CASE MountLayout
  BY <1>20 DEF MountLayout
<1>21. CASE MountCache
  BY <1>21 DEF MountCache
<1>22. CASE MaskLive
  BY <1>22 DEF MaskLive
<1>23. CASE InstallPackages
  BY <1>23 DEF InstallPackages
<1>24. CASE UnmaskLive
  BY <1>24 DEF UnmaskLive
<1>25. CASE UnmountCache
  BY <1>25 DEF UnmountCache, EndFinally, CutShort
<1>26. CASE Finishers
  BY <1>26 DEF Finishers
<1>27. CASE WriteFstab
  BY <1>27 DEF WriteFstab
<1>28. CASE ConfigureHibernation
  BY <1>28 DEF ConfigureHibernation
<1>29. CASE RunSystemFinalizer
  BY <1>29 DEF RunSystemFinalizer
<1>30. CASE RunChrootFinalizer
  BY <1>30 DEF RunChrootFinalizer
<1>31. CASE PrepareTarget
  BY <1>31 DEF PrepareTarget
<1>32. CASE BindLog
  BY <1>32 DEF BindLog
<1>33. CASE LogWindow
  BY <1>33 DEF LogWindow
<1>34. CASE RunTargetCommand
  BY <1>34 DEF RunTargetCommand
<1>35. CASE UnbindLog
  BY <1>35, PhaseNames DEF UnbindLog, EndFinally, InSystemFinalizer
<1>36. CASE UnmaskTarget
  BY <1>36 DEF UnmaskTarget, EndFinally, HookAmong
<1>37. CASE StageProvisioningState
  BY <1>37 DEF StageProvisioningState
<1>38. CASE FinalizeLimineBoot
  BY <1>38 DEF FinalizeLimineBoot
<1>39. CASE LimineUpdate
  BY <1>39 DEF LimineUpdate
<1>40. CASE ConfigureUserland
  BY <1>40 DEF ConfigureUserland
<1>41. CASE ValidateBoot
  BY <1>41 DEF ValidateBoot, HookAmong
<1>42. CASE AssertHooks
  BY <1>42 DEF AssertHooks, CutShort
<1>43. CASE CheckBoot
  BY <1>43 DEF CheckBoot
<1>44. CASE Rest
  BY <1>44 DEF Rest, vars
<1>45. QED
  BY <1>1, <1>2, <1>3, <1>4, <1>5, <1>6, <1>7, <1>8, <1>9, <1>10, <1>11, <1>12, <1>13, <1>14, <1>15,
     <1>16, <1>17, <1>18, <1>19, <1>20, <1>21, <1>22, <1>23, <1>24, <1>25, <1>26, <1>27, <1>28,
     <1>29, <1>30, <1>31, <1>32, <1>33, <1>34, <1>35, <1>36, <1>37, <1>38, <1>39, <1>40, <1>41,
     <1>42, <1>43, <1>44
     DEF Next, DriverStep, InstallStep

-----------------------------------------------------------------------------
(* What is mounted.                                                        *)

\* From the mounting of the layout to the end of the run.
InTarget(call, number) ==
  \/ call \in {"mount_cache", "mask_live", "packages", "unmask_live", "unmount_cache", "finishers", "fstab"}
  \/ number = 3 /\ call = "phase_ok"
  \/ number > 3 /\ call \notin Unwinding

\* From the check of the pre-mounted target to its use.
Verified(call, number) ==
  \/ number = 2 /\ call = "phase_ok"
  \/ number = 3 /\ call \in {"phase_start", "arch_install_system"}

\* Nothing is bound under a target that is not mounted, and the calls that
\* bind something find it mounted.
TargetMounted ==
  /\ host.target = "absent" => host.binds = {}
  /\ InTarget(pc, phase) => host.target # "absent"
  /\ ctx.protected /\ Verified(pc, phase) => host.target # "absent"

\* genfstab runs with nothing of the live system bound under the target.
NothingBound ==
  proc = "running" =>
    /\ pc = "mount_layout" => host.binds = {}
    /\ ctx.protected \/ (pc \in {"mount_cache", "finishers", "fstab"} => host.binds = {})
    /\ \/ ctx.protected
       \/ pc \in {"mask_live", "packages", "unmask_live", "unmount_cache"} => host.binds \subseteq {"pkgcache"}

\* A target that is unmounted has no bind mounts left under it.
LEMMA TeardownUnbinds ==
  ASSUME NEW h \in Hosts, h.target = "absent" => h.binds = {},
         NEW g \in Teardown(h) \cup TornPartly(h) \cup {Torn(h)}
  PROVE  g.target = "absent" => g.binds = {}
<1>1. Torn(h).binds = {}
  BY DEF Torn, Hosts
<1>2. CASE g \in TornPartly(h) /\ h.target = "absent"
  <2>1. g \in {h, [h EXCEPT !.mapper = FALSE]}
    BY <1>2 DEF TornPartly
  <2>2. QED
    BY <1>2, <2>1 DEF Hosts
<1>3. CASE g \in TornPartly(h) /\ h.target # "absent"
  <2>1. PICK t \in {h.target, "noesp"}, b \in SUBSET h.binds : g = [h EXCEPT !.target = t, !.binds = b]
    BY <1>3 DEF TornPartly
  <2>2. g.target = t
    BY <2>1 DEF Hosts
  <2>3. QED
    BY <1>3, <2>1, <2>2
<1>4. QED
  BY <1>1, <1>2, <1>3 DEF Teardown

\* A step that changes nothing in the live system.
LEMMA CutShortMounts ==
  ASSUME ControlOK, Located, TargetMounted, NothingBound, proc = "running", Stopped \/ CutShort,
         host'.target = host.target, host'.binds = host.binds
  PROVE  TargetMounted' /\ NothingBound'
BY CutShortEffect DEF CutShortLands, TargetMounted, NothingBound, InTarget, Verified, Unwinding, FinallyCalls, Located

\* Every step keeps what must be mounted, and unmounted, when.
LEMMA MountsNext ==
  ASSUME ControlOK, Located, host \in Hosts, TargetMounted, NothingBound, Next
  PROVE  TargetMounted' /\ NothingBound'
<1>0. proc = "running" /\ (Stopped \/ CutShort) /\ host'.target = host.target /\ host'.binds = host.binds
        => TargetMounted' /\ NothingBound'
  BY CutShortMounts
<1> USE <1>0 DEF Located, TargetMounted, NothingBound, InTarget, Verified, Unwinding, FinallyCalls, env,
                 At, Step, QuietStep, Return, data, HostBecomes, HostAmong,
                 DiskBecomes, DiskAmong, MemBecomes, WriteState, WriteStatePartly
<1>1. CASE StartAttempt
  <2>1. pc' = "from_env" /\ phase' = 0 /\ (host' = host \/ host'.binds = {})
    BY <1>1 DEF StartAttempt, Hosts
  <2>2. QED
    BY <2>1
<1>2. CASE FromEnv
  BY <1>2 DEF FromEnv, env
<1>3. CASE BoostGovernor
  <2>1. host'.target = host.target /\ host'.binds = host.binds
    BY <1>3 DEF BoostGovernor, Hosts
  <2>2. QED
    BY <1>3, <2>1 DEF BoostGovernor
<1>4. CASE InitState
  BY <1>4 DEF InitState, env
<1>5. CASE PhaseStart
  BY <1>5, PhaseNames DEF PhaseStart
<1>6. CASE PhaseOk
  BY <1>6, FourteenPhases DEF PhaseOk, env
<1>7. CASE Unwind
  BY <1>7 DEF Unwind
<1>8. CASE Finish
  BY <1>8 DEF Finish
<1>9. CASE WriteTiming
  BY <1>9 DEF WriteTiming
<1>10. CASE RestoreGovernors
  <2>1. host'.target = host.target /\ host'.binds = host.binds
    BY <1>10 DEF RestoreGovernors, Hosts
  <2>2. QED
    BY <1>10, <2>1 DEF RestoreGovernors, AfterCleanup
<1>11. CASE CleanupBinds
  <2>1. host'.target = host.target /\ host'.binds \subseteq host.binds /\ ctx' = ctx
    BY <1>11 DEF CleanupBinds, Hosts, Stopped, Interrupt, Terminate
  <2>2. pc' \in {"cleanup_binds", "cleanup_hooks"} /\ phase' = phase
    BY <1>11, CutShortEffect DEF CleanupBinds, AfterCleanup, CutShortLands
  <2>3. QED
    BY <2>1, <2>2
<1>12. CASE CleanupHooks
  BY <1>12 DEF CleanupHooks, AfterCleanup, HookAmong
<1>13. CASE CleanupProtected
  <2>1. host' = host \/ host' \in Teardown(host) \cup TornPartly(host) \cup {Torn(host)} \/ host'.binds = {}
    BY <1>13 DEF CleanupProtected, Hosts
  <2>2. host'.target = "absent" => host'.binds = {}
    BY <2>1, TeardownUnbinds
  <2>3. pc' \in {"cleanup_protected", "exit"} /\ phase' = phase
    BY <1>13, CutShortEffect DEF CleanupProtected, AfterCleanup, CutShortLands
  <2>4. QED
    BY <2>2, <2>3
<1>14. CASE Exit
  BY <1>14 DEF Exit, env
<1>15. CASE PrepareLive
  <2>1. host' = host \/ host' \in Teardown(host) \cup TornPartly(host) \cup {Torn(host)}
    BY <1>15 DEF PrepareLive
  <2>2. host'.target = "absent" => host'.binds = {}
    BY <2>1, TeardownUnbinds
  <2>3. pc' \in {"prepare_live", "phase_ok", "unwind", "restore_governors"} /\ phase' = 1
    BY <1>15, CutShortEffect DEF PrepareLive, CutShortLands
  <2>4. QED
    BY <2>2, <2>3
<1>16. CASE PrepareInstallTarget
  <2>1. phase' = 2 /\ ctx' = ctx
    BY <1>16, CutShortEffect DEF PrepareInstallTarget, CutShortLands
  <2>2. CASE host' = host
    <3>1. pc' = "phase_ok" /\ ctx.protected => host.target # "absent"
      BY <1>16, <2>2, CutShortEffect DEF PrepareInstallTarget, CutShortLands
    <3>2. pc' \in {"prepare_install_target", "phase_ok", "unwind", "restore_governors"}
      BY <1>16, CutShortEffect DEF PrepareInstallTarget, CutShortLands
    <3>3. QED
      BY <2>1, <2>2, <3>1, <3>2
  <2>3. CASE host' = [host EXCEPT !.target = "mounted"]
    <3>1. host'.target = "mounted"
      BY <2>3 DEF Hosts
    <3>2. pc' \in {"prepare_install_target", "phase_ok", "unwind", "restore_governors"}
      BY <1>16, CutShortEffect DEF PrepareInstallTarget, CutShortLands
    <3>3. QED
      BY <2>1, <3>1, <3>2
  <2>4. QED
    BY <1>16, <2>2, <2>3 DEF PrepareInstallTarget
<1>17. CASE UsePreMounted
  BY <1>17 DEF UsePreMounted
<1>18. CASE Format
  BY <1>18 DEF Format
<1>19. CASE FormatRetry
  BY <1>19, PhaseNames DEF FormatRetry
<1>20. CASE MountLayout
  <2>1. host'.binds = host.binds /\ phase' = 3 /\ ctx' = ctx
    BY <1>20, CutShortEffect DEF MountLayout, CutShortLands, Hosts
  <2>2. \/ pc' = "mount_cache" /\ host'.target = "mounted" /\ proc' = proc
        \/ pc' \in {"unwind", "restore_governors"}
        \/ pc' = "mount_layout" /\ proc' # "running"
    BY <1>20, CutShortEffect DEF MountLayout, CutShortLands, Hosts
  <2>3. host'.target = "absent" => host'.binds = {}
    BY <1>20, <2>1 DEF MountLayout
  <2>4. QED
    BY <1>20, <2>1, <2>2, <2>3 DEF MountLayout
<1>21. CASE MountCache
  <2>1. /\ host'.target = host.target /\ host.target # "absent"
        /\ host'.binds \in {host.binds, host.binds \cup {"pkgcache"}}
        /\ phase' = 3 /\ ctx' = ctx
    BY <1>21, CutShortEffect DEF MountCache, CutShortLands, Hosts
  <2>2. \/ pc' = "mask_live" /\ proc' = proc
        \/ pc' \in {"unwind", "restore_governors"}
        \/ pc' = "mount_cache" /\ proc' # "running"
    BY <1>21, CutShortEffect DEF MountCache, CutShortLands
  <2>3. QED
    BY <1>21, <2>1, <2>2 DEF MountCache
<1>22. CASE MaskLive
  <2>1. host'.target = host.target /\ host'.binds = host.binds
    BY <1>22 DEF MaskLive, Hosts
  <2>2. QED
    BY <1>22, <2>1 DEF MaskLive
<1>23. CASE InstallPackages
  BY <1>23 DEF InstallPackages
<1>24. CASE UnmaskLive
  <2>1. host'.target = host.target /\ host'.binds = host.binds
    BY <1>24 DEF UnmaskLive, Hosts
  <2>2. QED
    BY <1>24, <2>1 DEF UnmaskLive
<1>25. CASE UnmountCache
  <2>1. /\ host'.target = host.target /\ host.target # "absent"
        /\ host' = host \/ host'.binds = host.binds \ {"pkgcache"}
        /\ phase' = 3 /\ ctx' = ctx
    BY <1>25, CutShortEffect DEF UnmountCache, CutShort, CutShortLands, Hosts
  <2>2. \/ pc' = "finishers" /\ proc' = proc /\ host'.binds = host.binds \ {"pkgcache"}
        \/ pc' \in {"unwind", "restore_governors"}
        \/ pc' = "unmount_cache" /\ proc' # "running"
    BY <1>25, CutShortEffect DEF UnmountCache, CutShort, CutShortLands, EndFinally, Hosts
  <2>3. QED
    BY <1>25, <2>1, <2>2 DEF UnmountCache
<1>26. CASE Finishers
  BY <1>26 DEF Finishers
<1>27. CASE WriteFstab
  BY <1>27 DEF WriteFstab
<1>28. CASE ConfigureHibernation
  BY <1>28 DEF ConfigureHibernation
<1>29. CASE RunSystemFinalizer
  BY <1>29 DEF RunSystemFinalizer
<1>30. CASE RunChrootFinalizer
  BY <1>30 DEF RunChrootFinalizer
<1>31. CASE PrepareTarget
  <2>1. host'.target = host.target /\ host.target # "absent" /\ phase' = phase /\ phase > 3
    BY <1>31, CutShortEffect DEF PrepareTarget, CutShortLands, Hosts, ControlOK
  <2>2. pc' \notin {"mount_layout", "mount_cache", "mask_live", "packages", "unmask_live", "unmount_cache",
                    "finishers", "fstab"}
    BY <1>31, CutShortEffect DEF PrepareTarget, CutShortLands
  <2>3. QED
    BY <2>1, <2>2
<1>32. CASE BindLog
  <2>1. host'.target = host.target /\ host.target # "absent" /\ phase' = phase /\ phase > 3
    BY <1>32, CutShortEffect DEF BindLog, CutShortLands, Hosts, ControlOK
  <2>2. pc' \notin {"mount_layout", "mount_cache", "mask_live", "packages", "unmask_live", "unmount_cache",
                    "finishers", "fstab"}
    BY <1>32, CutShortEffect DEF BindLog, CutShortLands
  <2>3. QED
    BY <2>1, <2>2
<1>33. CASE LogWindow
  BY <1>33 DEF LogWindow
<1>34. CASE RunTargetCommand
  BY <1>34 DEF RunTargetCommand
<1>35. CASE UnbindLog
  <2>1. host'.target = host.target /\ host.target # "absent" /\ phase' = phase /\ phase > 3
    BY <1>35, CutShortEffect DEF UnbindLog, CutShortLands, Hosts, ControlOK
  <2>2. pc' \notin {"mount_layout", "mount_cache", "mask_live", "packages", "unmask_live", "unmount_cache",
                    "finishers", "fstab"}
    BY <1>35, CutShortEffect DEF UnbindLog, CutShortLands, EndFinally
  <2>3. QED
    BY <2>1, <2>2
<1>36. CASE UnmaskTarget
  BY <1>36 DEF UnmaskTarget, EndFinally, HookAmong
<1>37. CASE StageProvisioningState
  BY <1>37 DEF StageProvisioningState
<1>38. CASE FinalizeLimineBoot
  BY <1>38 DEF FinalizeLimineBoot
<1>39. CASE LimineUpdate
  BY <1>39 DEF LimineUpdate
<1>40. CASE ConfigureUserland
  BY <1>40 DEF ConfigureUserland
<1>41. CASE ValidateBoot
  BY <1>41 DEF ValidateBoot, HookAmong
<1>42. CASE AssertHooks
  BY <1>42 DEF AssertHooks, CutShort
<1>43. CASE CheckBoot
  BY <1>43 DEF CheckBoot
<1>44. CASE Rest
  BY <1>44 DEF Rest, vars
<1>45. QED
  BY <1>1, <1>2, <1>3, <1>4, <1>5, <1>6, <1>7, <1>8, <1>9, <1>10, <1>11, <1>12, <1>13, <1>14, <1>15,
     <1>16, <1>17, <1>18, <1>19, <1>20, <1>21, <1>22, <1>23, <1>24, <1>25, <1>26, <1>27, <1>28,
     <1>29, <1>30, <1>31, <1>32, <1>33, <1>34, <1>35, <1>36, <1>37, <1>38, <1>39, <1>40, <1>41,
     <1>42, <1>43, <1>44
     DEF Next, DriverStep, InstallStep

-----------------------------------------------------------------------------
(* What the phases that are done have put on the disk.                     *)

\* What each step may do to the disk, in its phase.
DiskFrame ==
  /\ \/ disk'.fstab = disk.fstab
     \/ phase' = 0 /\ pc' = "from_env" /\ disk'.fstab = "none"
     \/ phase = 3 /\ pc = "arch_install_system" /\ disk'.fstab = "none"
     \/ phase = 3 /\ pc = "fstab"
  /\ \/ disk.packages /\ "defaults" \in disk.boot => disk'.packages /\ "defaults" \in disk'.boot
     \/ phase' = 0 /\ pc' = "from_env"
     \/ phase = 3 /\ pc = "arch_install_system"
  /\ \/ phase' = 0 /\ pc' = "from_env"
     \/ phase < 7
     \/ phase = 7 /\ pc # "phase_ok"
     \/ disk'.boot = disk.boot /\ disk'.uki \in {disk.uki, disk.boot}
  /\ \/ phase' = 0 /\ pc' = "from_env"
     \/ phase < 13
     \/ phase = 13 /\ pc = "validate_boot"
     \/ disk.hook = InstalledHook => disk'.hook = InstalledHook

\* Wiping the disk stays within the frame: it comes before phase 3 is over.
LEMMA BlankFrame ==
  ASSUME disk' \in {disk, BlankDisk}, \/ phase' = 0 /\ pc' = "from_env"
                                      \/ phase = 3 /\ pc = "arch_install_system"
  PROVE  DiskFrame
BY DEF DiskFrame, BlankDisk

\* Changing the hook stays within the frame.
LEMMA HookFrame ==
  ASSUME disk \in Disks, NEW h, disk' = [disk EXCEPT !.hook = h],
         phase < 13 \/ (phase = 13 /\ pc = "validate_boot") \/ (disk.hook = InstalledHook => h = InstalledHook)
  PROVE  DiskFrame
<1>1. disk'.fstab = disk.fstab /\ disk'.packages = disk.packages /\ disk'.boot = disk.boot
        /\ disk'.uki = disk.uki /\ disk'.hook = h
  BY DEF Disks
<1>2. QED
  BY <1>1 DEF DiskFrame

\* Every step stays within the frame.
LEMMA DiskFrameNext ==
  ASSUME TypeInv, Next
  PROVE  DiskFrame
<1>0. disk \in Disks /\ ControlOK /\ Located
  BY DEF TypeInv, DataOK
<1> USE <1>0
<1>1. CASE DiskUntouched
  BY <1>1, DiskUnchanged DEF DiskFrame
<1>2. CASE StartAttempt
  BY <1>2, BlankFrame DEF StartAttempt
<1>3. CASE Format \/ FormatRetry
  <2>1. disk' \in {disk, BlankDisk} /\ phase = 3 /\ pc = "arch_install_system"
    BY <1>3 DEF Format, FormatRetry, DiskBecomes, DiskAmong, At, Located
  <2>2. QED
    BY <2>1, BlankFrame
<1>4. CASE InstallPackages
  <2> DEFINE full == [disk EXCEPT !.packages = TRUE, !.hook = InstalledHook, !.boot = @ \cup {"defaults"}]
             some == {disk, [disk EXCEPT !.hook = InstalledHook], full}
  <2>1. PICK d \in some : disk' \in {d, [d EXCEPT !.uki = d.boot \cup {"defaults"}]}
    BY <1>4 DEF InstallPackages, Step, DiskAmong
  <2>2. d \in Disks
    BY InstalledType DEF Disks, BootInputs
  <2>3. disk'.fstab = d.fstab /\ disk'.packages = d.packages /\ disk'.boot = d.boot
    BY <2>1, <2>2 DEF Disks
  <2>4. /\ d.fstab = disk.fstab
        /\ disk.packages /\ "defaults" \in disk.boot => d.packages /\ "defaults" \in d.boot
    BY DEF Disks
  <2>5. phase = 3
    BY <1>4 DEF InstallPackages, Step, At, Located
  <2>6. QED
    BY <2>3, <2>4, <2>5 DEF DiskFrame
<1>5. CASE WriteFstab
  <2>1. phase = 3 /\ pc = "fstab" /\ disk'.packages = disk.packages /\ disk'.boot = disk.boot
    BY <1>5 DEF WriteFstab, Step, At, Located, DiskBecomes, DiskAmong, Disks
  <2>2. QED
    BY <2>1 DEF DiskFrame
<1>6. CASE ConfigureHibernation \/ StageProvisioningState \/ FinalizeLimineBoot
  <2>1. \E input \in BootInputs : disk' \in {disk, Staged(input)}
    BY <1>6 DEF ConfigureHibernation, StageProvisioningState, FinalizeLimineBoot, Step, DiskAmong, BootInputs
  <2>2. disk'.fstab = disk.fstab /\ disk'.packages = disk.packages /\ disk.boot \subseteq disk'.boot
    BY <2>1 DEF Staged, Disks
  <2>3. phase < 7 \/ (phase = 7 /\ pc # "phase_ok")
    BY <1>6 DEF ConfigureHibernation, StageProvisioningState, FinalizeLimineBoot, Step, At, Located
  <2>4. QED
    BY <2>2, <2>3 DEF DiskFrame, ControlOK
<1>7. CASE RunSystemFinalizer
  <2>1. PICK h \in {Masked(disk.hook)} \cup MaskedPartly(disk.hook) : disk' = [disk EXCEPT !.hook = h]
    BY <1>7 DEF RunSystemFinalizer, Step, DiskBecomes, DiskAmong, Disks
  <2>2. phase = 5
    BY <1>7 DEF RunSystemFinalizer, Step, At, Located
  <2>3. QED
    BY <2>1, <2>2, HookFrame
<1>8. CASE RunTargetCommand
  <2>1. CASE InSystemFinalizer
    <3>1. PICK d \in {disk, Staged("hardware")} : disk' \in {d, [d EXCEPT !.uki = d.boot]}
      BY <1>8 DEF RunTargetCommand, Step, DiskAmong
    <3>2. d \in Disks /\ d.packages = disk.packages /\ d.fstab = disk.fstab /\ disk.boot \subseteq d.boot
      BY StagedType DEF Staged, Disks, BootInputs
    <3>3. disk'.packages = disk.packages /\ disk'.fstab = disk.fstab /\ disk.boot \subseteq disk'.boot
      BY <3>1, <3>2 DEF Disks
    <3>4. phase = 5
      BY <1>8, <2>1, PhaseNames DEF RunTargetCommand, Step, At, Located, InSystemFinalizer
    <3>5. QED
      BY <3>3, <3>4 DEF DiskFrame
  <2>2. CASE ~ InSystemFinalizer
    <3>1. disk' \in {disk, [disk EXCEPT !.uki = disk.boot]}
      BY <1>8, <2>2 DEF RunTargetCommand, Step, DiskAmong
    <3>2. phase < 13
      BY <1>8 DEF RunTargetCommand, Step, At, Located
    <3>3. QED
      BY <3>1, <3>2 DEF DiskFrame, Disks
  <2>3. QED
    BY <2>1, <2>2
<1>9. CASE LimineUpdate
  <2>1. disk' \in {disk, [disk EXCEPT !.uki = disk.boot]} /\ phase < 13
    BY <1>9 DEF LimineUpdate, Step, DiskBecomes, DiskAmong, At, Located
  <2>2. QED
    BY <2>1 DEF DiskFrame, Disks
<1>10. CASE UnmaskTarget \/ ValidateBoot
  <2>1. \E h : disk' = [disk EXCEPT !.hook = h]
    BY <1>10 DEF UnmaskTarget, ValidateBoot, QuietStep, HookAmong, DiskAmong
  <2>2. phase = 5 \/ (phase = 13 /\ pc = "validate_boot")
    BY <1>10 DEF UnmaskTarget, ValidateBoot, QuietStep, At, Located
  <2>3. QED
    BY <2>1, <2>2, HookFrame
<1>11. CASE CleanupHooks
  <2>1. \/ disk' = disk
        \/ \E h \in {Unmasked(disk.hook)} \cup UnmaskedPartly(disk.hook) : disk' = [disk EXCEPT !.hook = h]
    BY <1>11 DEF CleanupHooks, QuietStep, data, HookAmong, DiskAmong, HooksUnmasked
  <2>2. CASE disk' = disk
    BY <2>2 DEF DiskFrame
  <2>3. CASE disk' # disk
    <3>1. PICK h \in {Unmasked(disk.hook)} \cup UnmaskedPartly(disk.hook) : disk' = [disk EXCEPT !.hook = h]
      BY <2>1, <2>3
    <3>2. disk.hook = InstalledHook => h = InstalledHook
      BY UnmaskRestoredHook
    <3>3. QED
      BY <3>1, <3>2, HookFrame
  <2>4. QED
    BY <2>2, <2>3
<1>12. QED
  BY <1>1, <1>2, <1>3, <1>4, <1>5, <1>6, <1>7, <1>8, <1>9, <1>10, <1>11
     DEF Next, DriverStep, InstallStep, DiskUntouched

\* Which action makes the calls that the invariants turn on.
Dispatched ==
  /\ proc = "running"
  /\ pc = "prepare_live" => PrepareLive
  /\ pc = "arch_install_system" => UsePreMounted \/ Format \/ FormatRetry
  /\ pc = "mount_cache" => MountCache
  /\ pc = "mask_live" => MaskLive
  /\ pc = "packages" => InstallPackages
  /\ pc = "unmask_live" => UnmaskLive
  /\ pc = "unmount_cache" => UnmountCache
  /\ pc = "fstab" => WriteFstab
  /\ pc = "run_system_finalizer" => RunSystemFinalizer
  /\ pc = "prepare_target" => PrepareTarget
  /\ pc = "bind_log" => BindLog
  /\ pc = "chroot" => RunTargetCommand
  /\ pc = "unbind_log" => UnbindLog
  /\ pc = "unmask_target" => UnmaskTarget
  /\ pc = "limine_update" => LimineUpdate
  /\ pc = "assert_hooks" => AssertHooks
  /\ pc = "check_boot" => CheckBoot
  /\ pc = "unwind" => Unwind
  /\ pc = "restore_governors" => RestoreGovernors
  /\ pc = "cleanup_binds" => CleanupBinds
  /\ pc = "cleanup_hooks" => CleanupHooks
  /\ pc = "cleanup_protected" => CleanupProtected
  /\ pc = "exit" => Exit

\* At each of those calls, only its own action can be taken.
LEMMA Dispatch ==
  ASSUME Next
  PROVE  StartAttempt \/ Rest \/ Dispatched
<1> USE DEF Dispatched, At, Step, QuietStep
<1>1. CASE StartAttempt
  BY <1>1
<1>2. CASE FromEnv
  BY <1>2 DEF FromEnv
<1>3. CASE BoostGovernor
  BY <1>3 DEF BoostGovernor
<1>4. CASE InitState
  BY <1>4 DEF InitState
<1>5. CASE PhaseStart
  BY <1>5 DEF PhaseStart
<1>6. CASE PhaseOk
  BY <1>6 DEF PhaseOk
<1>7. CASE Unwind
  BY <1>7 DEF Unwind
<1>8. CASE Finish
  BY <1>8 DEF Finish
<1>9. CASE WriteTiming
  BY <1>9 DEF WriteTiming
<1>10. CASE RestoreGovernors
  BY <1>10 DEF RestoreGovernors
<1>11. CASE CleanupBinds
  BY <1>11 DEF CleanupBinds
<1>12. CASE CleanupHooks
  BY <1>12 DEF CleanupHooks
<1>13. CASE CleanupProtected
  BY <1>13 DEF CleanupProtected
<1>14. CASE Exit
  BY <1>14 DEF Exit
<1>15. CASE PrepareLive
  BY <1>15 DEF PrepareLive
<1>16. CASE PrepareInstallTarget
  BY <1>16 DEF PrepareInstallTarget
<1>17. CASE UsePreMounted
  BY <1>17 DEF UsePreMounted
<1>18. CASE Format
  BY <1>18 DEF Format
<1>19. CASE FormatRetry
  BY <1>19 DEF FormatRetry
<1>20. CASE MountLayout
  BY <1>20 DEF MountLayout
<1>21. CASE MountCache
  BY <1>21 DEF MountCache
<1>22. CASE MaskLive
  BY <1>22 DEF MaskLive
<1>23. CASE InstallPackages
  BY <1>23 DEF InstallPackages
<1>24. CASE UnmaskLive
  BY <1>24 DEF UnmaskLive
<1>25. CASE UnmountCache
  BY <1>25 DEF UnmountCache
<1>26. CASE Finishers
  BY <1>26 DEF Finishers
<1>27. CASE WriteFstab
  BY <1>27 DEF WriteFstab
<1>28. CASE ConfigureHibernation
  BY <1>28 DEF ConfigureHibernation
<1>29. CASE RunSystemFinalizer
  BY <1>29 DEF RunSystemFinalizer
<1>30. CASE RunChrootFinalizer
  BY <1>30 DEF RunChrootFinalizer
<1>31. CASE PrepareTarget
  BY <1>31 DEF PrepareTarget
<1>32. CASE BindLog
  BY <1>32 DEF BindLog
<1>33. CASE LogWindow
  BY <1>33 DEF LogWindow
<1>34. CASE RunTargetCommand
  BY <1>34 DEF RunTargetCommand
<1>35. CASE UnbindLog
  BY <1>35 DEF UnbindLog
<1>36. CASE UnmaskTarget
  BY <1>36 DEF UnmaskTarget
<1>37. CASE StageProvisioningState
  BY <1>37 DEF StageProvisioningState
<1>38. CASE FinalizeLimineBoot
  BY <1>38 DEF FinalizeLimineBoot
<1>39. CASE LimineUpdate
  BY <1>39 DEF LimineUpdate
<1>40. CASE ConfigureUserland
  BY <1>40 DEF ConfigureUserland
<1>41. CASE ValidateBoot
  BY <1>41 DEF ValidateBoot
<1>42. CASE AssertHooks
  BY <1>42 DEF AssertHooks
<1>43. CASE CheckBoot
  BY <1>43 DEF CheckBoot
<1>44. CASE Rest
  BY <1>44
<1>45. QED
  BY <1>1, <1>2, <1>3, <1>4, <1>5, <1>6, <1>7, <1>8, <1>9, <1>10, <1>11, <1>12, <1>13, <1>14, <1>15,
     <1>16, <1>17, <1>18, <1>19, <1>20, <1>21, <1>22, <1>23, <1>24, <1>25, <1>26, <1>27, <1>28,
     <1>29, <1>30, <1>31, <1>32, <1>33, <1>34, <1>35, <1>36, <1>37, <1>38, <1>39, <1>40, <1>41,
     <1>42, <1>43, <1>44
     DEF Next, DriverStep, InstallStep

\* A step outside an attempt begins one or changes nothing.
LEMMA IdleSteps ==
  ASSUME StartAttempt \/ Rest
  PROVE  \/ phase' = 0 /\ pc' = "from_env" /\ disk' \in {disk, BlankDisk}
         \/ UNCHANGED vars
BY DEF StartAttempt, Rest

\* The four parts of the disk, each from the call that settles it on.
FstabSettled ==
  /\ disk.fstab # "polluted"
  /\ phase > 3 \/ (phase = 3 /\ pc = "phase_ok") => disk.fstab = "clean"

PackagesSettled ==
  phase > 3 \/ pc \in {"finishers", "fstab"} \/ (phase = 3 /\ pc = "phase_ok")
    \/ (pc \in {"unmask_live", "unmount_cache"} /\ exc = "none")
  => disk.packages /\ "defaults" \in disk.boot

UkiSettled == phase > 7 \/ (phase = 7 /\ pc = "phase_ok") => disk.uki = disk.boot

HookSettled ==
  phase = 14 \/ pc = "check_boot" \/ (phase = 13 /\ pc = "phase_ok") => disk.hook = InstalledHook

\* Every step keeps the fstab clean once it is written.
LEMMA FstabNext ==
  ASSUME TypeInv, NothingBound, FstabSettled, Next
  PROVE  FstabSettled'
<1>1. ControlOK /\ Located /\ disk \in Disks /\ Order /\ DiskFrame
  BY OrderNext, DiskFrameNext DEF TypeInv, DataOK
<1>2. CASE WriteFstab
  <2>1. proc = "running" /\ phase = 3 /\ pc = "fstab"
    BY <1>1, <1>2 DEF WriteFstab, Step, At, Located
  <2>2. ctx.protected \/ host.binds = {}
    BY <2>1 DEF NothingBound
  <2>3. disk' = [disk EXCEPT !.fstab = "clean"] \/ (disk' = disk /\ CutShort)
    BY <1>2, <2>2 DEF WriteFstab, Step, DiskBecomes, DiskAmong
  <2>4. CASE disk' = disk /\ CutShort
    BY <1>1, <2>1, <2>4, CutShortEffect DEF CutShortLands, FstabSettled
  <2>5. QED
    BY <1>1, <2>3, <2>4 DEF FstabSettled, Disks
<1>3. CASE StartAttempt \/ Rest
  BY <1>3, IdleSteps DEF FstabSettled, BlankDisk, vars
<1>4. CASE pc # "fstab"
  BY <1>1, <1>4 DEF FstabSettled, Order, DiskFrame, ControlOK, Located
<1>5. QED
  BY <1>2, <1>3, <1>4, Dispatch DEF Dispatched

\* Every step keeps the packages once they are installed.
LEMMA PackagesNext ==
  ASSUME TypeInv, PackagesSettled, Next
  PROVE  PackagesSettled'
<1>1. ControlOK /\ Located /\ disk \in Disks /\ Order /\ DiskFrame
  BY OrderNext, DiskFrameNext DEF TypeInv, DataOK
<1>2. CASE InstallPackages
  <2> DEFINE full == [disk EXCEPT !.packages = TRUE, !.hook = InstalledHook, !.boot = @ \cup {"defaults"}]
  <2>1. phase = 3 /\ pc = "packages"
    BY <1>1, <1>2 DEF InstallPackages, Step, At, Located
  <2>2. CASE CutShort
    BY <1>1, <2>1, <2>2, CutShortEffect DEF CutShortLands, PackagesSettled
  <2>3. CASE ~ CutShort
    <3>1. disk' \in {full, [full EXCEPT !.uki = full.boot \cup {"defaults"}]}
      BY <1>2, <2>3 DEF InstallPackages, Step, DiskAmong
    <3>2. full \in Disks /\ full.packages /\ "defaults" \in full.boot
      BY <1>1, InstalledType DEF Disks, BootInputs
    <3>3. disk'.packages /\ "defaults" \in disk'.boot
      BY <3>1, <3>2 DEF Disks
    <3>4. QED
      BY <3>3 DEF PackagesSettled
  <2>4. QED
    BY <2>2, <2>3
<1>3. CASE StartAttempt \/ Rest
  BY <1>3, IdleSteps DEF PackagesSettled, vars
<1>4. CASE pc # "packages"
  <2>1. PackagesSettled' \/ (disk.packages /\ "defaults" \in disk.boot)
    BY <1>1, <1>4 DEF PackagesSettled, Order, ControlOK, Located
  <2>2. \/ disk'.packages /\ "defaults" \in disk'.boot
        \/ phase' = 0 /\ pc' = "from_env"
        \/ phase = 3 /\ pc = "arch_install_system"
        \/ PackagesSettled'
    BY <1>1, <2>1 DEF DiskFrame
  <2>3. QED
    BY <1>1, <2>2 DEF PackagesSettled, Order, ControlOK, Located
<1>5. QED
  BY <1>2, <1>3, <1>4, Dispatch DEF Dispatched

\* Every step keeps the UKI up to date once it is built.
LEMMA UkiNext ==
  ASSUME TypeInv, UkiSettled, Next
  PROVE  UkiSettled'
<1>1. ControlOK /\ Located /\ disk \in Disks /\ Order /\ DiskFrame
  BY OrderNext, DiskFrameNext DEF TypeInv, DataOK
<1>2. CASE LimineUpdate
  <2>1. phase = 7 /\ pc = "limine_update"
    BY <1>1, <1>2 DEF LimineUpdate, Step, At, Located
  <2>2. CASE CutShort
    BY <1>1, <2>1, <2>2, CutShortEffect DEF CutShortLands, UkiSettled
  <2>3. CASE ~ CutShort
    BY <1>1, <1>2, <2>3 DEF LimineUpdate, Step, DiskBecomes, UkiSettled, Disks
  <2>4. QED
    BY <2>2, <2>3
<1>3. CASE StartAttempt \/ Rest
  BY <1>3, IdleSteps DEF UkiSettled, vars
<1>4. CASE pc # "limine_update"
  BY <1>1, <1>4 DEF UkiSettled, Order, DiskFrame, ControlOK, Located
<1>5. QED
  BY <1>2, <1>3, <1>4, Dispatch DEF Dispatched

\* Every step keeps the hook in place once it is checked.
LEMMA HookNext ==
  ASSUME TypeInv, HookSettled, Next
  PROVE  HookSettled'
<1>1. ControlOK /\ Located /\ disk \in Disks /\ Order /\ DiskFrame
  BY OrderNext, DiskFrameNext DEF TypeInv, DataOK
<1>2. CASE AssertHooks
  <2>1. phase = 13 /\ pc = "assert_hooks" /\ disk' = disk
    BY <1>1, <1>2 DEF AssertHooks, At, Located, data
  <2>2. CASE CutShort
    BY <1>1, <2>1, <2>2, CutShortEffect DEF CutShortLands, HookSettled
  <2>3. CASE ~ CutShort
    BY <1>2, <2>1, <2>3 DEF AssertHooks, CutShort, HookSettled, HookRestored
  <2>4. QED
    BY <2>2, <2>3
<1>3. CASE StartAttempt \/ Rest
  BY <1>3, IdleSteps DEF HookSettled, vars
<1>4. CASE pc # "assert_hooks"
  BY <1>1, <1>4 DEF HookSettled, Order, DiskFrame, ControlOK, Located
<1>5. QED
  BY <1>2, <1>3, <1>4, Dispatch DEF Dispatched

(***************************************************************************)
(* The inductive invariant behind the theorems below: what the driver may  *)
(* announce, what is mounted when, and what each finished phase has left.  *)
(***************************************************************************)
DiskSettled == FstabSettled /\ PackagesSettled /\ UkiSettled /\ HookSettled

IInv == TypeInv /\ AnnouncedLast /\ TargetMounted /\ NothingBound /\ DiskSettled

\* The inductive invariant holds at first.
LEMMA IInvInit == Init => IInv
<1> SUFFICES ASSUME Init PROVE IInv
  OBVIOUS
<1>1. TypeInv
  BY TypeInit DEF TypeInv
<1>2. proc = "none" /\ pc = "from_env" /\ phase = 0 /\ exc = "none" /\ rc = "none"
        /\ stateFile.finished = FALSE /\ host.binds = {} /\ ~ ctx.protected /\ disk.fstab = "none"
  BY DEF Init, NoState, BlankDisk
<1>3. AnnouncedLast
  BY <1>2 DEF AnnouncedLast, FinallyCalls
<1>4. TargetMounted /\ NothingBound
  BY <1>2 DEF TargetMounted, NothingBound, InTarget, Verified
<1>5. DiskSettled
  BY <1>2 DEF DiskSettled, FstabSettled, PackagesSettled, UkiSettled, HookSettled
<1>6. QED
  BY <1>1, <1>3, <1>4, <1>5 DEF IInv

\* Every step keeps the inductive invariant.
LEMMA IInvStep == IInv /\ [Next]_vars => IInv'
<1>1. ASSUME IInv, Next PROVE IInv'
  <2>1. ControlOK /\ Located /\ stateFile \in StateFiles /\ host \in Hosts /\ TypeInv
    BY <1>1 DEF IInv, TypeInv, DataOK
  <2>2. TypeInv'
    BY <1>1, <2>1, ControlNext, DataNext DEF TypeInv
  <2>3. AnnouncedLast'
    BY <1>1, <2>1, AnnouncedNext DEF IInv
  <2>4. TargetMounted' /\ NothingBound'
    BY <1>1, <2>1, MountsNext DEF IInv
  <2>5. DiskSettled'
    BY <1>1, <2>1, FstabNext, PackagesNext, UkiNext, HookNext DEF IInv, DiskSettled
  <2>6. QED
    BY <2>2, <2>3, <2>4, <2>5 DEF IInv
<1>2. IInv /\ UNCHANGED vars => IInv'
  BY DEF IInv, TypeInv, ControlOK, Located, DataOK, AnnouncedLast, TargetMounted, NothingBound, InTarget,
         Verified, DiskSettled, FstabSettled, PackagesSettled, UkiSettled, HookSettled, vars
<1>3. QED
  BY <1>1, <1>2

\* The inductive invariant: finished_at is written last, the target is mounted and
\* unbound when it must be, and what a completed phase left on the disk stays there.
THEOREM InductiveInvariant == Spec => []IInv
BY IInvInit, IInvStep, PTL DEF Spec

(***************************************************************************)
(* A live-only bind mount never reaches the installed system's fstab.      *)
(***************************************************************************)
THEOREM FstabNeverPolluted == Spec => []FstabClean
<1>1. IInv => FstabClean
  BY DEF IInv, DiskSettled, FstabSettled, FstabClean
<1>2. QED
  BY <1>1, InductiveInvariant, PTL

\* What the fourteen phases leave on the disk adds up to a system that boots.
LEMMA BootableAtTheEnd ==
  ASSUME DiskSettled, phase = 14
  PROVE  BootReady(disk)
BY DEF DiskSettled, FstabSettled, PackagesSettled, UkiSettled, HookSettled, BootReady, HookRestored

(***************************************************************************)
(* A run that announced its end, or exited 0, leaves a system that boots   *)
(* and can rebuild its UKI, whatever faults and signals it met.            *)
(***************************************************************************)
THEOREM FinishedBoots == Spec => []FinishedMeansBootable
<1>1. IInv => FinishedMeansBootable
  BY BootableAtTheEnd DEF IInv, AnnouncedLast, FinishedMeansBootable
<1>2. QED
  BY <1>1, InductiveInvariant, PTL

-----------------------------------------------------------------------------
(* The refinement of InstallHandover.                                      *)

\* The actions that leave state.json alone.
StateUntouched ==
  \/ FromEnv \/ BoostGovernor \/ WriteTiming
  \/ RestoreGovernors \/ CleanupBinds \/ CleanupHooks \/ CleanupProtected \/ Exit
  \/ InstallStep

\* These actions do leave state.json alone.
LEMMA StateUnchanged ==
  ASSUME StateUntouched
  PROVE  UNCHANGED stateFile
<1> USE DEF Step, QuietStep, data, HostBecomes, HostAmong, DiskBecomes, DiskAmong, MemBecomes, HookAmong
<1>1. CASE FromEnv \/ BoostGovernor \/ WriteTiming \/ RestoreGovernors \/ CleanupBinds \/ CleanupHooks
           \/ CleanupProtected \/ Exit
  BY <1>1 DEF FromEnv, BoostGovernor, WriteTiming, RestoreGovernors, CleanupBinds, CleanupHooks,
              CleanupProtected, Exit
<1>2. CASE PrepareLive \/ PrepareInstallTarget \/ UsePreMounted \/ Format \/ FormatRetry \/ MountLayout
           \/ MountCache \/ MaskLive \/ InstallPackages \/ UnmaskLive \/ UnmountCache \/ Finishers \/ WriteFstab
  BY <1>2 DEF PrepareLive, PrepareInstallTarget, UsePreMounted, Format, FormatRetry, MountLayout,
              MountCache, MaskLive, InstallPackages, UnmaskLive, UnmountCache, Finishers, WriteFstab
<1>3. CASE ConfigureHibernation \/ RunSystemFinalizer \/ RunChrootFinalizer \/ PrepareTarget \/ BindLog
           \/ LogWindow \/ RunTargetCommand \/ UnbindLog \/ UnmaskTarget
  BY <1>3 DEF ConfigureHibernation, RunSystemFinalizer, RunChrootFinalizer, PrepareTarget, BindLog,
              LogWindow, RunTargetCommand, UnbindLog, UnmaskTarget
<1>4. CASE StageProvisioningState \/ FinalizeLimineBoot \/ LimineUpdate \/ ConfigureUserland
           \/ ValidateBoot \/ AssertHooks \/ CheckBoot
  BY <1>4 DEF StageProvisioningState, FinalizeLimineBoot, LimineUpdate, ConfigureUserland, ValidateBoot,
              AssertHooks, CheckBoot
<1>5. QED
  BY <1>1, <1>2, <1>3, <1>4 DEF StateUntouched, InstallStep

\* The driver's calls once the end is announced.
LastCalls == {"finish", "timing"} \cup FinallyCalls

\* The phases are over when the last calls are made.
LEMMA DiskTouchedBefore ==
  ASSUME InstallStep
  PROVE  pc \notin LastCalls
<1> USE DEF LastCalls, FinallyCalls, At, Step, QuietStep
<1>1. CASE PrepareLive \/ PrepareInstallTarget \/ UsePreMounted \/ Format \/ FormatRetry \/ MountLayout
           \/ MountCache \/ MaskLive \/ InstallPackages \/ UnmaskLive \/ UnmountCache \/ Finishers \/ WriteFstab
  BY <1>1 DEF PrepareLive, PrepareInstallTarget, UsePreMounted, Format, FormatRetry, MountLayout,
              MountCache, MaskLive, InstallPackages, UnmaskLive, UnmountCache, Finishers, WriteFstab
<1>2. CASE ConfigureHibernation \/ RunSystemFinalizer \/ RunChrootFinalizer \/ PrepareTarget \/ BindLog
           \/ LogWindow \/ RunTargetCommand \/ UnbindLog \/ UnmaskTarget
  BY <1>2 DEF ConfigureHibernation, RunSystemFinalizer, RunChrootFinalizer, PrepareTarget, BindLog,
              LogWindow, RunTargetCommand, UnbindLog, UnmaskTarget
<1>3. CASE StageProvisioningState \/ FinalizeLimineBoot \/ LimineUpdate \/ ConfigureUserland
           \/ ValidateBoot \/ AssertHooks \/ CheckBoot
  BY <1>3 DEF StageProvisioningState, FinalizeLimineBoot, LimineUpdate, ConfigureUserland, ValidateBoot,
              AssertHooks, CheckBoot
<1>4. QED
  BY <1>1, <1>2, <1>3 DEF InstallStep

\* Unmasking a hook that is in place changes nothing on the disk.
LEMMA RestoredDiskKept ==
  ASSUME disk \in Disks, disk.hook = InstalledHook, CleanupHooks
  PROVE  disk' = disk
<1>1. \/ disk' = disk
      \/ \E h \in {Unmasked(disk.hook)} \cup UnmaskedPartly(disk.hook) : disk' = [disk EXCEPT !.hook = h]
  BY DEF CleanupHooks, QuietStep, data, HookAmong, DiskAmong, HooksUnmasked
<1>2. ASSUME NEW h \in {Unmasked(disk.hook)} \cup UnmaskedPartly(disk.hook), disk' = [disk EXCEPT !.hook = h]
      PROVE  disk' = disk
  <2>1. h = InstalledHook
    BY UnmaskRestoredHook
  <2>2. QED
    BY <1>2, <2>1 DEF Disks
<1>3. QED
  BY <1>1, <1>2

\* From the announcement on the disk stays as it is, and the announcement itself
\* writes nothing but state.json.
Final ==
  /\ stateFile.finished => stateFile'.finished /\ disk' = disk
  /\ stateFile'.finished => disk' = disk \/ stateFile.finished

\* From the announcement on, nothing changes the target.
LEMMA FinalNext ==
  ASSUME IInv, DriverStep \/ InstallStep
  PROVE  Final
<1>1. /\ ControlOK /\ Located /\ AnnouncedLast /\ disk \in Disks /\ stateFile \in StateFiles
      /\ stateFile.finished => phase = 14 /\ pc \in LastCalls /\ disk.hook = InstalledHook
  BY DEF IInv, TypeInv, DataOK, AnnouncedLast, DiskSettled, HookSettled, LastCalls
<1>2. CASE InstallStep
  <2>1. stateFile' = stateFile /\ ~ stateFile.finished
    BY <1>1, <1>2, StateUnchanged, DiskTouchedBefore DEF StateUntouched
  <2>2. QED
    BY <2>1 DEF Final
<1>3. CASE CleanupHooks
  <2>1. stateFile' = stateFile
    BY <1>3, StateUnchanged DEF StateUntouched
  <2>2. stateFile.finished => disk' = disk
    BY <1>1, <1>3, RestoredDiskKept
  <2>3. QED
    BY <2>1, <2>2 DEF Final
<1>4. CASE FromEnv \/ BoostGovernor \/ WriteTiming \/ RestoreGovernors \/ CleanupBinds \/ CleanupProtected \/ Exit
  <2>1. stateFile' = stateFile /\ disk' = disk
    BY <1>4, StateUnchanged, DiskUnchanged DEF StateUntouched, DiskUntouched
  <2>2. QED
    BY <2>1 DEF Final
<1>5. CASE InitState \/ PhaseStart \/ PhaseOk \/ Unwind \/ Finish
  <2>1. disk' = disk
    BY <1>5, DiskUnchanged DEF DiskUntouched
  <2>2. stateFile.finished => stateFile'.finished
    <3>1. CASE InitState
      BY <1>1, <3>1 DEF InitState, At, Located
    <3>2. CASE PhaseStart
      BY <1>1, <3>2 DEF PhaseStart, Step, WriteState, WriteStatePartly, StateFiles
    <3>3. CASE PhaseOk
      BY <1>1, <3>3 DEF PhaseOk, WriteState, WriteStatePartly, StateFiles
    <3>4. CASE Unwind
      BY <1>1, <3>4 DEF Unwind, Step, QuietStep, WriteState, WriteStatePartly, StateFiles, data
    <3>5. CASE Finish
      BY <1>1, <3>5 DEF Finish, Step, WriteState, WriteStatePartly, StateFiles
    <3>6. QED
      BY <1>5, <3>1, <3>2, <3>3, <3>4, <3>5
  <2>3. QED
    BY <2>1, <2>2 DEF Final
<1>6. QED
  BY <1>2, <1>3, <1>4, <1>5 DEF DriverStep

\* A running process goes on running or comes to an end.
Onwards ==
  /\ proc = "running"
  /\ proc' \in {"running", "exited", "aborted", "killed"}
  /\ proc' = "exited" => UNCHANGED stateFile

\* A call that is cut short leads on, or ends the attempt.
LEMMA CutShortEnds ==
  ASSUME ControlOK, Located, proc = "running", Stopped \/ CutShort
  PROVE  Onwards
BY CutShortEffect DEF CutShortLands, Onwards

\* Every step of an attempt leads on, or ends it.
LEMMA ProcessEnds ==
  ASSUME ControlOK, Located, Next, ~ StartAttempt, ~ Rest
  PROVE  Onwards
<1>0. proc = "running" /\ (Stopped \/ CutShort) => Onwards
  BY CutShortEnds
<1> USE <1>0 DEF Onwards, At, Step, QuietStep, Return
<1>1. CASE StartAttempt
  BY <1>1
<1>2. CASE FromEnv
  BY <1>2 DEF FromEnv, data
<1>3. CASE BoostGovernor
  BY <1>3 DEF BoostGovernor
<1>4. CASE InitState
  BY <1>4 DEF InitState
<1>5. CASE PhaseStart
  BY <1>5 DEF PhaseStart
<1>6. CASE PhaseOk
  BY <1>6 DEF PhaseOk
<1>7. CASE Unwind
  BY <1>7 DEF Unwind
<1>8. CASE Finish
  BY <1>8 DEF Finish
<1>9. CASE WriteTiming
  BY <1>9 DEF WriteTiming
<1>10. CASE RestoreGovernors
  BY <1>10 DEF RestoreGovernors
<1>11. CASE CleanupBinds
  BY <1>11 DEF CleanupBinds
<1>12. CASE CleanupHooks
  BY <1>12 DEF CleanupHooks
<1>13. CASE CleanupProtected
  BY <1>13 DEF CleanupProtected
<1>14. CASE Exit
  BY <1>14 DEF Exit, data
<1>15. CASE PrepareLive
  BY <1>15 DEF PrepareLive
<1>16. CASE PrepareInstallTarget
  BY <1>16 DEF PrepareInstallTarget
<1>17. CASE UsePreMounted
  BY <1>17 DEF UsePreMounted
<1>18. CASE Format
  BY <1>18 DEF Format
<1>19. CASE FormatRetry
  BY <1>19 DEF FormatRetry
<1>20. CASE MountLayout
  BY <1>20 DEF MountLayout
<1>21. CASE MountCache
  BY <1>21 DEF MountCache
<1>22. CASE MaskLive
  BY <1>22 DEF MaskLive
<1>23. CASE InstallPackages
  BY <1>23 DEF InstallPackages
<1>24. CASE UnmaskLive
  BY <1>24 DEF UnmaskLive
<1>25. CASE UnmountCache
  BY <1>25 DEF UnmountCache, CutShort
<1>26. CASE Finishers
  BY <1>26 DEF Finishers
<1>27. CASE WriteFstab
  BY <1>27 DEF WriteFstab
<1>28. CASE ConfigureHibernation
  BY <1>28 DEF ConfigureHibernation
<1>29. CASE RunSystemFinalizer
  BY <1>29 DEF RunSystemFinalizer
<1>30. CASE RunChrootFinalizer
  BY <1>30 DEF RunChrootFinalizer
<1>31. CASE PrepareTarget
  BY <1>31 DEF PrepareTarget
<1>32. CASE BindLog
  BY <1>32 DEF BindLog
<1>33. CASE LogWindow
  BY <1>33 DEF LogWindow
<1>34. CASE RunTargetCommand
  BY <1>34 DEF RunTargetCommand
<1>35. CASE UnbindLog
  BY <1>35 DEF UnbindLog
<1>36. CASE UnmaskTarget
  BY <1>36 DEF UnmaskTarget
<1>37. CASE StageProvisioningState
  BY <1>37 DEF StageProvisioningState
<1>38. CASE FinalizeLimineBoot
  BY <1>38 DEF FinalizeLimineBoot
<1>39. CASE LimineUpdate
  BY <1>39 DEF LimineUpdate
<1>40. CASE ConfigureUserland
  BY <1>40 DEF ConfigureUserland
<1>41. CASE ValidateBoot
  BY <1>41 DEF ValidateBoot
<1>42. CASE AssertHooks
  BY <1>42 DEF AssertHooks, CutShort
<1>43. CASE CheckBoot
  BY <1>43 DEF CheckBoot
<1>44. CASE Rest
  BY <1>44
<1>45. QED
  BY <1>1, <1>2, <1>3, <1>4, <1>5, <1>6, <1>7, <1>8, <1>9, <1>10, <1>11, <1>12, <1>13, <1>14, <1>15,
     <1>16, <1>17, <1>18, <1>19, <1>20, <1>21, <1>22, <1>23, <1>24, <1>25, <1>26, <1>27, <1>28,
     <1>29, <1>30, <1>31, <1>32, <1>33, <1>34, <1>35, <1>36, <1>37, <1>38, <1>39, <1>40, <1>41,
     <1>42, <1>43, <1>44
     DEF Next, DriverStep, InstallStep

\* The initial states are initial states of InstallHandover.
LEMMA HandoverInit == Init => Handover!Init
BY DEF Init, Handover!Init, InstallStatus

\* Every step is a step of InstallHandover or a stutter.
LEMMA HandoverStep ==
  ASSUME IInv, IInv', Next
  PROVE  [Handover!Next]_(Handover!vars)
<1>0. /\ ControlOK /\ Located /\ ControlOK' /\ disk \in Disks
      /\ rc' = "ok" => stateFile'.finished
      /\ stateFile'.finished => BootReady(disk')
  <2>1. stateFile'.finished => BootReady(disk')
    <3>1. stateFile'.finished => phase' = 14
      BY DEF IInv, AnnouncedLast
    <3>2. phase' = 14 => BootReady(disk')
      BY DEF IInv, DiskSettled, FstabSettled, PackagesSettled, UkiSettled, HookSettled, BootReady, HookRestored
    <3>3. QED
      BY <3>1, <3>2
  <2>2. QED
    BY <2>1 DEF IInv, TypeInv, DataOK, AnnouncedLast
<1>1. CASE StartAttempt
  <2>1. InstallStatus \in {"idle", "stopped"}
    BY <1>0, <1>1 DEF StartAttempt, Ended, InstallStatus
  <2>2. InstallStatus' = "installing"
    BY <1>1 DEF StartAttempt, InstallStatus, NoState
  <2>3. QED
    BY <2>1, <2>2 DEF Handover!Next, Handover!Begin
<1>2. CASE Rest
  BY <1>2 DEF Rest, vars, Handover!vars, InstallStatus
<1>3. CASE DriverStep \/ InstallStep
  <2>0. CASE StartAttempt \/ Rest
    BY <1>1, <1>2, <2>0
  <2> SUFFICES ASSUME ~ StartAttempt, ~ Rest PROVE [Handover!Next]_(Handover!vars)
    BY <2>0
  <2>1. Final /\ Onwards
    BY <1>0, <1>3, FinalNext, ProcessEnds
  <2>2. CASE ~ stateFile.finished
    <3>1. InstallStatus = "installing"
      BY <2>1, <2>2 DEF InstallStatus, Onwards
    <3>2. CASE proc' = "running" /\ ~ stateFile'.finished
      BY <3>1, <3>2 DEF InstallStatus, Handover!Next, Handover!Work
    <3>3. CASE proc' = "running" /\ stateFile'.finished
      <4>1. disk' = disk /\ BootReady(disk')
        BY <1>0, <2>1, <2>2, <3>3 DEF Final
      <4>2. InstallStatus' = "announced"
        BY <3>3 DEF InstallStatus
      <4>3. QED
        BY <1>0, <3>1, <4>1, <4>2 DEF Handover!Next, Handover!Announce
    <3>4. CASE proc' # "running"
      <4>1. proc' \in {"aborted", "killed"} \/ (proc' = "exited" /\ rc' # "ok")
        BY <1>0, <2>1, <2>2, <3>4 DEF Onwards
      <4>2. InstallStatus' = "stopped"
        BY <4>1 DEF InstallStatus
      <4>3. QED
        BY <3>1, <4>2 DEF Handover!Next, Handover!GiveUp
    <3>5. QED
      BY <3>2, <3>3, <3>4
  <2>3. CASE stateFile.finished
    <3>1. InstallStatus = "announced" /\ disk' = disk /\ stateFile'.finished
      BY <2>1, <2>3 DEF InstallStatus, Final, Onwards
    <3>2. InstallStatus' \in {"announced", "handedOver", "stopped"}
      BY <2>1, <3>1 DEF InstallStatus, Onwards
    <3>3. QED
      BY <3>1, <3>2 DEF Handover!Next, Handover!HandOver, Handover!GiveUp, Handover!vars
  <2>4. QED
    BY <2>2, <2>3
<1>4. QED
  BY <1>1, <1>2, <1>3 DEF Next

(***************************************************************************)
(* The orchestrator implements InstallHandover: nothing is announced or    *)
(* handed over that does not boot, and nothing changes after that.         *)
(***************************************************************************)
THEOREM HandoverImplemented == Spec => ImplementsHandover
<1>1. IInv /\ IInv' /\ [Next]_vars => [Handover!Next]_(Handover!vars)
  <2>1. UNCHANGED vars => UNCHANGED Handover!vars
    BY DEF vars, Handover!vars, InstallStatus
  <2>2. QED
    BY <2>1, HandoverStep
<1>2. QED
  BY <1>1, HandoverInit, InductiveInvariant, PTL DEF Spec, ImplementsHandover, Handover!Spec
=============================================================================
