------------------------ MODULE InstallInputsProofs ------------------------
(***************************************************************************)
(* The safety properties of InstallInputs for any set of drives and any    *)
(* number of runs.                                                         *)
(***************************************************************************)
EXTENDS InstallInputs, TLAPS

USE DEF Goto, Quit

Cleared == inputs = [f \in Files |-> NoFile]

HalfAnswered(a) ==
  inputs = [f \in Files |-> IF f \in {"profile", "credentials"} THEN [run |-> run, from |-> a] ELSE NoFile]

\* How the loader ends, by where the script is.
LoadSettled ==
  /\ pc \in Loader \ {"discard", "umount"} => load = "none"
  /\ pc = "discard" => load = "fallback"
  /\ pc = "umount" => load \in {"loaded", "fallback"}
  /\ pc \in Wizard => load # "loaded"

\* What is in /root while the loader works and, if it gave up on a drive,
\* while the wizard does.
InputsSettled ==
  /\ pc = "copy" => Cleared
  /\ pc = "discard" => \A f \in Files \ drive.files : inputs[f] = NoFile
  /\ pc \in {"umount", "wizard"} /\ load = "fallback" => Cleared
  /\ pc = "configure" /\ load = "fallback" => \E a \in Answers : HalfAnswered(a)
  /\ pc \in {"umount"} \cup Installer /\ load = "loaded" => InputsOf(drive)
  /\ FallbackInheritsNothing

\* What was decided from the inputs, which no longer change.
DecisionsSettled ==
  /\ pc \in {"from_env", "installing", "rebooted"} =>
       (ui <=> (Present("marker") \/ Configuration.flag = "true"))
  /\ pc \in {"installing", "rebooted"} => (ctx.account <=> ~ Deferred)

IInv == TypeOK /\ LoadSettled /\ InputsSettled /\ DecisionsSettled

-----------------------------------------------------------------------------
\* NoFile and everything Written and Removed can make are of the inputs' type.
LEMMA InputsType ==
  ASSUME TypeOK
  PROVE  /\ \A fs, from : from \in Drives \cup Answers \cup {NoDrive} =>
              Written(fs, from) \in [Files -> [run : 0 .. MaxRuns, from : Drives \cup Answers \cup {NoDrive}]]
         /\ \A fs : Removed(fs) \in [Files -> [run : 0 .. MaxRuns, from : Drives \cup Answers \cup {NoDrive}]]
  <1>1. NoFile \in [run : 0 .. MaxRuns, from : Drives \cup Answers \cup {NoDrive}]
    BY InstallInputsAssumption DEF NoFile
  <1>2. run \in 0 .. MaxRuns
    BY DEF TypeOK
  <1>3. inputs \in [Files -> [run : 0 .. MaxRuns, from : Drives \cup Answers \cup {NoDrive}]]
    BY DEF TypeOK
  <1> QED BY <1>1, <1>2, <1>3 DEF Written, Removed

\* The initial states satisfy the inductive invariant.
LEMMA InitIInv == Init => IInv
  <1> SUFFICES ASSUME Init PROVE IInv
    OBVIOUS
  <1>1. NoFile \in [run : 0 .. MaxRuns, from : Drives \cup Answers \cup {NoDrive}]
    BY InstallInputsAssumption DEF NoFile
  <1>2. inputs \in [Files -> [run : 0 .. MaxRuns, from : Drives \cup Answers \cup {NoDrive}]]
    BY <1>1 DEF Init
  <1>3. run \in 0 .. MaxRuns /\ mounts \in Seq(Drives) /\ Len(mounts) <= run
    BY InstallInputsAssumption DEF Init
  <1>4. ctx \in [deferred : BOOLEAN, account : BOOLEAN] /\ ui \in BOOLEAN
    BY DEF Init
  <1>5. TypeOK
    BY <1>2, <1>3, <1>4 DEF Init, TypeOK, Loader, Wizard, Installer
  <1> QED BY <1>5 DEF Init, IInv, LoadSettled, InputsSettled, DecisionsSettled,
                      FallbackInheritsNothing, Loader, Wizard, Installer

\* Every step keeps the types.
LEMMA TypeNext == TypeOK /\ [Next]_vars => TypeOK'
  <1> SUFFICES ASSUME TypeOK, [Next]_vars PROVE TypeOK'
    OBVIOUS
  <1> USE InstallInputsAssumption DEF TypeOK, Loader, Wizard, Installer
  <1>1. CASE Start
    <2>1. run' \in 0 .. MaxRuns /\ run <= run'
      BY <1>1 DEF Start
    <2>3. mounts' \in Seq(Drives) /\ Len(mounts') < run' /\ Len(mounts') <= run'
      BY <1>1, <2>1 DEF Start
    <2>4. inputs' = inputs /\ pc' = "probe" /\ load' = "none" /\ ui' = FALSE
      BY <1>1 DEF Start
    <2>5. ctx' \in [deferred : BOOLEAN, account : BOOLEAN] /\ drive' \in Drives \cup {NoDrive}
      BY <1>1 DEF Start
    <2> QED BY <2>1, <2>3, <2>4, <2>5
  <1>2. CASE Probe
    BY <1>2 DEF Probe
  <1>3. CASE Mount
    <2>1. CASE mounts' = <<drive>> \o mounts /\ pc' = "clear" /\ load' = load
      <3>1. drive \in Drives /\ mounts \in Seq(Drives) /\ Len(mounts) < run
        BY <1>3 DEF Mount
      <3>2. mounts' \in Seq(Drives) /\ Len(mounts') = Len(mounts) + 1
        BY <2>1, <3>1
      <3>3. mounts' # <<>> /\ Len(mounts') <= run
        BY <3>1, <3>2
      <3> QED BY <1>3, <2>1, <3>1, <3>2, <3>3 DEF Mount
    <2>2. CASE pc' = "wizard" /\ load' = "no_mount" /\ mounts' = mounts
      BY <1>3, <2>2 DEF Mount
    <2> QED BY <1>3, <2>1, <2>2 DEF Mount
  <1>4. CASE Clear
    BY <1>4, InputsType DEF Clear
  <1>5. CASE Copy
    BY <1>5, InputsType DEF Copy
  <1>6. CASE Discard
    BY <1>6, InputsType DEF Discard
  <1>7. CASE Umount
    <2>1. Tail(mounts) \in Seq(Drives) /\ Len(Tail(mounts)) <= Len(mounts)
      BY <1>7 DEF Umount
    <2>2. mounts' \in Seq(Drives) /\ Len(mounts') <= Len(mounts) /\ run' = run
      BY <1>7, <2>1 DEF Umount
    <2>3. pc' \in {"decide", "wizard"} /\ Len(mounts') <= run'
      BY <1>7, <2>2 DEF Umount
    <2> QED BY <1>7, <2>2, <2>3 DEF Umount
  <1>8. CASE WriteUserFiles
    BY <1>8, InputsType DEF WriteUserFiles
  <1>9. Credentials \in Drives \cup Answers \cup {NoDrive}
    BY DEF Credentials, Files
  <1>10. CASE WriteConfiguration
    BY <1>9, <1>10, InputsType DEF WriteConfiguration
  <1>11. CASE Decide
    BY <1>11 DEF Decide
  <1>12. CASE FromEnv
    <2>1. Deferred \in BOOLEAN /\ (~ Deferred) \in BOOLEAN
      BY Zenon DEF Deferred
    <2>2. ctx' \in [deferred : BOOLEAN, account : BOOLEAN]
      BY <1>12, <2>1 DEF FromEnv
    <2> QED BY <1>12, <2>2 DEF FromEnv
  <1>13. CASE Reboot
    BY <1>13 DEF Reboot
  <1>14. CASE Stop
    BY <1>9, <1>14, InputsType DEF Stop
  <1>15. CASE UNCHANGED vars
    BY <1>15 DEF vars
  <1> QED
    BY <1>1, <1>2, <1>3, <1>4, <1>5, <1>6, <1>7, <1>8, <1>10, <1>11, <1>12, <1>13, <1>14, <1>15
    DEF Next, Rest

-----------------------------------------------------------------------------
\* Every step of the script keeps the loader's outcome where it belongs.
LEMMA LoadNext == TypeOK /\ LoadSettled /\ [Next]_vars => LoadSettled'
  <1> SUFFICES ASSUME TypeOK, LoadSettled, [Next]_vars PROVE LoadSettled'
    OBVIOUS
  <1> USE DEF LoadSettled, Loader, Wizard
  <1>1. CASE Start \/ Probe \/ Mount \/ Clear \/ Copy \/ Discard
    BY <1>1 DEF Start, Probe, Mount, Clear, Copy, Discard
  <1>2. CASE Umount
    BY <1>2 DEF Umount
  <1>3. CASE WriteUserFiles \/ WriteConfiguration \/ Decide \/ FromEnv \/ Reboot \/ Stop
    BY <1>3 DEF WriteUserFiles, WriteConfiguration, Decide, FromEnv, Reboot, Stop
  <1>4. CASE UNCHANGED vars
    BY <1>4 DEF vars
  <1> QED BY <1>1, <1>2, <1>3, <1>4 DEF Next, Rest

\* Every step keeps the inputs as InputsSettled describes them.
LEMMA InputsNext == TypeOK /\ LoadSettled /\ InputsSettled /\ [Next]_vars => InputsSettled'
  <1> SUFFICES ASSUME TypeOK, LoadSettled, InputsSettled, [Next]_vars PROVE InputsSettled'
    OBVIOUS
  <1>1. CASE Start \/ Probe \/ Mount \/ Stop
    <2>1. pc' \in {"over", "probe", "mount", "clear", "wizard"} /\ (pc' = "wizard" => load' # "fallback")
      BY <1>1 DEF Start, Probe, Mount, Stop
    <2> QED BY <2>1 DEF InputsSettled, FallbackInheritsNothing, Installer
  <1>2. CASE Clear
    <2>1. Cleared'
      BY <1>2 DEF Clear, Cleared, Removed
    <2>2. pc' = "copy"
      BY <1>2 DEF Clear
    <2> QED BY <2>1, <2>2 DEF InputsSettled, FallbackInheritsNothing, Installer
  <1>3. CASE Copy
    <2>1. Cleared /\ drive' = drive /\ run' = run
      BY <1>3 DEF Copy, InputsSettled
    <2>2. CASE load' = "fallback" /\ pc' = "umount" /\ inputs' = inputs
      <3>1. Cleared'
        BY <2>1, <2>2 DEF Cleared
      <3> QED BY <2>2, <3>1 DEF InputsSettled, FallbackInheritsNothing, Installer
    <2>3. CASE inputs' = Written(drive.files, drive) /\ load' = "loaded" /\ pc' = "umount"
      <3>1. InputsOf(drive)'
        BY <2>1, <2>3 DEF Cleared, InputsOf, Written
      <3> QED BY <2>3, <3>1 DEF InputsSettled, FallbackInheritsNothing, Installer
    <2>4. ASSUME NEW fs \in SUBSET drive.files, inputs' = Written(fs, drive), pc' = "discard"
          PROVE  InputsSettled'
      <3>1. \A f \in Files \ drive'.files : inputs'[f] = NoFile
        BY <2>1, <2>4 DEF Cleared, Written
      <3> QED BY <2>4, <3>1 DEF InputsSettled, FallbackInheritsNothing, Installer
    <2> QED BY <1>3, <2>2, <2>3, <2>4 DEF Copy
  <1>4. CASE Discard
    <2>1. \A f \in Files \ drive.files : inputs[f] = NoFile
      BY <1>4 DEF Discard, InputsSettled
    <2>2. Cleared'
      BY <1>4, <2>1 DEF Discard, Removed, Cleared
    <2>3. pc' = "umount" /\ load' = "fallback"
      BY <1>4 DEF Discard, LoadSettled
    <2> QED BY <2>2, <2>3 DEF InputsSettled, FallbackInheritsNothing, Installer
  <1>5. CASE Umount
    <2>1. inputs' = inputs /\ drive' = drive /\ run' = run /\ load' = load /\ pc = "umount"
      BY <1>5 DEF Umount
    <2>2. CASE load = "loaded"
      <3>1. pc' = "decide" /\ InputsOf(drive)'
        BY <1>5, <2>1, <2>2 DEF Umount, InputsSettled, InputsOf
      <3> QED BY <2>1, <2>2, <3>1 DEF InputsSettled, FallbackInheritsNothing, Installer
    <2>3. CASE load = "fallback"
      <3>1. pc' = "wizard" /\ Cleared'
        BY <1>5, <2>1, <2>3 DEF Umount, InputsSettled, Cleared
      <3> QED BY <2>1, <2>3, <3>1 DEF InputsSettled, FallbackInheritsNothing, Installer
    <2> QED BY <2>1, <2>2, <2>3 DEF LoadSettled
  <1>6. CASE WriteUserFiles
    <2>1. pc' = "configure" /\ load' = load /\ run' = run /\ pc = "wizard"
      BY <1>6 DEF WriteUserFiles
    <2>2. PICK a \in Answers : inputs' = Written({"profile", "credentials"}, a)
      BY <1>6 DEF WriteUserFiles
    <2>3. load = "fallback" => HalfAnswered(a)'
      BY <2>1, <2>2 DEF InputsSettled, Cleared, HalfAnswered, Written
    <2> QED BY <2>1, <2>3 DEF InputsSettled, FallbackInheritsNothing, Installer
  <1>7. CASE WriteConfiguration
    <2>1. pc' = "decide" /\ load' = load /\ run' = run /\ load # "loaded" /\ pc = "configure"
      BY <1>7 DEF WriteConfiguration, LoadSettled, Wizard
    <2>2. CASE load = "fallback"
      <3>1. PICK a \in Answers : HalfAnswered(a)
        BY <2>1, <2>2 DEF InputsSettled
      <3>2. Credentials = a
        BY <3>1 DEF HalfAnswered, Credentials, Files
      <3>3. a.files = {"configuration", "credentials", "profile"}
        BY DEF Answers, Answer
      <3>4. inputs' = Written({"configuration"}, a)
        BY <1>7, <3>2 DEF WriteConfiguration
      <3>5. InputsOf(a)'
        BY <2>1, <3>1, <3>3, <3>4 DEF InputsOf, HalfAnswered, Written, Files
      <3> QED BY <2>1, <2>2, <3>5 DEF InputsSettled, FallbackInheritsNothing, Installer
    <2>3. CASE load # "fallback"
      BY <2>1, <2>3 DEF InputsSettled, FallbackInheritsNothing, Installer
    <2> QED BY <2>2, <2>3
  <1>8. CASE Decide \/ FromEnv \/ Reboot \/ UNCHANGED vars
    <2>1. inputs' = inputs /\ run' = run /\ drive' = drive /\ load' = load
      BY <1>8 DEF Decide, FromEnv, Reboot, vars
    <2>2. pc' = pc \/ (pc \in Installer /\ pc' \in Installer)
      BY <1>8 DEF Decide, FromEnv, Reboot, vars, Installer
    <2>3. pc \in Installer <=> pc' \in Installer
      BY <2>2
    <2>4. pc \in {"copy", "discard", "umount", "wizard", "configure"} \/
          pc' \in {"copy", "discard", "umount", "wizard", "configure"} => pc' = pc
      BY <2>2 DEF Installer
    <2> QED
      BY <2>1, <2>3, <2>4
      DEF InputsSettled, FallbackInheritsNothing, Cleared, HalfAnswered, InputsOf
  <1> QED BY <1>1, <1>2, <1>3, <1>4, <1>5, <1>6, <1>7, <1>8 DEF Next, Rest

\* Both decisions are taken from the inputs the installer works with.
LEMMA DecisionsNext == DecisionsSettled /\ [Next]_vars => DecisionsSettled'
  <1> SUFFICES ASSUME DecisionsSettled, [Next]_vars PROVE DecisionsSettled'
    OBVIOUS
  <1>1. CASE Start \/ Probe \/ Mount \/ Clear \/ Copy \/ Discard \/ Umount
             \/ WriteUserFiles \/ WriteConfiguration \/ Stop
    <2>1. pc' \notin {"from_env", "installing", "rebooted"}
      BY <1>1 DEF Start, Probe, Mount, Clear, Copy, Discard, Umount, WriteUserFiles, WriteConfiguration, Stop
    <2> QED BY <2>1 DEF DecisionsSettled
  <1>2. CASE Decide
    <2>1. pc' = "from_env" /\ inputs' = inputs
      BY <1>2 DEF Decide
    <2>2. ui' <=> (Present("marker") \/ Configuration.flag = "true")
      BY <1>2, Zenon DEF Decide
    <2>3. (Present("marker") \/ Configuration.flag = "true")' <=> (Present("marker") \/ Configuration.flag = "true")
      BY <2>1 DEF Present, Configuration
    <2> QED BY <2>1, <2>2, <2>3 DEF DecisionsSettled
  <1>3. CASE FromEnv
    <2>1. pc = "from_env" /\ pc' = "installing" /\ inputs' = inputs /\ ui' = ui
      BY <1>3 DEF FromEnv
    <2>2. ctx'.account <=> ~ Deferred
      BY <1>3 DEF FromEnv
    <2> QED BY <2>1, <2>2 DEF DecisionsSettled, Deferred, Present, Configuration
  <1>4. CASE Reboot
    BY <1>4 DEF Reboot, DecisionsSettled, Deferred, Present, Configuration
  <1>5. CASE UNCHANGED vars
    BY <1>5 DEF vars, DecisionsSettled, Deferred, Present, Configuration
  <1> QED BY <1>1, <1>2, <1>3, <1>4, <1>5 DEF Next, Rest

\* The inductive invariant holds in every reachable state.
THEOREM InductiveInvariant == Spec => []IInv
  <1>1. IInv /\ [Next]_vars => IInv'
    BY TypeNext, LoadNext, InputsNext, DecisionsNext DEF IInv
  <1> QED BY InitIInv, <1>1, PTL DEF Spec

\* The state of the session is typed, for any drives and any number of runs.
THEOREM TypeCorrect == Spec => []TypeOK
  <1>1. IInv => TypeOK
    BY DEF IInv
  <1> QED BY InductiveInvariant, <1>1, PTL

\* What the loader accepts reaches the installer whole and unmixed, whatever
\* earlier runs left in /root.
THEOREM LoadedOfOneDrive == Spec => []LoadedInputsOfOneDrive
  <1>1. IInv => LoadedInputsOfOneDrive
    BY DEF IInv, InputsSettled, LoadedInputsOfOneDrive
  <1> QED BY InductiveInvariant, <1>1, PTL

\* A drive the loader gives up on leaves nothing for the installer.
THEOREM FallbackClean == Spec => []FallbackInheritsNothing
  <1>1. IInv => FallbackInheritsNothing
    BY DEF IInv, InputsSettled
  <1> QED BY InductiveInvariant, <1>1, PTL

\* The two deferral decisions agree on every machine that reboots.
THEOREM PresentationAgrees == Spec => []PresentationMatches
  <1>1. IInv => PresentationMatches
    BY DEF IInv, DecisionsSettled, PresentationMatches, Deferred
  <1> QED BY InductiveInvariant, <1>1, PTL
=============================================================================
