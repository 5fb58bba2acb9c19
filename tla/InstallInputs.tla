--------------------------- MODULE InstallInputs ---------------------------
(***************************************************************************)
(* The files in /root that tell the installer what to install, over the    *)
(* runs of .automated_script.sh in one live session.  Each run takes them  *)
(* from a drive labelled cidata (omarchy-cidata-load) or, failing that,    *)
(* from the wizard (configurator).  Then the script decides how the end of *)
(* the install is to be presented, and the installer reads the same files  *)
(* in InstallContext.from_env().                                           *)
(*                                                                         *)
(* Nothing empties /root between two runs, the drive may be another one or *)
(* gone, every command may fail and Ctrl-C may stop the script anywhere.   *)
(***************************************************************************)
EXTENDS Naturals, Sequences

CONSTANTS
  Drives,   \* what the cidata drives hold
  MaxRuns   \* bound: runs of the script in one live session

(***************************************************************************)
(* "profile" stands for the three user_*.txt files and "access" for        *)
(* authorized_keys and tailscale_authkey, which are handled alike.         *)
(***************************************************************************)
Files == {"configuration", "credentials", "marker", "profile", "access"}

\* omarchy_install.defer_provisioning; "other" is a JSON value that is not a
\* Boolean but true in Python, such as "yes" or 1.
Flags == {"absent", "false", "true", "other"}

(***************************************************************************)
(* What a drive or a wizard's answers hold: which files, the flag in the   *)
(* configuration, whether the configuration has account fields of its own, *)
(* and whether the credentials name a user.                                *)
(***************************************************************************)
Source == [files : SUBSET Files, flag : Flags, legacy : BOOLEAN, users : BOOLEAN]

ASSUME InstallInputsAssumption ==
  /\ Drives \subseteq Source
  /\ MaxRuns \in Nat

VARIABLES
  run,     \* runs of the script so far
  drive,   \* the drive attached during this run
  mounts,  \* what is mounted on /run/cidata, the last mount first
  inputs,  \* for each file, who wrote it, or NoFile
  load,    \* how omarchy-cidata-load ended
  pc,      \* where the script is
  ui,      \* OMARCHY_UI_DEFER_PROVISIONING
  ctx      \* InstallContext: [deferred, account]

vars == <<run, drive, mounts, inputs, load, pc, ui, ctx>>

NoDrive == [files |-> {}]
NoFile == [run |-> 0, from |-> NoDrive]

\* What the wizard writes: a full disk with or without a user, or the free
\* space of a disk, whose configuration has no flag.
Answer(flag, users) ==
  [files |-> {"configuration", "credentials", "profile"}, flag |-> flag, legacy |-> FALSE, users |-> users]
Answers == {Answer("false", TRUE), Answer("true", FALSE), Answer("absent", TRUE)}

Present(f) == inputs[f] # NoFile
Configuration == inputs["configuration"].from
Credentials == inputs["credentials"].from

Written(fs, from) == [f \in Files |-> IF f \in fs THEN [run |-> run, from |-> from] ELSE inputs[f]]
Removed(fs) == [f \in Files |-> IF f \in fs THEN NoFile ELSE inputs[f]]

Init ==
  /\ run = 0
  /\ drive = NoDrive
  /\ mounts = <<>>
  /\ inputs = [f \in Files |-> NoFile]
  /\ load = "none"
  /\ pc = "over"
  /\ ui = FALSE
  /\ ctx = [deferred |-> FALSE, account |-> FALSE]

\* The script begins; in between, drives are plugged in and out.
Start ==
  /\ pc = "over"
  /\ run < MaxRuns
  /\ run' = run + 1
  /\ drive' \in Drives \cup {NoDrive}
  /\ load' = "none"
  /\ pc' = "probe"
  /\ ui' = FALSE
  /\ ctx' = [deferred |-> FALSE, account |-> FALSE]
  /\ UNCHANGED <<mounts, inputs>>

Goto(next) == pc' = next /\ UNCHANGED <<run, drive>>

\* Ctrl-C, or an exit that ends the script: .automated_script.sh has set -e.
Quit == Goto("over") /\ UNCHANGED <<load, ui, ctx>>

-----------------------------------------------------------------------------
(* omarchy-cidata-load                                                     *)

\* Seeded fault: the label is not checked.
ProbeUnchecked ==
  /\ pc = "probe"
  /\ Goto("mount")
  /\ UNCHANGED <<mounts, inputs, load, ui, ctx>>

\* udevadm settle is best effort: a drive that is attached may not be seen.
Probe ==
  /\ pc = "probe"
  /\ UNCHANGED <<mounts, inputs, ui, ctx>>
  /\ \/ drive # NoDrive /\ Goto("mount") /\ UNCHANGED load
     \/ Goto("wizard") /\ load' = "no_drive"

\* mount refuses a file system that is on top of the mount point already,
\* where a run that was stopped may have left it.
Mount ==
  /\ pc = "mount"
  /\ UNCHANGED <<inputs, ui, ctx>>
  /\ \/ /\ mounts # <<>> => Head(mounts) # drive
        /\ mounts' = <<drive>> \o mounts
        /\ Goto("clear")
        /\ UNCHANGED load
     \/ Goto("wizard") /\ load' = "no_mount" /\ UNCHANGED mounts

\* Seeded fault: only the files every drive has are cleared.
ClearRequired ==
  /\ pc = "clear"
  /\ inputs' = Removed({"configuration", "credentials"})
  /\ Goto("copy")
  /\ UNCHANGED <<mounts, load, ui, ctx>>

Clear ==
  /\ pc = "clear"
  /\ inputs' = Removed(Files)
  /\ Goto("copy")
  /\ UNCHANGED <<mounts, load, ui, ctx>>

IsAutoinstall(d) == "configuration" \in d.files /\ ({"credentials", "marker"} \cap d.files # {})

\* Not an autoinstall drive, a copy, or a copy that fails somewhere.
Copy ==
  /\ pc = "copy"
  /\ UNCHANGED <<mounts, ui, ctx>>
  /\ \/ ~ IsAutoinstall(drive) /\ load' = "fallback" /\ Goto("umount") /\ UNCHANGED inputs
     \/ /\ IsAutoinstall(drive)
        /\ inputs' = Written(drive.files, drive)
        /\ load' = "loaded"
        /\ Goto("umount")
     \/ /\ IsAutoinstall(drive)
        /\ \E fs \in SUBSET drive.files : inputs' = Written(fs, drive)
        /\ load' = "fallback"
        /\ Goto("discard")

\* Seeded fault: what a failed copy left behind stays.
DiscardNothing == pc = "discard" /\ Goto("umount") /\ UNCHANGED <<mounts, inputs, load, ui, ctx>>

Discard ==
  /\ pc = "discard"
  /\ inputs' = Removed(drive.files)
  /\ Goto("umount")
  /\ UNCHANGED <<mounts, load, ui, ctx>>

\* The result of umount is not looked at.
Umount ==
  /\ pc = "umount"
  /\ mounts' \in {Tail(mounts), mounts}
  /\ Goto(IF load = "loaded" THEN "decide" ELSE "wizard")
  /\ UNCHANGED <<inputs, load, ui, ctx>>

-----------------------------------------------------------------------------
(* configurator                                                            *)

\* write_user_files, before any disk is touched.
WriteUserFiles ==
  /\ pc = "wizard"
  /\ \E a \in Answers : inputs' = Written({"profile", "credentials"}, a)
  /\ Goto("configure")
  /\ UNCHANGED <<mounts, load, ui, ctx>>

\* After the partitions are made, or for the whole disk.
WriteConfiguration ==
  /\ pc = "configure"
  /\ inputs' = Written({"configuration"}, Credentials)
  /\ Goto("decide")
  /\ UNCHANGED <<mounts, load, ui, ctx>>

-----------------------------------------------------------------------------
(* .automated_script.sh, and InstallContext.from_env() in the installer    *)

\* Seeded fault: the marker of a cidata drive is not looked at.
DecideByFlag ==
  /\ pc = "decide"
  /\ ui' = (Configuration.flag = "true")
  /\ Goto("from_env")
  /\ UNCHANGED <<mounts, inputs, load, ctx>>

Decide ==
  /\ pc = "decide"
  /\ ui' = (Present("marker") \/ Configuration.flag = "true")
  /\ Goto("from_env")
  /\ UNCHANGED <<mounts, inputs, load, ctx>>

Deferred == Present("marker") \/ Configuration.flag \in {"true", "other"}
NamesUser == Present("credentials") /\ Credentials.users

\* Seeded fault: the account fields of the configuration are not stripped.
FromEnvUnstripped ==
  /\ pc = "from_env"
  /\ Deferred \/ NamesUser
  /\ ctx' = [deferred |-> Deferred, account |-> ~ Deferred \/ Configuration.legacy]
  /\ Goto("installing")
  /\ UNCHANGED <<mounts, inputs, load, ui>>

\* Without deferral the credentials must be there and name a user; with it
\* neither they nor the configuration may make an account.
FromEnv ==
  /\ pc = "from_env"
  /\ Deferred \/ NamesUser
  /\ ctx' = [deferred |-> Deferred, account |-> ~ Deferred]
  /\ Goto("installing")
  /\ UNCHANGED <<mounts, inputs, load, ui>>

\* The install succeeds; the machine reboots, without asking if ui says so.
Reboot == pc = "installing" /\ Goto("rebooted") /\ UNCHANGED <<mounts, inputs, load, ui, ctx>>

(***************************************************************************)
(* A run that stops: Ctrl-C, a wizard that is aborted, a configuration     *)
(* error, a failed install.  A command that was under way may have done a  *)
(* part of its work.                                                       *)
(***************************************************************************)
Stop ==
  /\ pc \notin {"over", "rebooted"}
  /\ Quit
  /\ \/ UNCHANGED <<mounts, inputs>>
     \/ pc = "clear" /\ UNCHANGED mounts /\ \E fs \in SUBSET Files : inputs' = Removed(fs)
     \/ pc = "copy" /\ IsAutoinstall(drive) /\ UNCHANGED mounts
          /\ \E fs \in SUBSET drive.files : inputs' = Written(fs, drive)
     \/ pc = "discard" /\ UNCHANGED mounts /\ \E fs \in SUBSET drive.files : inputs' = Removed(fs)
     \/ pc = "wizard" /\ UNCHANGED mounts
          /\ \E a \in Answers, fs \in SUBSET {"profile", "credentials"} : inputs' = Written(fs, a)
     \/ pc = "configure" /\ UNCHANGED mounts /\ inputs' = Written({"configuration"}, Credentials)

Rest == (pc = "rebooted" \/ (pc = "over" /\ run = MaxRuns)) /\ UNCHANGED vars

Next ==
  \/ Start
  \/ Probe \/ Mount \/ Clear \/ Copy \/ Discard \/ Umount
  \/ WriteUserFiles \/ WriteConfiguration
  \/ Decide \/ FromEnv \/ Reboot
  \/ Stop \/ Rest

Spec == Init /\ [][Next]_vars

-----------------------------------------------------------------------------
(* Properties                                                              *)

Loader == {"probe", "mount", "clear", "copy", "discard", "umount"}
Wizard == {"wizard", "configure"}
Installer == {"decide", "from_env", "installing", "rebooted"}

\* Types; between mount and umount there is a drive and something is mounted,
\* and each run mounts at most once.
TypeOK ==
  /\ run \in 0 .. MaxRuns
  /\ drive \in Drives \cup {NoDrive}
  /\ mounts \in Seq(Drives)
  /\ Len(mounts) <= run
  /\ inputs \in [Files -> [run : 0 .. MaxRuns, from : Drives \cup Answers \cup {NoDrive}]]
  /\ load \in {"none", "no_drive", "no_mount", "loaded", "fallback"}
  /\ pc \in {"over"} \cup Loader \cup Wizard \cup Installer
  /\ ui \in BOOLEAN
  /\ ctx \in [deferred : BOOLEAN, account : BOOLEAN]
  /\ pc \in {"probe", "mount"} => Len(mounts) < run
  /\ pc \in Loader \ {"probe"} => drive \in Drives
  /\ pc \in Loader \ {"probe", "mount"} => mounts # <<>>

\* The inputs are what this run took from one source, and nothing else.
InputsOf(source) ==
  inputs = [f \in Files |-> IF f \in source.files THEN [run |-> run, from |-> source] ELSE NoFile]

\* omarchy-cidata-load exits 0: whatever earlier drives, wizards and stopped
\* runs left in /root, the installer gets the files of this drive, all of them
\* and no other.
LoadedInputsOfOneDrive == pc \in Installer /\ load = "loaded" => InputsOf(drive)

\* omarchy-cidata-load mounts a drive and gives up on it, even in the middle of
\* the copy: the installer gets the answers of this wizard, and no marker, key
\* or profile of the drive or of an earlier run.
FallbackInheritsNothing ==
  pc \in Installer /\ load = "fallback" => \E a \in Answers : InputsOf(a)

\* .automated_script.sh and from_env() decide about deferral each on their
\* own: a machine reboots without asking exactly if it has no account (unless
\* the flag in the configuration is not a Boolean).
PresentationMatches ==
  pc = "rebooted" /\ Configuration.flag # "other" => (ui <=> ~ ctx.account)
=============================================================================
