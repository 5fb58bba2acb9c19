----------------------------- MODULE LimineBoot -----------------------------
(***************************************************************************)
(* Making the installed system boot: the Limine loader, its entry in the   *)
(* firmware's boot list, its configuration and kernel image, and the       *)
(* checks before the machine is handed over (prepare_live's hardware       *)
(* profile, _configure_limine_boot, finalize_limine_boot, validate_boot).  *)
(*                                                                         *)
(* The disk is formatted by every attempt; the firmware's boot list is     *)
(* not, so an attempt meets what the others on this machine, and the       *)
(* attempts before it, have left there.  The list is written by efibootmgr *)
(* one command at a time, some of them unchecked.                          *)
(***************************************************************************)
EXTENDS HardwareProfiles, FiniteSets

CONSTANTS
  Nums,        \* boot numbers the firmware has room for
  Machines,    \* the machines, each with the medium it was started from
  Installs,    \* what the configurator can ask for
  MaxAttempts  \* bound: installations on one machine

\* The words of an entry's label and path that the installer looks for.
Words == {"limine", "windows"}

\* by: the attempt that made the entry, 0 if it was found on the machine.
Entry == [words : SUBSET Words, by : 0 .. MaxAttempts]
NoEntry == [by |-> MaxAttempts + 1]
EntryTable == [Nums -> Entry \cup {NoEntry}]

\* The rank of a number in BootOrder, 1 the first, 0 for one that is not in it.
Order == [Nums -> Nat]

(***************************************************************************)
(* A machine: whether its firmware is UEFI and keeps variables, whether it *)
(* may refuse to delete one, what is in its boot list; arm: the medium is  *)
(* for aarch64, so the configurator sets bootloader_config.removable.      *)
(***************************************************************************)
ASSUME LimineAssumption ==
  /\ Nums \subseteq Nat
  /\ MaxAttempts \in Nat
  /\ \A m \in Machines :
       /\ {m.uefi, m.variables, m.stuck, m.arm} \subseteq BOOLEAN
       /\ m.entries \in EntryTable /\ m.order \in Order
       /\ \A n \in Nums : m.entries[n] # NoEntry => m.entries[n].by = 0
       /\ m.arm => m.uefi
  /\ \A i \in Installs :
       /\ {i.protected, i.encrypted, i.flag} \subseteq BOOLEAN
       /\ i.bootloader \in {"limine", "other", "none"}
       /\ i.uuid \in {"text", "mangled"}

VARIABLES
  machine,  \* the machine
  attempt,  \* installations so far
  pc,       \* the step about to be taken
  how,      \* how the last attempt ended
  cfg,      \* the installation asked for; flag is ctx.encrypt
  entries,  \* the boot entries
  order,    \* BootOrder
  pre,      \* pre_state: both as they were read before any change
  todo,     \* stale entries still to be deleted
  target    \* what has been made on the disk

nvram == <<entries, order>>
vars == <<machine, attempt, pc, how, cfg, nvram, pre, todo, target>>

(***************************************************************************)
(* loaders: where the loader is (its own directory of the ESP, the path    *)
(* the firmware falls back to, the disk's boot sector); hook: which of     *)
(* them 99-omarchy-limine.hook refreshes; cmdline and dropin: the kernel   *)
(* arguments configured in /etc/default/limine and by the platform; conf:  *)
(* what can be found in limine.conf; uki: the arguments built into the     *)
(* kernel image, none if there is no image.                                *)
(***************************************************************************)
Blank == [loaders |-> {}, hook |-> "none", cmdline |-> {}, dropin |-> {}, conf |-> {}, uki |-> {}]

Present == {n \in Nums : entries[n] # NoEntry}
\* _find_label_entries: label and path are searched alike.
Labelled(table, word) == {n \in Nums : table[n] # NoEntry /\ word \in table[n].words}

\* select_platform on this machine; only aarch64 media have profiles.
Refused == machine.arm /\ Rejected(machine.manifest, machine.identity, machine.media)
Packages == IF machine.arm THEN ProfilePackages(machine.manifest, machine.identity) ELSE {}
Offline == IF machine.arm THEN OfflinePackages(machine.manifest, machine.media) ELSE {}
PlatformArgs == IF machine.arm THEN ProfileArgs(machine.manifest, machine.identity) ELSE {}

Goto(next) == pc' = next /\ UNCHANGED <<machine, attempt, how, cfg>>
Over(end) == pc' = "over" /\ how' = end /\ UNCHANGED <<machine, attempt, cfg>>
\* A command whose result is checked: on to the next step, or an exception.
Then(next) == Goto(next) \/ Over("failed")
Failed == Over("failed") /\ UNCHANGED <<nvram, pre, todo, target>>

Init ==
  /\ machine \in Machines
  /\ attempt = 0
  /\ pc = "over"
  /\ how = "none"
  /\ cfg \in Installs
  /\ entries = machine.entries
  /\ order = machine.order
  /\ pre = [entries |-> machine.entries, order |-> machine.order]
  /\ todo = {}
  /\ target = Blank

\* The free-space install is offered on UEFI only.
Start ==
  /\ pc = "over"
  /\ attempt < MaxAttempts
  /\ \E i \in Installs : (i.protected => machine.uefi) /\ cfg' = i
  /\ attempt' = attempt + 1
  /\ pc' = "detect"
  /\ how' = "none"
  /\ UNCHANGED <<machine, nvram, pre, todo, target>>

\* detect_platform, at the head of prepare_live.
Detect ==
  /\ pc = "detect"
  /\ IF Refused THEN Over("failed") ELSE Goto("format")
  /\ UNCHANGED <<nvram, pre, todo, target>>

\* The root and the ESP are empty: archinstall formats them here, or the
\* configurator has formatted partitions of their own.
Format ==
  /\ pc = "format"
  /\ target' = Blank
  /\ Then("configure")
  /\ UNCHANGED <<nvram, pre, todo>>

-----------------------------------------------------------------------------
(* _configure_limine_boot                                                  *)

Configure ==
  /\ pc = "configure"
  /\ CASE cfg.bootloader = "none" -> Goto("packages")
       [] cfg.bootloader = "other" -> Over("failed")
       [] OTHER -> Goto(IF ~ machine.uefi THEN "bios" ELSE IF cfg.protected THEN "read" ELSE "copy")
  /\ UNCHANGED <<nvram, pre, todo, target>>

\* The free-space install does not look at bootloader_config.removable.
Removable == machine.arm /\ ~ cfg.protected
LoaderPath == IF Removable THEN "fallback" ELSE "own"

\* _install_limine_efi: the loader, and the hook that refreshes it.
CopyLoader ==
  /\ pc = "copy"
  /\ \/ /\ target' = [target EXCEPT !.loaders = @ \cup {LoaderPath}, !.hook = LoaderPath]
        /\ Goto(IF Removable THEN "defaults" ELSE IF cfg.protected THEN "delete" ELSE "read")
        /\ UNCHANGED <<nvram, pre, todo>>
     \/ Failed

InstallBios ==
  /\ pc = "bios"
  /\ \/ /\ target' = [target EXCEPT !.loaders = @ \cup {"boot sector"}, !.hook = "boot sector"]
        /\ Goto("defaults")
        /\ UNCHANGED <<nvram, pre, todo>>
     \/ Failed

\* _read_efibootmgr: before anything is copied if the disk is shared.
ReadBoot ==
  /\ pc = "read"
  /\ \/ /\ machine.variables
        /\ pre' = [entries |-> entries, order |-> order]
        /\ todo' = Labelled(entries, "limine")
        /\ Goto(IF cfg.protected THEN "copy" ELSE "delete")
        /\ UNCHANGED <<nvram, target>>
     \/ Failed

\* Seeded fault: only the first stale entry is deleted.
DeleteStaleOne ==
  /\ pc = "delete"
  /\ \/ \E n \in todo :
          /\ todo' = todo \ {n}
          /\ entries' = [entries EXCEPT ![n] = NoEntry]
          /\ order' = [order EXCEPT ![n] = 0]
          /\ Goto("create")
     \/ todo = {} /\ Goto("create") /\ UNCHANGED <<nvram, todo>>
  /\ UNCHANGED <<pre, target>>

\* The loop over the stale entries; a deletion that fails is not noticed.
DeleteStale ==
  /\ pc = "delete"
  /\ \/ \E n \in todo :
          /\ todo' = todo \ {n}
          /\ \/ entries' = [entries EXCEPT ![n] = NoEntry] /\ order' = [order EXCEPT ![n] = 0]
             \/ machine.stuck /\ UNCHANGED nvram
          /\ Goto("delete")
     \/ todo = {} /\ Goto("create") /\ UNCHANGED <<nvram, todo>>
  /\ UNCHANGED <<pre, target>>

\* efibootmgr --create puts the entry first in BootOrder.  It may exit with an
\* error after it has, and with none although it has not.
Create ==
  /\ pc = "create"
  /\ \/ \E n \in Nums \ Present :
          /\ entries' = [entries EXCEPT ![n] = [words |-> {"limine"}, by |-> attempt]]
          /\ order' = [m \in Nums |-> IF m = n THEN 1 ELSE IF order[m] = 0 THEN 0 ELSE order[m] + 1]
     \/ UNCHANGED nvram
  /\ Then("order")
  /\ UNCHANGED <<pre, todo, target>>

\* The numbers of pre_state's order that are to follow.
Kept(num) == {n \in Nums : /\ pre.order[n] # 0 /\ pre.entries[n] # NoEntry
                           /\ n \notin Labelled(pre.entries, "limine") /\ n # num}

\* Seeded fault: the new entry goes behind the others.
SetOrderLast ==
  /\ pc = "order"
  /\ \/ \E num \in Labelled(entries, "limine") :
          /\ \A n \in Labelled(entries, "limine") : num <= n
          /\ order' = [n \in Nums |-> IF n = num THEN Cardinality(Nums) + 1
                                      ELSE IF n \in Kept(num) THEN pre.order[n] ELSE 0]
          /\ Goto(IF cfg.protected THEN "windows" ELSE "defaults")
          /\ UNCHANGED <<entries, pre, todo, target>>
     \/ Failed

\* Seeded fault: BootOrder is the new entry alone.
SetOrderAlone ==
  /\ pc = "order"
  /\ \/ \E num \in Labelled(entries, "limine") :
          /\ \A n \in Labelled(entries, "limine") : num <= n
          /\ order' = [n \in Nums |-> IF n = num THEN 1 ELSE 0]
          /\ Goto(IF cfg.protected THEN "windows" ELSE "defaults")
          /\ UNCHANGED <<entries, pre, todo, target>>
     \/ Failed

\* efibootmgr --bootorder, with the first Limine entry listed now in front.
SetOrder ==
  /\ pc = "order"
  /\ \/ \E num \in Labelled(entries, "limine") :
          /\ \A n \in Labelled(entries, "limine") : num <= n
          /\ order' = [n \in Nums |-> IF n = num THEN 1 ELSE IF n \in Kept(num) THEN pre.order[n] + 1 ELSE 0]
          /\ Goto(IF cfg.protected THEN "windows" ELSE "defaults")
          /\ UNCHANGED <<entries, pre, todo, target>>
     \/ Failed

\* _install_pre_mounted_limine, after the entry is registered.
CheckWindows ==
  /\ pc = "windows"
  /\ \/ /\ Labelled(pre.entries, "windows") # {} => Labelled(entries, "windows") # {}
        /\ Goto("defaults")
     \/ Over("failed")
  /\ UNCHANGED <<nvram, pre, todo, target>>

\* The arguments that name the root: blkid is asked by the free-space install,
\* and require_text refuses a UUID that was not valid text.
RootArgs == {"root"} \cup (IF cfg.encrypted THEN {"cryptdevice"} ELSE {})

WriteDefaults ==
  /\ pc = "defaults"
  /\ \/ /\ cfg.protected => cfg.uuid = "text"
        /\ target' = [target EXCEPT !.cmdline = RootArgs, !.conf = {"file"}]
        /\ Goto("packages")
        /\ UNCHANGED <<nvram, pre, todo>>
     \/ Failed

-----------------------------------------------------------------------------
(* The packages of the target, and finalize_limine_boot                    *)

\* _runtime_package_list, from the medium's own repository.
InstallPackages ==
  /\ pc = "packages"
  /\ (Packages \subseteq Offline /\ Goto("finalize")) \/ Over("failed")
  /\ UNCHANGED <<nvram, pre, todo, target>>

\* Seeded fault: the platform's arguments are written after limine-update.
FinalizeUnconfigured ==
  /\ pc = "finalize"
  /\ (target.cmdline # {} /\ Goto("update")) \/ Over("failed")
  /\ UNCHANGED <<nvram, pre, todo, target>>

\* /etc/default/limine has to be there; configure_boot adds the platform's arguments.
Finalize ==
  /\ pc = "finalize"
  /\ \/ /\ target.cmdline # {}
        /\ target' = [target EXCEPT !.dropin = PlatformArgs]
        /\ Goto("update")
        /\ UNCHANGED <<nvram, pre, todo>>
     \/ Failed

Configured == target.cmdline \cup target.dropin

\* limine-update in the target: it builds the image and writes its entry into
\* limine.conf, or leaves either out without saying so.
LimineUpdate ==
  /\ pc = "update"
  /\ \E conf \in SUBSET ({"omarchy"} \cup (Configured \cap {"cryptdevice"})),
        uki \in {Configured, {}} :
       target' = [target EXCEPT !.conf = @ \cup conf, !.uki = uki]
  /\ Then("check")
  /\ UNCHANGED <<nvram, pre, todo>>

\* What finalize_limine_boot looks for after limine-update.
CheckConfig ==
  /\ pc = "check"
  /\ \/ /\ "omarchy" \in target.conf
        /\ "cryptdevice" \in Configured => "cryptdevice" \in target.conf
        /\ Goto("validate")
     \/ Over("failed")
  /\ UNCHANGED <<nvram, pre, todo, target>>

-----------------------------------------------------------------------------
(* validate_boot                                                           *)

ConfigValid ==
  /\ "omarchy" \in target.conf
  /\ cfg.flag => "cryptdevice" \in target.conf
  /\ target.cmdline # {}

EfiValid ==
  /\ "own" \in target.loaders
  /\ target.uki # {}
  /\ machine.variables
  /\ Labelled(entries, "limine") # {}

ValidateBoot ==
  /\ pc = "validate"
  /\ IF ConfigValid /\ (machine.uefi => EfiValid) THEN Over("finished") ELSE Over("refused")
  /\ UNCHANGED <<nvram, pre, todo, target>>

-----------------------------------------------------------------------------
\* The user cancels, or the power goes.
Stop == pc # "over" /\ Over("stopped") /\ UNCHANGED <<nvram, pre, todo, target>>

Rest == pc = "over" /\ attempt = MaxAttempts /\ UNCHANGED vars

Next ==
  \/ Start \/ Detect \/ Format
  \/ Configure \/ CopyLoader \/ InstallBios
  \/ ReadBoot \/ DeleteStale \/ Create \/ SetOrder \/ CheckWindows
  \/ WriteDefaults
  \/ InstallPackages \/ Finalize \/ LimineUpdate \/ CheckConfig
  \/ ValidateBoot
  \/ Stop \/ Rest

Spec == Init /\ [][Next]_vars

-----------------------------------------------------------------------------
(* Properties                                                              *)

Steps == {"over", "detect", "format", "configure", "copy", "bios", "read", "delete", "create", "order",
          "windows", "defaults", "packages", "finalize", "update", "check", "validate"}
Loaders == {"own", "fallback", "boot sector"}
Args == {"root", "cryptdevice"} \cup PlatformArgs

\* Types; every stale entry has been tried by the time the new one is made.
TypeOK ==
  /\ machine \in Machines
  /\ attempt \in 0 .. MaxAttempts
  /\ pc \in Steps
  /\ how \in {"none", "failed", "stopped", "refused", "finished"}
  /\ cfg \in Installs
  /\ entries \in EntryTable
  /\ order \in Order
  /\ pre \in [entries : EntryTable, order : Order]
  /\ todo \subseteq Nums
  /\ pc \in {"create", "order", "windows"} => todo = {}
  /\ target \in [loaders : SUBSET Loaders, hook : Loaders \cup {"none"}, cmdline : SUBSET Args,
                 dropin : SUBSET Args, conf : SUBSET {"file", "omarchy", "cryptdevice"}, uki : SUBSET Args]

\* The entries of the machine's other systems.
Others == {n \in Nums : machine.entries[n] # NoEntry /\ "limine" \notin machine.entries[n].words}

Preserved(table, rank) ==
  \A n \in Others :
    /\ table[n] = machine.entries[n]
    /\ machine.order[n] # 0 => rank[n] # 0
    /\ \A m \in Others : machine.order[n] # 0 /\ machine.order[n] < machine.order[m] => rank[n] < rank[m]

\* Whatever is killed or fails, and however often Omarchy is installed, the boot
\* entries of the other systems are not touched, those in BootOrder stay in it,
\* and in the order they had (the keep list of _register_limine_efi_entry).
OthersKept == Preserved(entries, order)

\* Firmware that keeps variables starts the first entry of BootOrder.
StartsFirst(n) ==
  /\ entries[n] # NoEntry /\ order[n] # 0
  /\ \A m \in Nums \ {n} : order[m] = 0 \/ order[n] < order[m]

\* A finished install is the one the firmware starts: its own entry leads
\* BootOrder, no other Limine entry is left beside it, the loader it names is
\* on the ESP, and that copy is the one a later upgrade of limine refreshes.
\* (Firmware that refuses to delete an old entry can keep it from that.)
InstalledStarts ==
  how = "finished" =>
    IF machine.uefi
    THEN /\ target.loaders = {"own"} /\ target.hook = "own"
         /\ \/ machine.stuck
            \/ \E n \in Nums : /\ StartsFirst(n) /\ entries[n].by = attempt
                               /\ Labelled(entries, "limine") = {n}
    ELSE target.loaders = {"boot sector"} /\ target.hook = "boot sector"

\* An image is built from everything the machine needs to find its root: the
\* root itself, the encrypted volume it is on, the platform's arguments, and
\* what was accepted on UEFI has such an image.
BuiltToBoot ==
  /\ pc \in {"check", "validate"} /\ target.uki # {} => RootArgs \cup PlatformArgs \subseteq target.uki
  /\ how = "finished" /\ machine.uefi => RootArgs \cup PlatformArgs \subseteq target.uki
  /\ how = "finished" /\ cfg.encrypted => "cryptdevice" \in target.conf

\* Once the disk may be written, the medium has every package of the machine's
\* profile (prepare_live: reject the wrong media before disk cleanup).
ProfileServed == pc \notin {"over", "detect"} => Packages \subseteq Offline

\* Not so: where the firmware keeps no variables it boots the fallback path,
\* and validate_boot lets a system through that is complete there.
FallbackAccepted ==
  how = "refused" /\ Removable /\ cfg.flag = cfg.encrypted =>
    ~ /\ "fallback" \in target.loaders
      /\ "omarchy" \in target.conf
      /\ RootArgs \cup PlatformArgs \subseteq target.uki
=============================================================================
