-------------------------- MODULE LimineBootProofs --------------------------
(***************************************************************************)
(* The safety properties of LimineBoot for any machines, any manifests and *)
(* any number of installations.                                            *)
(***************************************************************************)
EXTENDS LimineBoot, TLAPS

Registering == {"delete", "create", "order", "windows"}
Finishing == {"packages", "finalize", "update", "check", "validate"}
Updating == {"update", "check", "validate"}

\* Where this attempt's loader goes.
Place == IF machine.uefi THEN LoaderPath ELSE "boot sector"
Loaded == [Blank EXCEPT !.loaders = {Place}, !.hook = Place]

\* The profile was accepted before the disk was touched.
Served == pc \notin {"over", "detect"} => ~ Refused

\* Which steps are for which firmware and which kind of install.
Routed ==
  /\ pc # "over" => (cfg.protected => machine.uefi)
  /\ pc = "bios" => ~ machine.uefi
  /\ pc \in {"copy", "read"} \cup Registering => machine.uefi
  /\ pc \in {"read"} \cup Registering => ~ Removable

\* How far the disk is.
Made ==
  /\ pc \in {"configure", "bios", "copy"} => target = Blank
  /\ pc = "read" => target = IF cfg.protected THEN Blank ELSE Loaded
  /\ pc \in Registering \cup {"defaults"} => target = Loaded
  /\ pc \in Finishing /\ target.cmdline # {} =>
       target.cmdline = RootArgs /\ target.loaders = {Place} /\ target.hook = Place
  /\ pc \in Updating => target.cmdline # {} /\ target.dropin = PlatformArgs
  /\ pc \in {"check", "validate"} => target.uki \in {{}, RootArgs \cup PlatformArgs}
  /\ pc = "validate" /\ cfg.encrypted => "cryptdevice" \in target.conf

\* What is still to be deleted belongs to no other system.
Sparing ==
  /\ Preserved(entries, order)
  /\ Preserved(pre.entries, pre.order)
  /\ todo \cap Others = {}

\* The new entry is the first to be started, and the only one of Limine.
Leads ==
  \E n \in Nums : /\ StartsFirst(n) /\ entries[n].by = attempt
                  /\ Labelled(entries, "limine") = {n}

\* How far the boot list is, where every deletion works.
Listed ==
  ~ machine.stuck =>
    /\ pc = "delete" \/ (pc = "copy" /\ cfg.protected) => Labelled(entries, "limine") \subseteq todo
    /\ pc = "create" => Labelled(entries, "limine") = {}
    /\ pc = "order" => \A n \in Labelled(entries, "limine") :
                         entries[n].by = attempt /\ Labelled(entries, "limine") = {n}
    /\ pc = "windows" => Leads
    /\ pc \in {"defaults"} \cup Finishing /\ "own" \in target.loaders => Leads

IInv ==
  /\ TypeOK
  /\ how = "finished" => pc = "over"
  /\ Served /\ Routed /\ Made /\ Sparing /\ Listed
  /\ InstalledStarts /\ BuiltToBoot

-----------------------------------------------------------------------------
\* An entry that exists is not the empty one.
LEMMA NoEntryNew == \A e \in Entry : e # NoEntry
  BY LimineAssumption DEF Entry, NoEntry

\* The entry an attempt makes.
LEMMA OwnEntry ==
  ASSUME attempt \in 0 .. MaxAttempts
  PROVE  [words |-> {"limine"}, by |-> attempt] \in Entry
  BY DEF Entry, Words

\* A profile that is not refused asks only for packages of the medium.
LEMMA ServedPackages == ~ Refused => Packages \subseteq Offline
  <1> SUFFICES ASSUME ~ Refused, NEW p \in Packages PROVE p \in Offline
    OBVIOUS
  <1> DEFINE m == machine.manifest
             k == CHOOSE i \in DOMAIN m : machine.identity \in m[i].match
  <1>1. machine.arm /\ Matching(m, machine.identity) # {}
    BY DEF Packages, ProfilePackages
  <1>2. k \in DOMAIN m /\ machine.identity \in m[k].match
    BY <1>1 DEF Matching
  <1>3. p \in m[k].packages
    BY <1>1 DEF Packages, ProfilePackages, Selected
  <1>4. m[k].media = machine.media
    BY <1>1 DEF Refused, Rejected, Selected
  <1> QED BY <1>1, <1>2, <1>3, <1>4 DEF Offline, OfflinePackages

\* The initial states satisfy the inductive invariant.
LEMMA InitIInv == Init => IInv
  <1> SUFFICES ASSUME Init PROVE IInv
    OBVIOUS
  <1>1. machine.entries \in EntryTable /\ machine.order \in Order
    BY LimineAssumption DEF Init
  <1>2. target \in [loaders : SUBSET Loaders, hook : Loaders \cup {"none"}, cmdline : SUBSET Args,
                    dropin : SUBSET Args, conf : SUBSET {"file", "omarchy", "cryptdevice"}, uki : SUBSET Args]
    BY DEF Init, Blank
  <1>3. TypeOK
    BY <1>1, <1>2, LimineAssumption DEF Init, TypeOK, Steps
  <1>4. Sparing
    BY <1>1 DEF Init, Sparing, Preserved, Others
  <1> QED
    BY <1>3, <1>4
    DEF Init, IInv, Served, Routed, Made, Listed, InstalledStarts, BuiltToBoot, Registering, Finishing, Updating

\* Every step keeps the types.
LEMMA TypeNext == IInv /\ [Next]_vars => TypeOK'
  <1> SUFFICES ASSUME IInv, [Next]_vars PROVE TypeOK'
    OBVIOUS
  <1>0. TypeOK
    BY DEF IInv
  <1>a. UNCHANGED machine /\ Loaders' = Loaders /\ Args' = Args
    BY DEF Next, vars, Start, Detect, Format, Configure, CopyLoader, InstallBios, ReadBoot, DeleteStale,
           Create, SetOrder, CheckWindows, WriteDefaults, InstallPackages, Finalize, LimineUpdate,
           CheckConfig, ValidateBoot, Stop, Rest, Goto, Over, Then, Failed, Loaders, Args, PlatformArgs
  <1>b. CASE UNCHANGED <<nvram, pre, todo, target>> /\ (\E p \in Steps \ {"create", "order", "windows"} : pc' = p)
             /\ cfg' \in Installs /\ attempt' \in 0 .. MaxAttempts
             /\ how' \in {"none", "failed", "stopped", "refused", "finished"}
    BY <1>0, <1>a, <1>b DEF TypeOK, nvram
  <1> USE <1>0, <1>a DEF TypeOK
  <1>1. CASE Start
    BY <1>1, <1>b, LimineAssumption DEF Start, Steps
  <1>2. CASE Detect
    BY <1>2, <1>b DEF Detect, Goto, Over, Steps
  <1>3. CASE Format
    BY <1>3 DEF Format, Goto, Over, Then, Blank, nvram, Steps
  <1>4. CASE Configure
    BY <1>4, <1>b DEF Configure, Goto, Over, Steps
  <1>5. CASE CopyLoader
    <2>1. CASE Failed
      BY <2>1, <1>b DEF Failed, Over, Steps
    <2>2. CASE target' = [target EXCEPT !.loaders = @ \cup {LoaderPath}, !.hook = LoaderPath]
      BY <2>2, <1>5 DEF CopyLoader, Failed, Goto, Over, nvram, Steps, LoaderPath, Loaders
    <2> QED BY <1>5, <2>1, <2>2 DEF CopyLoader
  <1>6. CASE InstallBios
    <2>1. CASE Failed
      BY <2>1, <1>b DEF Failed, Over, Steps
    <2>2. CASE target' = [target EXCEPT !.loaders = @ \cup {"boot sector"}, !.hook = "boot sector"]
      BY <2>2, <1>6 DEF InstallBios, Failed, Goto, Over, nvram, Steps, Loaders
    <2> QED BY <1>6, <2>1, <2>2 DEF InstallBios
  <1>7. CASE ReadBoot
    BY <1>7 DEF ReadBoot, Failed, Goto, Over, nvram, Steps, Labelled
  <1>8. CASE DeleteStale
    <2>1. CASE todo = {} /\ Goto("create") /\ UNCHANGED <<nvram, todo>>
      BY <2>1, <1>8 DEF DeleteStale, Goto, nvram, Steps
    <2>2. CASE \E n \in todo :
                 /\ todo' = todo \ {n}
                 /\ \/ entries' = [entries EXCEPT ![n] = NoEntry] /\ order' = [order EXCEPT ![n] = 0]
                    \/ machine.stuck /\ UNCHANGED nvram
                 /\ Goto("delete")
      BY <2>2, <1>8 DEF DeleteStale, Goto, nvram, Steps, EntryTable, Order
    <2> QED BY <1>8, <2>1, <2>2 DEF DeleteStale
  <1>9. CASE Create
    <2>1. entries' \in EntryTable
      BY <1>9, OwnEntry DEF Create, nvram, EntryTable
    <2>2. order' \in Order
      BY <1>9 DEF Create, nvram, Order
    <2> QED BY <1>9, <2>1, <2>2 DEF Create, Then, Goto, Over, Steps
  <1>10. CASE SetOrder
    <2>1. order' \in Order
      BY <1>10 DEF SetOrder, Failed, nvram, Order
    <2> QED BY <1>10, <2>1 DEF SetOrder, Failed, Goto, Over, nvram, Steps
  <1>11. CASE CheckWindows
    BY <1>11, <1>b DEF CheckWindows, Goto, Over, Steps
  <1>12. CASE WriteDefaults
    <2>1. CASE Failed
      BY <2>1, <1>b DEF Failed, Over, Steps
    <2>2. CASE target' = [target EXCEPT !.cmdline = RootArgs, !.conf = {"file"}]
      <3>1. RootArgs \in SUBSET Args
        BY DEF RootArgs, Args
      <3> QED BY <2>2, <3>1, <1>12 DEF WriteDefaults, Failed, Goto, Over, nvram, Steps
    <2> QED BY <1>12, <2>1, <2>2 DEF WriteDefaults
  <1>13. CASE InstallPackages
    BY <1>13, <1>b DEF InstallPackages, Goto, Over, Steps
  <1>14. CASE Finalize
    BY <1>14 DEF Finalize, Failed, Goto, Over, nvram, Steps, Args
  <1>15. CASE LimineUpdate
    <2>1. PICK conf \in SUBSET ({"omarchy"} \cup (Configured \cap {"cryptdevice"})), uki \in {Configured, {}} :
            target' = [target EXCEPT !.conf = @ \cup conf, !.uki = uki]
      BY <1>15 DEF LimineUpdate
    <2>2. conf \subseteq {"file", "omarchy", "cryptdevice"} /\ uki \subseteq Args
      BY DEF Configured
    <2> QED BY <2>1, <2>2, <1>15 DEF LimineUpdate, Then, Goto, Over, nvram, Steps
  <1>16. CASE CheckConfig
    BY <1>16, <1>b DEF CheckConfig, Goto, Over, Steps
  <1>17. CASE ValidateBoot
    BY <1>17, <1>b DEF ValidateBoot, Over, Steps
  <1>18. CASE Stop
    BY <1>18, <1>b DEF Stop, Over, Steps
  <1>19. CASE UNCHANGED vars
    BY <1>19 DEF vars, nvram
  <1> QED
    BY <1>1, <1>2, <1>3, <1>4, <1>5, <1>6, <1>7, <1>8, <1>9, <1>10, <1>11, <1>12, <1>13, <1>14, <1>15,
       <1>16, <1>17, <1>18, <1>19 DEF Next, Rest
\* The machine stays what it is.
LEMMA MachineNext == [Next]_vars => UNCHANGED machine
  BY DEF Next, vars, Start, Detect, Format, Configure, CopyLoader, InstallBios, ReadBoot, DeleteStale,
         Create, SetOrder, CheckWindows, WriteDefaults, InstallPackages, Finalize, LimineUpdate,
         CheckConfig, ValidateBoot, Stop, Rest, Goto, Over, Then, Failed

\* No entry of another system is one that mentions Limine.
LEMMA OthersApart ==
  ASSUME NEW table, NEW rank, Preserved(table, rank)
  PROVE  Labelled(table, "limine") \cap Others = {}
  BY DEF Preserved, Labelled, Others

\* No step touches what belongs to the other systems, in the boot list or in
\* what was read of it.
LEMMA SparingNext == IInv /\ [Next]_vars => Sparing'
  <1> SUFFICES ASSUME IInv, [Next]_vars PROVE Sparing'
    OBVIOUS
  <1>0. TypeOK /\ Sparing
    BY DEF IInv
  <1>m. machine' = machine
    BY MachineNext
  <1>o. Others' = Others /\ Others \subseteq Nums
    BY <1>m DEF Others
  <1>u. CASE UNCHANGED <<nvram, pre, todo>>
    BY <1>u, <1>0, <1>m, <1>o DEF Sparing, Preserved, nvram
  <1>1. CASE ReadBoot
    <2>1. CASE Failed
      BY <2>1, <1>u DEF Failed
    <2>2. CASE pre' = [entries |-> entries, order |-> order] /\ todo' = Labelled(entries, "limine") /\ UNCHANGED nvram
      <3>1. todo' \cap Others = {}
        BY <2>2, <1>0, OthersApart DEF Sparing
      <3> QED BY <2>2, <3>1, <1>0, <1>m, <1>o DEF Sparing, Preserved, nvram
    <2> QED BY <1>1, <2>1, <2>2 DEF ReadBoot, nvram
  <1>2. CASE DeleteStale
    <2>1. CASE UNCHANGED <<nvram, todo>>
      BY <2>1, <1>2, <1>u DEF DeleteStale
    <2>2. CASE \E n \in todo :
                 /\ todo' = todo \ {n}
                 /\ \/ entries' = [entries EXCEPT ![n] = NoEntry] /\ order' = [order EXCEPT ![n] = 0]
                    \/ machine.stuck /\ UNCHANGED nvram
      <3>1. PICK n \in todo :
              /\ todo' = todo \ {n}
              /\ \/ entries' = [entries EXCEPT ![n] = NoEntry] /\ order' = [order EXCEPT ![n] = 0]
                 \/ UNCHANGED nvram
        BY <2>2
      <3>2. n \notin Others
        BY <1>0 DEF Sparing
      <3>3. \A m \in Others : entries'[m] = entries[m] /\ order'[m] = order[m]
        BY <3>1, <3>2, <1>0, <1>o DEF TypeOK, EntryTable, Order, nvram
      <3>4. pre' = pre /\ todo' \subseteq todo
        BY <3>1, <1>2 DEF DeleteStale
      <3>5. Preserved(entries, order)'
        BY <3>3, <1>0, <1>m, <1>o DEF Sparing, Preserved
      <3> QED BY <3>4, <3>5, <1>0, <1>m, <1>o DEF Sparing, Preserved
    <2> QED BY <1>2, <2>1, <2>2 DEF DeleteStale
  <1>3. CASE Create
    <2>1. CASE UNCHANGED nvram
      BY <2>1, <1>3, <1>u DEF Create
    <2>2. CASE \E n \in Nums \ Present :
                 /\ entries' = [entries EXCEPT ![n] = [words |-> {"limine"}, by |-> attempt]]
                 /\ order' = [m \in Nums |-> IF m = n THEN 1 ELSE IF order[m] = 0 THEN 0 ELSE order[m] + 1]
      <3>1. PICK n \in Nums \ Present :
              /\ entries' = [entries EXCEPT ![n] = [words |-> {"limine"}, by |-> attempt]]
              /\ order' = [m \in Nums |-> IF m = n THEN 1 ELSE IF order[m] = 0 THEN 0 ELSE order[m] + 1]
        BY <2>2
      <3>2. n \notin Others
        BY <1>0 DEF Sparing, Preserved, Present, Others
      <3>3. \A m \in Others : entries'[m] = entries[m]
        BY <3>1, <3>2, <1>0, <1>o DEF TypeOK, EntryTable
      <3>4. \A m \in Others : order[m] \in Nat /\ order'[m] = IF order[m] = 0 THEN 0 ELSE order[m] + 1
        BY <3>1, <3>2, <1>0, <1>o DEF TypeOK, Order
      <3>5. Preserved(entries, order)'
        BY <3>3, <3>4, <1>0, <1>m, <1>o DEF Sparing, Preserved
      <3> QED BY <3>5, <1>3, <1>0, <1>m, <1>o DEF Sparing, Preserved, Create
    <2> QED BY <1>3, <2>1, <2>2 DEF Create
  <1>4. CASE SetOrder
    <2>1. CASE Failed
      BY <2>1, <1>u DEF Failed
    <2>2. CASE ~ Failed
      <3>1. PICK num \in Labelled(entries, "limine") :
              /\ order' = [n \in Nums |-> IF n = num THEN 1 ELSE IF n \in Kept(num) THEN pre.order[n] + 1 ELSE 0]
              /\ UNCHANGED <<entries, pre, todo, target>>
        BY <1>4, <2>2 DEF SetOrder
      <3>2. num \notin Others
        BY <1>0, OthersApart DEF Sparing
      <3>3. \A n \in Others : pre.order[n] \in Nat /\ pre.entries[n] # NoEntry /\ n \notin Labelled(pre.entries, "limine")
        BY <1>0, <1>o, OthersApart DEF Sparing, Preserved, Others, TypeOK, Order
      <3>4. \A n \in Others : order'[n] = IF pre.order[n] # 0 THEN pre.order[n] + 1 ELSE 0
        BY <3>1, <3>2, <3>3, <1>o DEF Kept
      <3>5. \A n, m \in Others : machine.order[n] # 0 =>
               pre.order[n] # 0 /\ (machine.order[n] < machine.order[m] => pre.order[n] < pre.order[m])
        BY <1>0 DEF Sparing, Preserved
      <3>6. \A n, m \in Others : machine.order[n] # 0 =>
               order'[n] # 0 /\ (machine.order[n] < machine.order[m] => order'[n] < order'[m])
        <4> SUFFICES ASSUME NEW n \in Others, NEW m \in Others, machine.order[n] # 0
                     PROVE  order'[n] # 0 /\ (machine.order[n] < machine.order[m] => order'[n] < order'[m])
          OBVIOUS
        <4> QED BY <3>3, <3>4, <3>5
      <3>7. \A n \in Others : entries'[n] = machine.entries[n]
        BY <3>1, <1>0 DEF Sparing, Preserved
      <3>8. Preserved(entries, order)'
        BY <3>6, <3>7, <1>m, <1>o DEF Preserved
      <3> QED BY <3>1, <3>8, <1>0, <1>m, <1>o DEF Sparing, Preserved
    <2> QED BY <2>1, <2>2
  <1>5. CASE UNCHANGED vars
    BY <1>5, <1>u DEF vars
  <1> QED
    BY <1>1, <1>2, <1>3, <1>4, <1>5, <1>u
    DEF Next, Start, Detect, Format, Configure, CopyLoader, InstallBios, CheckWindows, WriteDefaults,
        InstallPackages, Finalize, LimineUpdate, CheckConfig, ValidateBoot, Stop, Rest, Failed
\* A running attempt keeps what it was asked for.
LEMMA RunningNext ==
  [Next]_vars /\ ~ Start =>
    UNCHANGED <<machine, attempt, cfg>> /\ RootArgs' = RootArgs /\ PlatformArgs' = PlatformArgs
    /\ Place' = Place /\ Loaded' = Loaded /\ Removable' = Removable /\ Refused' = Refused
  <1>1. [Next]_vars /\ ~ Start => UNCHANGED <<machine, attempt, cfg>>
    BY DEF Next, vars, Detect, Format, Configure, CopyLoader, InstallBios, ReadBoot, DeleteStale,
           Create, SetOrder, CheckWindows, WriteDefaults, InstallPackages, Finalize, LimineUpdate,
           CheckConfig, ValidateBoot, Stop, Rest, Goto, Over, Then, Failed
  <1> QED BY <1>1 DEF RootArgs, PlatformArgs, Place, Loaded, LoaderPath, Removable, Refused

\* The disk is written only after the profile was accepted.
LEMMA ServedNext == IInv /\ [Next]_vars => Served'
  <1> SUFFICES ASSUME Served, [Next]_vars PROVE Served'
    BY DEF IInv
  <1>1. CASE Start
    BY <1>1 DEF Start, Served
  <1>2. CASE ~ Start
    <2>1. Refused' = Refused
      BY <1>2, RunningNext
    <2> QED BY <1>2, <2>1
        DEF Served, Next, vars, Detect, Format, Configure, CopyLoader, InstallBios, ReadBoot, DeleteStale,
            Create, SetOrder, CheckWindows, WriteDefaults, InstallPackages, Finalize, LimineUpdate,
            CheckConfig, ValidateBoot, Stop, Rest, Goto, Over, Then, Failed
  <1> QED BY <1>1, <1>2

\* Each kind of machine and of install takes its own path.
LEMMA RoutedNext == IInv /\ [Next]_vars => Routed'
  <1> SUFFICES ASSUME Routed, [Next]_vars PROVE Routed'
    BY DEF IInv
  <1>1. CASE Start
    BY <1>1 DEF Start, Routed, Registering
  <1>2. CASE ~ Start
    <2>1. UNCHANGED <<machine, cfg>> /\ Removable' = Removable
      BY <1>2, RunningNext
    <2>2. Removable => ~ cfg.protected
      BY DEF Removable
    <2> QED BY <1>2, <2>1, <2>2
        DEF Routed, Registering, Next, vars, Detect, Format, Configure, CopyLoader, InstallBios, ReadBoot,
            DeleteStale, Create, SetOrder, CheckWindows, WriteDefaults, InstallPackages, Finalize, LimineUpdate,
            CheckConfig, ValidateBoot, Stop, Rest, Goto, Over, Then, Failed
  <1> QED BY <1>1, <1>2

\* Every step leaves the disk as its place in the sequence promises.
LEMMA MadeNext == IInv /\ [Next]_vars => Made'
  <1> SUFFICES ASSUME IInv, [Next]_vars PROVE Made'
    OBVIOUS
  <1>0. TypeOK /\ Routed /\ Made
    BY DEF IInv
  <1> USE DEF Registering, Finishing, Updating
  <1>1. CASE Start
    BY <1>1 DEF Start, Made
  <1>o. CASE pc' \in {"over", "detect", "format"}
    BY <1>o DEF Made
  <1>r. ~ Start => /\ UNCHANGED <<machine, attempt, cfg>> /\ RootArgs' = RootArgs /\ PlatformArgs' = PlatformArgs
                   /\ Place' = Place /\ Loaded' = Loaded /\ Removable' = Removable
    BY RunningNext
  <1>t. target \in [loaders : SUBSET Loaders, hook : Loaders \cup {"none"}, cmdline : SUBSET Args,
                    dropin : SUBSET Args, conf : SUBSET {"file", "omarchy", "cryptdevice"}, uki : SUBSET Args]
    BY <1>0 DEF TypeOK
  <1>2. CASE Detect
    BY <1>2, <1>o DEF Detect, Goto, Over
  <1>3. CASE Format
    BY <1>3 DEF Format, Then, Goto, Over, Made
  <1>4. CASE Configure
    <2>1. target' = target /\ cfg' = cfg /\ Loaded' = Loaded
      BY <1>4, <1>r DEF Configure, Start
    <2>2. target = Blank
      BY <1>4, <1>0 DEF Configure, Made
    <2> QED BY <1>4, <2>1, <2>2 DEF Configure, Goto, Over, Made, Blank
  <1>5. CASE CopyLoader
    <2>1. CASE Failed
      BY <2>1, <1>o DEF Failed, Over
    <2>2. CASE ~ Failed
      <3>1. target = Blank /\ machine.uefi
        BY <1>5, <1>0 DEF CopyLoader, Made, Routed
      <3>2. target' = [target EXCEPT !.loaders = @ \cup {LoaderPath}, !.hook = LoaderPath]
        BY <1>5, <2>2 DEF CopyLoader
      <3>3. target' = Loaded
        BY <3>1, <3>2 DEF Loaded, Place, Blank
      <3> QED BY <3>3, <1>5, <1>r, <2>2 DEF CopyLoader, Goto, Made, Removable, Start
    <2> QED BY <2>1, <2>2
  <1>6. CASE InstallBios
    <2>1. CASE Failed
      BY <2>1, <1>o DEF Failed, Over
    <2>2. CASE ~ Failed
      <3>1. target = Blank /\ ~ machine.uefi
        BY <1>6, <1>0 DEF InstallBios, Made, Routed
      <3>2. target' = [target EXCEPT !.loaders = @ \cup {"boot sector"}, !.hook = "boot sector"]
        BY <1>6, <2>2 DEF InstallBios
      <3>3. target' = Loaded
        BY <3>1, <3>2 DEF Loaded, Place, Blank
      <3> QED BY <3>3, <1>6, <1>r, <2>2 DEF InstallBios, Goto, Made, Start
    <2> QED BY <2>1, <2>2
  <1>7. CASE ReadBoot
    BY <1>7, <1>0, <1>r DEF ReadBoot, Failed, Goto, Over, Made, Start
  <1>8. CASE DeleteStale
    BY <1>8, <1>0, <1>r DEF DeleteStale, Goto, Made, Start
  <1>9. CASE Create
    BY <1>9, <1>0, <1>r DEF Create, Then, Goto, Over, Made, Start
  <1>10. CASE SetOrder
    BY <1>10, <1>0, <1>r DEF SetOrder, Failed, Goto, Over, Made, Start
  <1>11. CASE CheckWindows
    BY <1>11, <1>0, <1>r DEF CheckWindows, Goto, Over, Made, Start
  <1>12. CASE WriteDefaults
    <2>1. CASE Failed
      BY <2>1, <1>o DEF Failed, Over
    <2>2. CASE ~ Failed
      <3>1. target = Loaded
        BY <1>12, <1>0 DEF WriteDefaults, Made
      <3>2. target' = [target EXCEPT !.cmdline = RootArgs, !.conf = {"file"}] /\ pc' = "packages"
        BY <1>12, <2>2 DEF WriteDefaults, Goto
      <3>3. target'.cmdline = RootArgs /\ target'.loaders = {Place} /\ target'.hook = Place
        BY <3>1, <3>2 DEF Loaded, Blank
      <3> QED BY <3>2, <3>3, <1>12, <1>r DEF Made, WriteDefaults, Start
    <2> QED BY <2>1, <2>2
  <1>13. CASE InstallPackages
    BY <1>13, <1>0, <1>r DEF InstallPackages, Goto, Over, Made, Start
  <1>14. CASE Finalize
    <2>1. CASE Failed
      BY <2>1, <1>o DEF Failed, Over
    <2>2. CASE ~ Failed
      <3>1. target' = [target EXCEPT !.dropin = PlatformArgs] /\ pc' = "update" /\ target.cmdline # {}
        BY <1>14, <2>2 DEF Finalize, Goto
      <3>2. target'.cmdline = target.cmdline /\ target'.loaders = target.loaders /\ target'.hook = target.hook
            /\ target'.dropin = PlatformArgs
        BY <3>1, <1>t
      <3> QED BY <3>1, <3>2, <1>14, <1>0, <1>r DEF Made, Finalize, Start
    <2> QED BY <2>1, <2>2
  <1>15. CASE LimineUpdate
    <2>1. PICK conf \in SUBSET ({"omarchy"} \cup (Configured \cap {"cryptdevice"})), uki \in {Configured, {}} :
            target' = [target EXCEPT !.conf = @ \cup conf, !.uki = uki]
      BY <1>15 DEF LimineUpdate
    <2>2. target'.cmdline = target.cmdline /\ target'.loaders = target.loaders /\ target'.hook = target.hook
          /\ target'.dropin = target.dropin /\ target'.uki = uki
      BY <2>1, <1>t
    <2>3. target.cmdline = RootArgs /\ Configured = RootArgs \cup PlatformArgs
      BY <1>15, <1>0 DEF LimineUpdate, Made, Configured
    <2> QED BY <2>2, <2>3, <1>15, <1>0, <1>r DEF Made, LimineUpdate, Then, Goto, Over, Start
  <1>16. CASE CheckConfig
    <2>1. CASE Over("failed")
      BY <2>1, <1>o DEF Over
    <2>2. CASE ~ Over("failed")
      <3>1. pc' = "validate" /\ target' = target /\ ("cryptdevice" \in Configured => "cryptdevice" \in target.conf)
        BY <1>16, <2>2 DEF CheckConfig, Goto
      <3>2. cfg.encrypted => "cryptdevice" \in Configured
        BY <1>16, <1>0 DEF CheckConfig, Made, Configured, RootArgs
      <3> QED BY <3>1, <3>2, <1>16, <1>0, <1>r DEF Made, CheckConfig, Start
    <2> QED BY <2>1, <2>2
  <1>17. CASE ValidateBoot
    BY <1>17, <1>o DEF ValidateBoot, Over
  <1>18. CASE Stop
    BY <1>18, <1>o DEF Stop, Over
  <1>19. CASE UNCHANGED vars
    BY <1>19, <1>0 DEF vars, Made, Loaded, Place, LoaderPath, Removable, RootArgs, PlatformArgs
  <1> QED
    BY <1>1, <1>2, <1>3, <1>4, <1>5, <1>6, <1>7, <1>8, <1>9, <1>10, <1>11, <1>12, <1>13, <1>14, <1>15,
       <1>16, <1>17, <1>18, <1>19 DEF Next, Rest
\* Where every deletion works, no entry of an earlier Limine outlives the
\* registration, and the new one ends up in front.
LEMMA ListedNext == IInv /\ [Next]_vars => Listed'
  <1> SUFFICES ASSUME IInv, [Next]_vars, ~ machine.stuck PROVE Listed'
    BY MachineNext DEF Listed
  <1>0. TypeOK /\ Made /\ Listed /\ Routed
    BY DEF IInv
  <1> USE DEF Registering, Finishing
  <1>o. CASE pc' \in {"over", "detect", "format", "configure", "bios", "read"}
    BY <1>o DEF Listed
  <1>r. ~ Start => UNCHANGED <<machine, attempt, cfg>>
    BY RunningNext
  <1>u. UNCHANGED <<nvram, attempt>> => Leads' = Leads /\ Labelled(entries, "limine")' = Labelled(entries, "limine")
    BY DEF Leads, StartsFirst, Labelled, nvram
  <1>1. CASE Start
    BY <1>1, <1>o DEF Start
  <1>2. CASE Detect
    BY <1>2, <1>o DEF Detect, Goto, Over
  <1>3. CASE Format
    BY <1>3, <1>o DEF Format, Then, Goto, Over
  <1>4. CASE Configure
    <2>1. target' = target /\ "own" \notin target.loaders
      BY <1>4, <1>0 DEF Configure, Made, Blank
    <2> QED BY <1>4, <2>1 DEF Configure, Goto, Over, Listed
  <1>5. CASE CopyLoader
    <2>1. CASE Failed
      BY <2>1, <1>o DEF Failed, Over
    <2>2. CASE ~ Failed
      <3>1. pc' = "defaults" => "own" \notin target'.loaders
        <4>1. target = Blank
          BY <1>5, <1>0 DEF CopyLoader, Made
        <4>2. target' = [target EXCEPT !.loaders = @ \cup {LoaderPath}, !.hook = LoaderPath]
          BY <1>5, <2>2 DEF CopyLoader
        <4>3. target'.loaders = {LoaderPath}
          BY <4>1, <4>2 DEF Blank
        <4>4. pc' = "defaults" => Removable
          BY <1>5, <2>2 DEF CopyLoader, Goto
        <4> QED BY <4>3, <4>4 DEF LoaderPath
      <3>2. pc' = "delete" => cfg.protected
        BY <1>5, <2>2 DEF CopyLoader, Goto
      <3> QED BY <3>1, <3>2, <1>5, <1>0, <1>r, <1>u, <2>2 DEF CopyLoader, Goto, Listed, nvram, Start
    <2> QED BY <2>1, <2>2
  <1>6. CASE InstallBios
    <2>1. CASE Failed
      BY <2>1, <1>o DEF Failed, Over
    <2>2. CASE ~ Failed
      <3>1. target = Blank
        BY <1>6, <1>0 DEF InstallBios, Made
      <3>2. target' = [target EXCEPT !.loaders = @ \cup {"boot sector"}, !.hook = "boot sector"]
        BY <1>6, <2>2 DEF InstallBios
      <3>3. "own" \notin target'.loaders
        BY <3>1, <3>2 DEF Blank
      <3> QED BY <3>3, <1>6, <2>2 DEF InstallBios, Goto, Listed
    <2> QED BY <2>1, <2>2
  <1>7. CASE ReadBoot
    <2>1. CASE Failed
      BY <2>1, <1>o DEF Failed, Over
    <2>2. CASE ~ Failed
      BY <2>2, <1>7, <1>u, <1>r DEF ReadBoot, Goto, Listed, nvram, Labelled
    <2> QED BY <2>1, <2>2
  <1>8. CASE DeleteStale
    <2>0. Labelled(entries, "limine") \subseteq todo
      BY <1>8, <1>0 DEF DeleteStale, Listed
    <2>1. CASE todo = {} /\ Goto("create") /\ UNCHANGED <<nvram, todo>>
      BY <2>0, <2>1, <1>u DEF Goto, Listed
    <2>2. CASE \E n \in todo :
                 /\ todo' = todo \ {n}
                 /\ entries' = [entries EXCEPT ![n] = NoEntry]
                 /\ Goto("delete")
      <3>1. PICK n \in todo : todo' = todo \ {n} /\ entries' = [entries EXCEPT ![n] = NoEntry] /\ Goto("delete")
        BY <2>2
      <3>2. Labelled(entries, "limine")' \subseteq todo'
        BY <3>1, <2>0, <1>0 DEF Labelled, TypeOK, EntryTable
      <3> QED BY <3>1, <3>2 DEF Goto, Listed
    <2> QED BY <1>8, <2>1, <2>2 DEF DeleteStale
  <1>9. CASE Create
    <2>1. CASE Over("failed")
      BY <2>1, <1>o DEF Over
    <2>2. CASE Goto("order")
      <3>0. Labelled(entries, "limine") = {}
        BY <1>9, <1>0 DEF Create, Listed
      <3>1. CASE UNCHANGED nvram
        BY <3>0, <3>1, <2>2, <1>u DEF Goto, Listed
      <3>2. CASE \E n \in Nums \ Present :
                   entries' = [entries EXCEPT ![n] = [words |-> {"limine"}, by |-> attempt]]
        <4>1. PICK n \in Nums : entries' = [entries EXCEPT ![n] = [words |-> {"limine"}, by |-> attempt]]
          BY <3>2
        <4>2. entries'[n] = [words |-> {"limine"}, by |-> attempt] /\ \A m \in Nums \ {n} : entries'[m] = entries[m]
          BY <4>1, <1>0 DEF TypeOK, EntryTable
        <4>3. entries'[n] # NoEntry
          BY <4>2, OwnEntry, NoEntryNew, <1>0 DEF TypeOK
        <4>4. Labelled(entries, "limine")' = {n}
          BY <4>2, <4>3, <3>0 DEF Labelled
        <4> QED BY <4>2, <4>4, <2>2 DEF Goto, Listed
      <3> QED BY <1>9, <3>1, <3>2 DEF Create
    <2> QED BY <1>9, <2>1, <2>2 DEF Create, Then
  <1>10. CASE SetOrder
    <2>1. CASE Failed
      BY <2>1, <1>o DEF Failed, Over
    <2>2. CASE ~ Failed
      <3>1. PICK num \in Labelled(entries, "limine") :
              order' = [n \in Nums |-> IF n = num THEN 1 ELSE IF n \in Kept(num) THEN pre.order[n] + 1 ELSE 0]
        BY <1>10, <2>2 DEF SetOrder
      <3>2. entries' = entries /\ attempt' = attempt /\ num \in Nums /\ entries[num] # NoEntry
        BY <3>1, <1>10, <2>2 DEF SetOrder, Goto, Labelled
      <3>3. entries[num].by = attempt /\ Labelled(entries, "limine") = {num}
        BY <3>1, <1>10, <1>0 DEF SetOrder, Listed
      <3>4. \A m \in Nums \ {num} : order'[m] = 0 \/ 1 < order'[m]
        <4>1. \A m \in Kept(num) : pre.order[m] \in Nat \ {0}
          BY <1>0 DEF Kept, TypeOK, Order
        <4> QED BY <3>1, <4>1
      <3>5. order'[num] = 1
        BY <3>1, <3>2
      <3>6. StartsFirst(num)'
        BY <3>2, <3>4, <3>5 DEF StartsFirst
      <3>7. Labelled(entries, "limine")' = {num}
        BY <3>2, <3>3 DEF Labelled
      <3>8. Leads'
        BY <3>2, <3>3, <3>6, <3>7 DEF Leads
      <3> QED BY <3>8, <1>10, <2>2 DEF SetOrder, Goto, Listed
    <2> QED BY <2>1, <2>2
  <1>11. CASE CheckWindows
    BY <1>11, <1>0, <1>r, <1>u, <1>o DEF CheckWindows, Goto, Over, Listed
  <1>t. target \in [loaders : SUBSET Loaders, hook : Loaders \cup {"none"}, cmdline : SUBSET Args,
                    dropin : SUBSET Args, conf : SUBSET {"file", "omarchy", "cryptdevice"}, uki : SUBSET Args]
    BY <1>0 DEF TypeOK
  <1>f. CASE /\ pc \in {"defaults"} \cup Finishing /\ pc' \in Finishing
             /\ target'.loaders = target.loaders /\ UNCHANGED <<nvram, attempt>>
    BY <1>f, <1>0, <1>u DEF Listed
  <1>12. CASE WriteDefaults
    <2>1. CASE Failed
      BY <2>1, <1>o DEF Failed, Over
    <2>2. CASE ~ Failed
      <3>1. target' = [target EXCEPT !.cmdline = RootArgs, !.conf = {"file"}] /\ pc' = "packages"
        BY <1>12, <2>2 DEF WriteDefaults, Goto
      <3>2. target'.loaders = target.loaders
        BY <3>1, <1>t
      <3> QED BY <3>1, <3>2, <1>12, <2>2, <1>f DEF WriteDefaults, Goto
    <2> QED BY <2>1, <2>2
  <1>13. CASE InstallPackages
    BY <1>13, <1>o, <1>f DEF InstallPackages, Goto, Over
  <1>14. CASE Finalize
    <2>1. CASE Failed
      BY <2>1, <1>o DEF Failed, Over
    <2>2. CASE ~ Failed
      <3>1. target' = [target EXCEPT !.dropin = PlatformArgs] /\ pc' = "update"
        BY <1>14, <2>2 DEF Finalize, Goto
      <3>2. target'.loaders = target.loaders
        BY <3>1, <1>t
      <3> QED BY <3>1, <3>2, <1>14, <2>2, <1>f DEF Finalize, Goto
    <2> QED BY <2>1, <2>2
  <1>15. CASE LimineUpdate
    <2>1. PICK conf \in SUBSET ({"omarchy"} \cup (Configured \cap {"cryptdevice"})), uki \in {Configured, {}} :
            target' = [target EXCEPT !.conf = @ \cup conf, !.uki = uki]
      BY <1>15 DEF LimineUpdate
    <2>2. target'.loaders = target.loaders
      BY <2>1, <1>t
    <2> QED BY <2>2, <1>15, <1>o, <1>f DEF LimineUpdate, Then, Goto, Over
  <1>16. CASE CheckConfig
    BY <1>16, <1>o, <1>f DEF CheckConfig, Goto, Over
  <1>17. CASE ValidateBoot
    BY <1>17, <1>o DEF ValidateBoot, Over
  <1>18. CASE Stop
    BY <1>18, <1>o DEF Stop, Over
  <1>19. CASE UNCHANGED vars
    <2>1. UNCHANGED <<nvram, attempt, pc, cfg, todo, target>>
      BY <1>19 DEF vars
    <2> QED BY <2>1, <1>0, <1>u DEF Listed, nvram
  <1> QED
    BY <1>1, <1>2, <1>3, <1>4, <1>5, <1>6, <1>7, <1>8, <1>9, <1>10, <1>11, <1>12, <1>13, <1>14, <1>15,
       <1>16, <1>17, <1>18, <1>19 DEF Next, Rest
\* What validate_boot accepts is ready to be started.
LEMMA FinishedNext ==
  IInv /\ [Next]_vars =>
    (how = "finished" => pc = "over")' /\ InstalledStarts' /\ BuiltToBoot'
  <1> SUFFICES ASSUME IInv, [Next]_vars
               PROVE  (how = "finished" => pc = "over")' /\ InstalledStarts' /\ BuiltToBoot'
    OBVIOUS
  <1>0. TypeOK /\ Made /\ Listed /\ Routed /\ (how = "finished" => pc = "over")
    BY DEF IInv
  <1>1. Made' /\ TypeOK'
    BY MadeNext, TypeNext
  <1>2. CASE ~ ValidateBoot /\ ~ UNCHANGED vars
    <2>1. how' # "finished"
      BY <1>2, <1>0 DEF Next, Start, Detect, Format, Configure, CopyLoader, InstallBios, ReadBoot,
         DeleteStale, Create, SetOrder, CheckWindows, WriteDefaults, InstallPackages, Finalize, LimineUpdate,
         CheckConfig, Stop, Rest, Goto, Over, Then, Failed
    <2>2. pc' \in {"check", "validate"} /\ target'.uki # {} => (RootArgs \cup PlatformArgs)' \subseteq target'.uki
      BY <1>1 DEF Made
    <2> QED BY <2>1, <2>2 DEF InstalledStarts, BuiltToBoot
  <1>3. CASE UNCHANGED vars
    <2>1. UNCHANGED <<machine, attempt, pc, how, cfg, entries, order, target>>
      BY <1>3 DEF vars, nvram
    <2> QED BY <2>1, <1>0
        DEF IInv, InstalledStarts, BuiltToBoot, RootArgs, PlatformArgs, StartsFirst, Labelled
  <1>4. CASE ValidateBoot
    <2>1. pc' = "over" /\ UNCHANGED <<machine, attempt, cfg, nvram, target>>
      BY <1>4 DEF ValidateBoot, Over
    <2>2. how' = "finished" => ConfigValid /\ (machine.uefi => EfiValid)
      BY <1>4 DEF ValidateBoot, Over
    <2>3. target.cmdline = RootArgs /\ target.loaders = {Place} /\ target.hook = Place
          /\ target.uki \in {{}, RootArgs \cup PlatformArgs}
          /\ (cfg.encrypted => "cryptdevice" \in target.conf)
      BY <1>4, <1>0 DEF ValidateBoot, Made, Finishing, Updating
    <2>4. RootArgs' = RootArgs /\ PlatformArgs' = PlatformArgs /\ Leads' = Leads
      BY <2>1 DEF RootArgs, PlatformArgs, Leads, StartsFirst, Labelled, nvram
    <2>5. BuiltToBoot'
      BY <2>1, <2>2, <2>3, <2>4 DEF BuiltToBoot, EfiValid
    <2>6. how' = "finished" /\ machine.uefi => Place = "own"
      BY <2>2, <2>3 DEF EfiValid
    <2>7. how' = "finished" /\ machine.uefi /\ ~ machine.stuck => Leads'
      BY <2>2, <2>4, <1>4, <1>0 DEF EfiValid, ValidateBoot, Listed, Finishing
    <2>8. ~ machine.uefi => Place = "boot sector"
      BY DEF Place
    <2>9. InstalledStarts'
      BY <2>1, <2>3, <2>6, <2>7, <2>8 DEF InstalledStarts, Leads
    <2> QED BY <2>1, <2>5, <2>9
  <1> QED BY <1>2, <1>3, <1>4

\* The inductive invariant holds in every reachable state.
THEOREM Invariance == Spec => []IInv
  <1>1. Init => IInv
    BY InitIInv
  <1>2. IInv /\ [Next]_vars => IInv'
    BY TypeNext, ServedNext, RoutedNext, MadeNext, SparingNext, ListedNext, FinishedNext DEF IInv
  <1> QED BY <1>1, <1>2, PTL DEF Spec

\* Types, and every stale entry was tried before the new one is made.
THEOREM BootTypes == Spec => []TypeOK
  <1>1. IInv => TypeOK
    BY DEF IInv
  <1> QED BY <1>1, Invariance, PTL

\* The boot entries of the other systems survive any number of installations,
\* killed or failed anywhere, with their order (_register_limine_efi_entry).
THEOREM OtherSystemsKept == Spec => []OthersKept
  <1>1. IInv => OthersKept
    BY DEF IInv, Sparing, OthersKept
  <1> QED BY <1>1, Invariance, PTL

\* A finished install is what the firmware starts and what upgrades refresh
\* (_install_limine_efi, _register_limine_efi_entry, validate_boot).
THEOREM FinishedStarts == Spec => []InstalledStarts
  <1>1. IInv => InstalledStarts
    BY DEF IInv
  <1> QED BY <1>1, Invariance, PTL

\* The image has every argument the machine needs (finalize_limine_boot).
THEOREM ImageComplete == Spec => []BuiltToBoot
  <1>1. IInv => BuiltToBoot
    BY DEF IInv
  <1> QED BY <1>1, Invariance, PTL

\* Before the disk is written it is settled that the medium can serve the
\* machine's profile (prepare_live, select_platform).
THEOREM MediumServes == Spec => []ProfileServed
  <1>1. IInv => ProfileServed
    BY ServedPackages DEF IInv, Served, ProfileServed
  <1> QED BY <1>1, Invariance, PTL
=============================================================================
