------------------------- MODULE ProvisioningProofs -------------------------
(***************************************************************************)
(* The safety properties of Provisioning for any installations.            *)
(***************************************************************************)
EXTENDS Provisioning, TLAPS

\* The steps from one on, and with the installed machine what is past it.
FromSnapshot == {"snapshot", "take", "scrub"}
FromValidate == {"validate"} \cup FromSnapshot
FromAllowTailnet == {"allow tailnet"} \cup FromValidate
FromJoin == {"join"} \cup FromAllowTailnet
FromTailscale == {"tailscale"} \cup FromJoin
FromAllowSsh == {"allow ssh"} \cup FromTailscale
FromSshd == {"sshd"} \cup FromAllowSsh
FromLogin == {"login", "ssh"} \cup FromSshd
FromBuild == {"build"} \cup FromLogin
FromUnlock == {"unlock"} \cup FromBuild
FromArm == {"arm"} \cup FromUnlock
FromStage == {"stage"} \cup FromArm
FromPackages == {"packages"} \cup FromStage
FromFormat == {"format"} \cup FromPackages

Past(steps) == pc \in steps \/ how = "finished"

\* How it ended is known at the end only.
Closed == pc = "over" <=> how # "none"

\* The two places of the passphrase, and the volume.
Secret ==
  /\ install.deferred /\ install.block # "none" /\ Past(FromFormat) =>
       given.block = given.creds /\ given.block # Nothing
  /\ install.block = "none" => given = [block |-> Nothing, creds |-> install.credpw]
  /\ install.block # "luks" => slot = install.volume
  /\ install.block = "luks" /\ Past(FromPackages) => slot \in {given.block, given.creds} \ {Nothing}

\* What is staged for the first boot.
Keyed ==
  /\ Passphrase # Nothing
  /\ root["luks-key"] = Passphrase /\ root["keyfile"] = Passphrase
  /\ Has(root, "unlock conf") /\ Has(root, "files conf")

Armed ==
  /\ pc \in {"arm", "unlock"} => install.deferred
  /\ Has(root, "unlock conf") => install.deferred
  /\ Past(FromArm) => Has(root, "node")
  /\ install.deferred /\ Past(FromUnlock) =>
       Has(root, "pending") /\ Has(root, "unit") /\ Has(root, "wants")
  /\ install.deferred /\ EncryptedInstall /\ Past(FromBuild) => Keyed

\* What the image and limine.conf say.
Imaged ==
  /\ image.asks \/ "cryptkey" \in image.conf => install.deferred
  /\ "cryptdevice" \in image.conf => slot # Nothing
  /\ install.deferred /\ EncryptedInstall /\ Past(FromLogin) =>
       image.asks = image.built /\ (image.built => image.key = Passphrase)
  /\ Past(FromSnapshot) =>
       /\ install.flag => "cryptdevice" \in image.conf
       /\ install.uefi => image.built
       /\ install.deferred /\ EncryptedInstall => "cryptkey" \in image.conf

\* Who logs in by itself.
Door == Has(root, "autologin") => install.flag /\ ~ install.deferred

\* Who can come in over SSH.
Visited ==
  install.keys # "none" =>
    /\ Past(FromSshd) /\ install.deferred => Has(root, "owner keys")
    /\ Past(FromSshd) /\ ~ install.deferred => Has(root, "user keys")
    /\ Past(FromAllowSsh) => Has(root, "sshd")
    /\ Past(FromTailscale) => Has(root, "ssh rule")

\* How the machine joins the tailnet.
Uplinked ==
  install.authkey # "none" =>
    /\ Past(FromStage) => Has(root, "tailscale")
    /\ Past(FromJoin) => joined \/ Has(root, "authkey")
    /\ Past(FromAllowTailnet) => joined \/ (Has(root, "join unit") /\ Has(root, "join wants"))
    /\ Past(FromValidate) => Has(root, "tailnet rule")

\* How far the factory image is cleaned.
Imprinted ==
  /\ pc = "scrub" =>
       /\ factory.there
       /\ Has(factory.files, "node")
       /\ \A i \in 1 .. 8 : i < next => ~ Has(factory.files, ScrubPaths[i])
  /\ how = "finished" /\ install.btrfs =>
       /\ factory.there /\ factory.ro
       /\ Has(factory.files, "node")
       /\ \A i \in 1 .. 8 : ~ Has(factory.files, ScrubPaths[i])

IInv ==
  /\ TypeOK
  /\ Closed /\ Secret /\ Armed /\ Imaged /\ Door /\ Visited /\ Uplinked /\ Imprinted

-----------------------------------------------------------------------------
\* The scrub list.
LEMMA ScrubLength == Len(ScrubPaths) = 8
  BY DEF ScrubPaths

\* What it names is staged by a phase, and never the tarball a factory reset needs.
LEMMA ScrubNames == \A i \in 1 .. 8 : ScrubPaths[i] \in Paths \ {"node"}
  <1>1. \A i \in 1 .. 8 : i = 1 \/ i = 2 \/ i = 3 \/ i = 4 \/ i = 5 \/ i = 6 \/ i = 7 \/ i = 8
    OBVIOUS
  <1>2. /\ ScrubPaths[1] = "owner keys" /\ ScrubPaths[2] = "luks-key"
        /\ ScrubPaths[3] = "keyfile" /\ ScrubPaths[4] = "unlock conf"
        /\ ScrubPaths[5] = "files conf" /\ ScrubPaths[6] = "authkey"
        /\ ScrubPaths[7] = "join unit" /\ ScrubPaths[8] = "join wants"
    BY DEF ScrubPaths
  <1> QED BY <1>1, <1>2 DEF Paths

\* There is always a next path, or one past the last.
LEMMA NextRange == TypeOK => next \in 1 .. 9
  <1>1. Len(ScrubPaths) + 1 = 9
    BY ScrubLength
  <1> QED BY <1>1 DEF TypeOK

\* The initial states satisfy the inductive invariant.
LEMMA InitIInv == Init => IInv
  <1> SUFFICES ASSUME Init PROVE IInv
    OBVIOUS
  <1>1. /\ install.volume \in Passwords \cup {Nothing}
        /\ given \in [block : Passwords \cup {Nothing}, creds : Passwords \cup {Nothing}]
        /\ install.block = "none" => install.blockpw = Nothing
    BY ProvisioningAssumption DEF Init, Passwords, Nothing
  <1>2. root \in Files /\ factory \in [there : BOOLEAN, ro : BOOLEAN, files : Files]
    BY DEF Init, NoFactory, Files, Contents
  <1>3. image \in [built : BOOLEAN, key : Contents, asks : BOOLEAN, conf : SUBSET {"cryptdevice", "cryptkey"}]
    BY DEF Init, NoImage, Contents
  <1>4. TypeOK
    <2>1. 1 \in 1 .. Len(ScrubPaths) + 1 /\ 0 \in 0 .. MaxBoots
      BY ScrubLength, ProvisioningAssumption
    <2> QED BY <1>1, <1>2, <1>3, <2>1 DEF Init, TypeOK
  <1>5. ~ Has(root, "unlock conf") /\ ~ Has(root, "autologin")
    BY DEF Init, Has, Paths
  <1>6. pc = "load" /\ how = "none"
    BY DEF Init
  <1>7. Closed /\ Door /\ Visited /\ Uplinked /\ Imprinted
    BY <1>5, <1>6
    DEF Closed, Door, Visited, Uplinked, Imprinted, Past, FromSnapshot, FromValidate, FromAllowTailnet, FromJoin, FromTailscale, FromAllowSsh, FromSshd,
        FromLogin, FromBuild, FromUnlock, FromArm, FromStage, FromPackages, FromFormat
  <1>8. Secret
    BY <1>1, <1>6 DEF Init, Secret, Past, FromSnapshot, FromValidate, FromAllowTailnet, FromJoin, FromTailscale, FromAllowSsh, FromSshd,
        FromLogin, FromBuild, FromUnlock, FromArm, FromStage, FromPackages, FromFormat
  <1>9. Armed
    BY <1>5, <1>6 DEF Armed, Past, FromSnapshot, FromValidate, FromAllowTailnet, FromJoin, FromTailscale, FromAllowSsh, FromSshd,
        FromLogin, FromBuild, FromUnlock, FromArm, FromStage, FromPackages, FromFormat
  <1>10. Imaged
    BY <1>6 DEF Init, NoImage, Imaged, Past, FromSnapshot, FromValidate, FromAllowTailnet, FromJoin, FromTailscale, FromAllowSsh, FromSshd,
        FromLogin, FromBuild, FromUnlock, FromArm, FromStage, FromPackages, FromFormat
  <1> QED
    BY <1>4, <1>7, <1>8, <1>9, <1>10 DEF IInv

\* What is known of a state is known of what its name stands for.
LEMMA ClosedNext == IInv /\ [Next]_vars => Closed'
  BY DEF IInv, TypeOK, Closed, Next, vars, Installer, Installed, Load, Format, InstallPackages, StageNode,
         Arm, StageUnlock, BuildImage, ConfigureLogin, AuthorizeKeys, EnableSshd, AllowSsh, StageAuthkey,
         EnableJoin, AllowTailnet, ValidateBoot, DeleteOld, TakeSnapshot, Scrub, Seal, Stop,
         PowerOn, PowerOff, Network, Up, RemoveKey, DisableJoin, Rest, Goto, Over, Failed, Onwards

\* Every step keeps what is known of the ways in.
LEMMA DoorNext == IInv /\ [Next]_vars => Door'
  BY DEF IInv, TypeOK, Door, Next, vars, Installer, Installed, Load, Format, InstallPackages, StageNode,
         Arm, StageUnlock, BuildImage, ConfigureLogin, AuthorizeKeys, EnableSshd, AllowSsh, StageAuthkey,
         EnableJoin, AllowTailnet, ValidateBoot, DeleteOld, TakeSnapshot, Scrub, Seal, Stop,
         PowerOn, PowerOff, Network, Up, RemoveKey, DisableJoin, Rest, Goto, Over, Failed, Writes, disk, machine, Onwards,
         Has, Files, Paths, Nothing

\* Which action takes the installation past a step.
LEMMA Order ==
  ASSUME IInv, [Next]_vars
  PROVE  /\ Past(FromFormat)' => Past(FromFormat) \/ Load
         /\ Past(FromPackages)' => Past(FromPackages) \/ Format
         /\ Past(FromStage)' => Past(FromStage) \/ InstallPackages
         /\ Past(FromArm)' => Past(FromArm) \/ StageNode
         /\ Past(FromUnlock)' => Past(FromUnlock) \/ StageNode \/ Arm
         /\ Past(FromBuild)' => Past(FromBuild) \/ StageNode \/ Arm \/ StageUnlock
         /\ Past(FromLogin)' => Past(FromLogin) \/ BuildImage
         /\ Past(FromSshd)' => Past(FromSshd) \/ AuthorizeKeys
         /\ Past(FromAllowSsh)' => Past(FromAllowSsh) \/ AuthorizeKeys \/ EnableSshd
         /\ Past(FromTailscale)' => Past(FromTailscale) \/ AuthorizeKeys \/ AllowSsh
         /\ Past(FromJoin)' => Past(FromJoin) \/ StageAuthkey
         /\ Past(FromAllowTailnet)' => Past(FromAllowTailnet) \/ StageAuthkey \/ EnableJoin
         /\ Past(FromValidate)' => Past(FromValidate) \/ StageAuthkey \/ AllowTailnet
         /\ Past(FromSnapshot)' => Past(FromSnapshot) \/ ValidateBoot
  <1> USE DEF IInv, TypeOK, Closed, Next, vars, Installer, Installed, Load, Format, InstallPackages, StageNode,
         Arm, StageUnlock, BuildImage, ConfigureLogin, AuthorizeKeys, EnableSshd, AllowSsh, StageAuthkey,
         EnableJoin, AllowTailnet, ValidateBoot, DeleteOld, TakeSnapshot, Scrub, Seal, Stop,
         PowerOn, PowerOff, Network, Up, RemoveKey, DisableJoin, Rest,
         Goto, Over, Failed, Onwards, Past
  <1>1. Past(FromFormat)' => Past(FromFormat) \/ Load
    BY DEF FromSnapshot, FromValidate, FromAllowTailnet, FromJoin, FromTailscale, FromAllowSsh, FromSshd, FromLogin, FromBuild, FromUnlock, FromArm, FromStage, FromPackages, FromFormat
  <1>2. Past(FromPackages)' => Past(FromPackages) \/ Format
    BY DEF FromSnapshot, FromValidate, FromAllowTailnet, FromJoin, FromTailscale, FromAllowSsh, FromSshd, FromLogin, FromBuild, FromUnlock, FromArm, FromStage, FromPackages
  <1>3. Past(FromStage)' => Past(FromStage) \/ InstallPackages
    BY DEF FromSnapshot, FromValidate, FromAllowTailnet, FromJoin, FromTailscale, FromAllowSsh, FromSshd, FromLogin, FromBuild, FromUnlock, FromArm, FromStage
  <1>4. Past(FromArm)' => Past(FromArm) \/ StageNode
    BY DEF FromSnapshot, FromValidate, FromAllowTailnet, FromJoin, FromTailscale, FromAllowSsh, FromSshd, FromLogin, FromBuild, FromUnlock, FromArm
  <1>5. Past(FromUnlock)' => Past(FromUnlock) \/ StageNode \/ Arm
    BY DEF FromSnapshot, FromValidate, FromAllowTailnet, FromJoin, FromTailscale, FromAllowSsh, FromSshd, FromLogin, FromBuild, FromUnlock
  <1>6. Past(FromBuild)' => Past(FromBuild) \/ StageNode \/ Arm \/ StageUnlock
    BY DEF FromSnapshot, FromValidate, FromAllowTailnet, FromJoin, FromTailscale, FromAllowSsh, FromSshd, FromLogin, FromBuild
  <1>7. Past(FromLogin)' => Past(FromLogin) \/ BuildImage
    BY DEF FromSnapshot, FromValidate, FromAllowTailnet, FromJoin, FromTailscale, FromAllowSsh, FromSshd, FromLogin
  <1>8. Past(FromSshd)' => Past(FromSshd) \/ AuthorizeKeys
    BY DEF FromSnapshot, FromValidate, FromAllowTailnet, FromJoin, FromTailscale, FromAllowSsh, FromSshd
  <1>9. Past(FromAllowSsh)' => Past(FromAllowSsh) \/ AuthorizeKeys \/ EnableSshd
    BY DEF FromSnapshot, FromValidate, FromAllowTailnet, FromJoin, FromTailscale, FromAllowSsh
  <1>10. Past(FromTailscale)' => Past(FromTailscale) \/ AuthorizeKeys \/ AllowSsh
    BY DEF FromSnapshot, FromValidate, FromAllowTailnet, FromJoin, FromTailscale
  <1>11. Past(FromJoin)' => Past(FromJoin) \/ StageAuthkey
    BY DEF FromSnapshot, FromValidate, FromAllowTailnet, FromJoin
  <1>12. Past(FromAllowTailnet)' => Past(FromAllowTailnet) \/ StageAuthkey \/ EnableJoin
    BY DEF FromSnapshot, FromValidate, FromAllowTailnet
  <1>13. Past(FromValidate)' => Past(FromValidate) \/ StageAuthkey \/ AllowTailnet
    BY DEF FromSnapshot, FromValidate
  <1>14. Past(FromSnapshot)' => Past(FromSnapshot) \/ ValidateBoot
    BY DEF FromSnapshot
  <1> QED BY <1>1, <1>2, <1>3, <1>4, <1>5, <1>6, <1>7, <1>8, <1>9, <1>10, <1>11, <1>12, <1>13, <1>14

\* Which action writes what.
LEMMA Writers ==
  ASSUME TypeOK, [Next]_vars
  PROVE  /\ install' = install
         /\ joined => joined'
         /\ given' = given \/ Load
         /\ slot' = slot \/ Format
         /\ image' = image \/ BuildImage
         /\ factory' = factory \/ DeleteOld \/ TakeSnapshot \/ Scrub \/ Seal
         /\ root'["node"] = root["node"] \/ StageNode
         /\ root'["pending"] = root["pending"] \/ Arm
         /\ root'["unit"] = root["unit"] \/ Arm
         /\ root'["wants"] = root["wants"] \/ Arm
         /\ root'["luks-key"] = root["luks-key"] \/ StageUnlock
         /\ root'["keyfile"] = root["keyfile"] \/ StageUnlock
         /\ root'["unlock conf"] = root["unlock conf"] \/ StageUnlock
         /\ root'["files conf"] = root["files conf"] \/ StageUnlock
         /\ root'["owner keys"] = root["owner keys"] \/ AuthorizeKeys
         /\ root'["user keys"] = root["user keys"] \/ AuthorizeKeys
         /\ root'["sshd"] = root["sshd"] \/ EnableSshd
         /\ root'["ssh rule"] = root["ssh rule"] \/ AllowSsh
         /\ root'["tailscale"] = root["tailscale"] \/ InstallPackages
         /\ root'["authkey"] = root["authkey"] \/ StageAuthkey \/ RemoveKey
         /\ root'["join unit"] = root["join unit"] \/ EnableJoin
         /\ root'["join wants"] = root["join wants"] \/ EnableJoin \/ DisableJoin
         /\ root'["tailnet rule"] = root["tailnet rule"] \/ AllowTailnet
  <1>0. root \in [Paths -> Contents]
    BY DEF TypeOK, Files
  <1>1. install' = install
    BY DEF TypeOK, Next, vars, Installer, Installed, Load, Format, InstallPackages, StageNode,
         Arm, StageUnlock, BuildImage, ConfigureLogin, AuthorizeKeys, EnableSshd, AllowSsh, StageAuthkey,
         EnableJoin, AllowTailnet, ValidateBoot, DeleteOld, TakeSnapshot, Scrub, Seal, Stop,
         PowerOn, PowerOff, Network, Up, RemoveKey, DisableJoin, Rest,
         Goto, Over, Failed, Writes, Onwards, disk, machine
  <1>2. joined => joined'
    BY DEF TypeOK, Next, vars, Installer, Installed, Load, Format, InstallPackages, StageNode,
         Arm, StageUnlock, BuildImage, ConfigureLogin, AuthorizeKeys, EnableSshd, AllowSsh, StageAuthkey,
         EnableJoin, AllowTailnet, ValidateBoot, DeleteOld, TakeSnapshot, Scrub, Seal, Stop,
         PowerOn, PowerOff, Network, Up, RemoveKey, DisableJoin, Rest,
         Goto, Over, Failed, Writes, Onwards, disk, machine
  <1>3. given' = given \/ Load
    BY DEF TypeOK, Next, vars, Installer, Installed, Load, Format, InstallPackages, StageNode,
         Arm, StageUnlock, BuildImage, ConfigureLogin, AuthorizeKeys, EnableSshd, AllowSsh, StageAuthkey,
         EnableJoin, AllowTailnet, ValidateBoot, DeleteOld, TakeSnapshot, Scrub, Seal, Stop,
         PowerOn, PowerOff, Network, Up, RemoveKey, DisableJoin, Rest,
         Goto, Over, Failed, Writes, Onwards, disk, machine
  <1>4. slot' = slot \/ Format
    BY DEF TypeOK, Next, vars, Installer, Installed, Load, Format, InstallPackages, StageNode,
         Arm, StageUnlock, BuildImage, ConfigureLogin, AuthorizeKeys, EnableSshd, AllowSsh, StageAuthkey,
         EnableJoin, AllowTailnet, ValidateBoot, DeleteOld, TakeSnapshot, Scrub, Seal, Stop,
         PowerOn, PowerOff, Network, Up, RemoveKey, DisableJoin, Rest,
         Goto, Over, Failed, Writes, Onwards, disk, machine
  <1>5. image' = image \/ BuildImage
    BY DEF TypeOK, Next, vars, Installer, Installed, Load, Format, InstallPackages, StageNode,
         Arm, StageUnlock, BuildImage, ConfigureLogin, AuthorizeKeys, EnableSshd, AllowSsh, StageAuthkey,
         EnableJoin, AllowTailnet, ValidateBoot, DeleteOld, TakeSnapshot, Scrub, Seal, Stop,
         PowerOn, PowerOff, Network, Up, RemoveKey, DisableJoin, Rest,
         Goto, Over, Failed, Writes, Onwards, disk, machine
  <1>6. factory' = factory \/ DeleteOld \/ TakeSnapshot \/ Scrub \/ Seal
    BY DEF TypeOK, Next, vars, Installer, Installed, Load, Format, InstallPackages, StageNode,
         Arm, StageUnlock, BuildImage, ConfigureLogin, AuthorizeKeys, EnableSshd, AllowSsh, StageAuthkey,
         EnableJoin, AllowTailnet, ValidateBoot, DeleteOld, TakeSnapshot, Scrub, Seal, Stop,
         PowerOn, PowerOff, Network, Up, RemoveKey, DisableJoin, Rest,
         Goto, Over, Failed, Writes, Onwards, disk, machine
  <1>7. \/ root' = root
       \/ InstallPackages \/ StageNode \/ Arm \/ StageUnlock \/ ConfigureLogin
       \/ AuthorizeKeys \/ EnableSshd \/ AllowSsh \/ StageAuthkey \/ EnableJoin
       \/ AllowTailnet \/ RemoveKey \/ DisableJoin
    BY DEF Next, vars, Installer, Installed, Load, Format, InstallPackages, StageNode,
         Arm, StageUnlock, BuildImage, ConfigureLogin, AuthorizeKeys, EnableSshd, AllowSsh, StageAuthkey,
         EnableJoin, AllowTailnet, ValidateBoot, DeleteOld, TakeSnapshot, Scrub, Seal, Stop,
         PowerOn, PowerOff, Network, Up, RemoveKey, DisableJoin, Rest,
         Goto, Over, Failed, Onwards, disk
  <1>8. InstallPackages => \A q \in Paths \ {"tailscale"} : root'[q] = root[q]
    BY <1>0 DEF InstallPackages, Writes, Failed, Over, disk
  <1>9. StageNode => \A q \in Paths \ {"node"} : root'[q] = root[q]
    BY <1>0 DEF StageNode, Writes, Failed, Over, disk
  <1>10. Arm => \A q \in Paths \ {"pending", "unit", "wants"} : root'[q] = root[q]
    BY <1>0 DEF Arm, Writes, Failed, Over, disk
  <1>11. StageUnlock => \A q \in Paths \ {"luks-key", "keyfile", "unlock conf", "files conf"} : root'[q] = root[q]
    BY <1>0 DEF StageUnlock, Writes, Failed, Over, disk
  <1>12. ConfigureLogin => \A q \in Paths \ {"autologin"} : root'[q] = root[q]
    BY <1>0 DEF ConfigureLogin, Writes, Failed, Over, disk
  <1>13. AuthorizeKeys => \A q \in Paths \ {"owner keys", "user keys"} : root'[q] = root[q]
    BY <1>0 DEF AuthorizeKeys, Writes, Failed, Over, disk
  <1>14. EnableSshd => \A q \in Paths \ {"sshd"} : root'[q] = root[q]
    BY <1>0 DEF EnableSshd, Writes, Failed, Over, disk
  <1>15. AllowSsh => \A q \in Paths \ {"ssh rule"} : root'[q] = root[q]
    BY <1>0 DEF AllowSsh, Writes, Failed, Over, disk
  <1>16. StageAuthkey => \A q \in Paths \ {"authkey"} : root'[q] = root[q]
    BY <1>0 DEF StageAuthkey, Writes, Failed, Over, disk
  <1>17. EnableJoin => \A q \in Paths \ {"join unit", "join wants"} : root'[q] = root[q]
    BY <1>0 DEF EnableJoin, Writes, Failed, Over, disk
  <1>18. AllowTailnet => \A q \in Paths \ {"tailnet rule"} : root'[q] = root[q]
    BY <1>0 DEF AllowTailnet, Writes, Failed, Over, disk
  <1>19. RemoveKey => \A q \in Paths \ {"authkey"} : root'[q] = root[q]
    BY <1>0 DEF RemoveKey
  <1>20. DisableJoin => \A q \in Paths \ {"join wants"} : root'[q] = root[q]
    BY <1>0 DEF DisableJoin
  <1>21. root'["node"] = root["node"] \/ StageNode
    BY <1>7, <1>8, <1>9, <1>10, <1>11, <1>12, <1>13, <1>14, <1>15, <1>16, <1>17, <1>18, <1>19, <1>20 DEF Paths
  <1>22. root'["pending"] = root["pending"] \/ Arm
    BY <1>7, <1>8, <1>9, <1>10, <1>11, <1>12, <1>13, <1>14, <1>15, <1>16, <1>17, <1>18, <1>19, <1>20 DEF Paths
  <1>23. root'["unit"] = root["unit"] \/ Arm
    BY <1>7, <1>8, <1>9, <1>10, <1>11, <1>12, <1>13, <1>14, <1>15, <1>16, <1>17, <1>18, <1>19, <1>20 DEF Paths
  <1>24. root'["wants"] = root["wants"] \/ Arm
    BY <1>7, <1>8, <1>9, <1>10, <1>11, <1>12, <1>13, <1>14, <1>15, <1>16, <1>17, <1>18, <1>19, <1>20 DEF Paths
  <1>25. root'["luks-key"] = root["luks-key"] \/ StageUnlock
    BY <1>7, <1>8, <1>9, <1>10, <1>11, <1>12, <1>13, <1>14, <1>15, <1>16, <1>17, <1>18, <1>19, <1>20 DEF Paths
  <1>26. root'["keyfile"] = root["keyfile"] \/ StageUnlock
    BY <1>7, <1>8, <1>9, <1>10, <1>11, <1>12, <1>13, <1>14, <1>15, <1>16, <1>17, <1>18, <1>19, <1>20 DEF Paths
  <1>27. root'["unlock conf"] = root["unlock conf"] \/ StageUnlock
    BY <1>7, <1>8, <1>9, <1>10, <1>11, <1>12, <1>13, <1>14, <1>15, <1>16, <1>17, <1>18, <1>19, <1>20 DEF Paths
  <1>28. root'["files conf"] = root["files conf"] \/ StageUnlock
    BY <1>7, <1>8, <1>9, <1>10, <1>11, <1>12, <1>13, <1>14, <1>15, <1>16, <1>17, <1>18, <1>19, <1>20 DEF Paths
  <1>29. root'["owner keys"] = root["owner keys"] \/ AuthorizeKeys
    BY <1>7, <1>8, <1>9, <1>10, <1>11, <1>12, <1>13, <1>14, <1>15, <1>16, <1>17, <1>18, <1>19, <1>20 DEF Paths
  <1>30. root'["user keys"] = root["user keys"] \/ AuthorizeKeys
    BY <1>7, <1>8, <1>9, <1>10, <1>11, <1>12, <1>13, <1>14, <1>15, <1>16, <1>17, <1>18, <1>19, <1>20 DEF Paths
  <1>31. root'["sshd"] = root["sshd"] \/ EnableSshd
    BY <1>7, <1>8, <1>9, <1>10, <1>11, <1>12, <1>13, <1>14, <1>15, <1>16, <1>17, <1>18, <1>19, <1>20 DEF Paths
  <1>32. root'["ssh rule"] = root["ssh rule"] \/ AllowSsh
    BY <1>7, <1>8, <1>9, <1>10, <1>11, <1>12, <1>13, <1>14, <1>15, <1>16, <1>17, <1>18, <1>19, <1>20 DEF Paths
  <1>33. root'["tailscale"] = root["tailscale"] \/ InstallPackages
    BY <1>7, <1>8, <1>9, <1>10, <1>11, <1>12, <1>13, <1>14, <1>15, <1>16, <1>17, <1>18, <1>19, <1>20 DEF Paths
  <1>34. root'["authkey"] = root["authkey"] \/ StageAuthkey \/ RemoveKey
    BY <1>7, <1>8, <1>9, <1>10, <1>11, <1>12, <1>13, <1>14, <1>15, <1>16, <1>17, <1>18, <1>19, <1>20 DEF Paths
  <1>35. root'["join unit"] = root["join unit"] \/ EnableJoin
    BY <1>7, <1>8, <1>9, <1>10, <1>11, <1>12, <1>13, <1>14, <1>15, <1>16, <1>17, <1>18, <1>19, <1>20 DEF Paths
  <1>36. root'["join wants"] = root["join wants"] \/ EnableJoin \/ DisableJoin
    BY <1>7, <1>8, <1>9, <1>10, <1>11, <1>12, <1>13, <1>14, <1>15, <1>16, <1>17, <1>18, <1>19, <1>20 DEF Paths
  <1>37. root'["tailnet rule"] = root["tailnet rule"] \/ AllowTailnet
    BY <1>7, <1>8, <1>9, <1>10, <1>11, <1>12, <1>13, <1>14, <1>15, <1>16, <1>17, <1>18, <1>19, <1>20 DEF Paths
  <1> QED BY <1>1, <1>2, <1>3, <1>4, <1>5, <1>6, <1>21, <1>22, <1>23, <1>24, <1>25, <1>26, <1>27, <1>28, <1>29, <1>30, <1>31, <1>32, <1>33, <1>34, <1>35, <1>36, <1>37

\* An attempt that fails is past nothing.
LEMMA FailedEnds ==
  ASSUME Failed
  PROVE  /\ ~ Past(FromFormat)' /\ ~ Past(FromPackages)' /\ ~ Past(FromStage)' /\ ~ Past(FromArm)'
         /\ ~ Past(FromUnlock)' /\ ~ Past(FromBuild)' /\ ~ Past(FromLogin)' /\ ~ Past(FromSshd)'
         /\ ~ Past(FromAllowSsh)' /\ ~ Past(FromTailscale)' /\ ~ Past(FromJoin)'
         /\ ~ Past(FromAllowTailnet)' /\ ~ Past(FromValidate)' /\ ~ Past(FromSnapshot)'
  BY DEF Failed, Over, Past, FromSnapshot, FromValidate, FromAllowTailnet, FromJoin, FromTailscale, FromAllowSsh,
         FromSshd, FromLogin, FromBuild, FromUnlock, FromArm, FromStage, FromPackages, FromFormat

\* Keys, sshd and the rule, in this order.
LEMMA VisitedNext == IInv /\ [Next]_vars => Visited'
  <1> SUFFICES ASSUME IInv, [Next]_vars, install.keys # "none" PROVE Visited'
    BY Writers DEF IInv, Visited
  <1>0. root \in [Paths -> Contents] /\ TypeOK /\ Visited
    BY DEF IInv, TypeOK, Files
  <1>1. Past(FromSshd)' /\ install.deferred => Has(root, "owner keys")'
    <2>1. CASE AuthorizeKeys
      BY <1>0, <2>1, FailedEnds DEF AuthorizeKeys, Writes, Has, Nothing, Paths
    <2>2. CASE ~ AuthorizeKeys
      BY <1>0, <2>2, Order, Writers DEF Visited, Has
    <2> QED BY <2>1, <2>2
  <1>2. Past(FromSshd)' /\ ~ install.deferred => Has(root, "user keys")'
    <2>1. CASE AuthorizeKeys
      BY <1>0, <2>1, FailedEnds DEF AuthorizeKeys, Writes, Has, Nothing, Paths
    <2>2. CASE ~ AuthorizeKeys
      BY <1>0, <2>2, Order, Writers DEF Visited, Has
    <2> QED BY <2>1, <2>2
  <1>3. Past(FromAllowSsh)' => Has(root, "sshd")'
    <2>1. CASE EnableSshd
      BY <1>0, <2>1, FailedEnds DEF EnableSshd, Writes, Has, Nothing, Paths
    <2>2. CASE AuthorizeKeys
      BY <2>2, FailedEnds DEF AuthorizeKeys, Goto, Past, FromAllowSsh, FromTailscale, FromJoin, FromAllowTailnet,
                              FromValidate, FromSnapshot, IInv, Closed
    <2>3. CASE ~ EnableSshd /\ ~ AuthorizeKeys
      BY <1>0, <2>3, Order, Writers DEF Visited, Has
    <2> QED BY <2>1, <2>2, <2>3
  <1>4. Past(FromTailscale)' => Has(root, "ssh rule")'
    <2>1. CASE AllowSsh
      BY <1>0, <2>1, FailedEnds DEF AllowSsh, Writes, Has, Nothing, Paths
    <2>2. CASE AuthorizeKeys
      BY <2>2, FailedEnds DEF AuthorizeKeys, Goto, Past, FromTailscale, FromJoin, FromAllowTailnet,
                              FromValidate, FromSnapshot, IInv, Closed
    <2>3. CASE ~ AllowSsh /\ ~ AuthorizeKeys
      BY <1>0, <2>3, Order, Writers DEF Visited, Has
    <2> QED BY <2>1, <2>2, <2>3
  <1>5. install' = install
    BY <1>0, Writers
  <1> QED BY <1>1, <1>2, <1>3, <1>4, <1>5 DEF Visited

\* The key, the unit and its enablement, in this order, until they have served.
LEMMA UplinkedNext == IInv /\ [Next]_vars => Uplinked'
  <1> SUFFICES ASSUME IInv, [Next]_vars, install.authkey # "none" PROVE Uplinked'
    BY Writers DEF IInv, Uplinked
  <1>0. root \in [Paths -> Contents] /\ TypeOK /\ Uplinked
    BY DEF IInv, TypeOK, Files
  <1>1. Past(FromStage)' => Has(root, "tailscale")'
    <2>1. CASE InstallPackages
      BY <1>0, <2>1, FailedEnds DEF InstallPackages, Writes, Has, Nothing, Paths
    <2>2. CASE ~ InstallPackages
      BY <1>0, <2>2, Order, Writers DEF Uplinked, Has
    <2> QED BY <2>1, <2>2
  <1>2. Past(FromJoin)' => joined' \/ Has(root, "authkey")'
    <2>1. CASE StageAuthkey
      BY <1>0, <2>1, FailedEnds DEF StageAuthkey, Writes, Has, Nothing, Paths
    <2>2. CASE RemoveKey
      BY <1>0, <2>2 DEF RemoveKey, TypeOK
    <2>3. CASE ~ StageAuthkey /\ ~ RemoveKey
      BY <1>0, <2>3, Order, Writers DEF Uplinked, Has
    <2> QED BY <2>1, <2>2, <2>3
  <1>3. Past(FromAllowTailnet)' => joined' \/ (Has(root, "join unit") /\ Has(root, "join wants"))'
    <2>1. CASE EnableJoin
      BY <1>0, <2>1, FailedEnds DEF EnableJoin, Writes, Has, Nothing, Paths
    <2>2. CASE StageAuthkey
      BY <2>2, FailedEnds DEF StageAuthkey, Goto, Past, FromAllowTailnet, FromValidate, FromSnapshot, IInv, Closed
    <2>3. CASE DisableJoin
      BY <1>0, <2>3 DEF DisableJoin, TypeOK
    <2>4. CASE ~ EnableJoin /\ ~ StageAuthkey /\ ~ DisableJoin
      BY <1>0, <2>4, Order, Writers DEF Uplinked, Has
    <2> QED BY <2>1, <2>2, <2>3, <2>4
  <1>4. Past(FromValidate)' => Has(root, "tailnet rule")'
    <2>1. CASE AllowTailnet
      BY <1>0, <2>1, FailedEnds DEF AllowTailnet, Writes, Has, Nothing, Paths
    <2>2. CASE StageAuthkey
      BY <2>2, FailedEnds DEF StageAuthkey, Goto, Past, FromValidate, FromSnapshot, IInv, Closed
    <2>3. CASE ~ AllowTailnet /\ ~ StageAuthkey
      BY <1>0, <2>3, Order, Writers DEF Uplinked, Has
    <2> QED BY <2>1, <2>2, <2>3
  <1>5. install' = install
    BY <1>0, Writers
  <1> QED BY <1>1, <1>2, <1>3, <1>4, <1>5 DEF Uplinked

\* The passphrase in its two places, and the volume made with it.
LEMMA SecretNext == IInv /\ [Next]_vars => Secret'
  <1> SUFFICES ASSUME IInv, [Next]_vars PROVE Secret'
    OBVIOUS
  <1>0. TypeOK /\ Secret /\ Closed
    BY DEF IInv
  <1>1. CASE Load
    <2>1. given' = Inject /\ UNCHANGED <<install, slot>> /\ pc' = "format" /\ how' = how /\ how # "finished"
      BY <1>0, <1>1 DEF Load, Goto, disk, Closed
    <2>2. install.deferred /\ install.block # "none" =>
            given'.block = given'.creds /\ given'.block # Nothing
      BY <2>1 DEF Inject, Nothing
    <2>3. install.block = "none" => given' = given
      BY <2>1 DEF Inject
    <2>4. ~ Past(FromPackages)'
      BY <2>1 DEF Past, FromSnapshot, FromValidate, FromAllowTailnet, FromJoin, FromTailscale, FromAllowSsh,
                  FromSshd, FromLogin, FromBuild, FromUnlock, FromArm, FromStage, FromPackages
    <2> QED BY <1>0, <2>1, <2>2, <2>3, <2>4 DEF Secret
  <1>2. CASE Format
    <2>1. UNCHANGED <<install, given>>
      BY <1>2 DEF Format, Goto, Failed, Over
    <2>2. install.block # "luks" => slot' = slot
      BY <1>2 DEF Format, Failed, Over, disk
    <2>3. install.block = "luks" /\ Past(FromPackages)' => slot' \in {given.block, given.creds} \ {Nothing}
      BY <1>2, FailedEnds DEF Format
    <2>4. Past(FromFormat)
      BY <1>2 DEF Format, Past, FromFormat
    <2> QED BY <1>0, <2>1, <2>2, <2>3, <2>4 DEF Secret
  <1>3. CASE ~ Load /\ ~ Format
    <2>1. UNCHANGED <<install, given, slot>>
      BY <1>0, <1>3, Writers
    <2>2. (Past(FromFormat)' => Past(FromFormat)) /\ (Past(FromPackages)' => Past(FromPackages))
      BY <1>3, Order
    <2> QED BY <1>0, <2>1, <2>2 DEF Secret
  <1> QED BY <1>1, <1>2, <1>3

\* The arming of the first boot, and with it the staged passphrase.
LEMMA ArmedNext == IInv /\ [Next]_vars => Armed'
  <1> SUFFICES ASSUME IInv, [Next]_vars PROVE Armed'
    OBVIOUS
  <1>0. root \in [Paths -> Contents] /\ TypeOK /\ Armed /\ Closed /\ given \in [block : Passwords \cup {Nothing}, creds : Passwords \cup {Nothing}]
    BY DEF IInv, TypeOK, Files
  <1>a. install' = install
    BY <1>0, Writers
  <1>1. pc' \in {"arm", "unlock"} => install.deferred
    BY <1>0 DEF Armed, Next, vars, Installer, Installed, Load, Format, InstallPackages, StageNode,
         Arm, StageUnlock, BuildImage, ConfigureLogin, AuthorizeKeys, EnableSshd, AllowSsh, StageAuthkey,
         EnableJoin, AllowTailnet, ValidateBoot, DeleteOld, TakeSnapshot, Scrub, Seal, Stop,
         PowerOn, PowerOff, Network, Up, RemoveKey, DisableJoin, Rest, Goto, Over, Failed, Onwards
  <1>2. Has(root, "unlock conf")' => install.deferred
    <2>1. CASE StageUnlock
      BY <1>0, <2>1 DEF StageUnlock, Armed
    <2>2. CASE ~ StageUnlock
      BY <1>0, <2>2, Writers DEF Armed, Has
    <2> QED BY <2>1, <2>2
  <1>3. Past(FromArm)' => Has(root, "node")'
    <2>1. CASE StageNode
      BY <1>0, <2>1, FailedEnds DEF StageNode, Writes, Has, Nothing, Paths
    <2>2. CASE ~ StageNode
      BY <1>0, <2>2, Order, Writers DEF Armed, Has
    <2> QED BY <2>1, <2>2
  <1>4. install.deferred /\ Past(FromUnlock)' => (Has(root, "pending") /\ Has(root, "unit") /\ Has(root, "wants"))'
    <2>1. CASE Arm
      <3>1. CASE Failed
        BY <3>1, FailedEnds
      <3>2. CASE ~ Failed
        <4>1. root' = [root EXCEPT !["pending"] = "there", !["unit"] = "there", !["wants"] = "there"]
          BY <2>1, <3>2 DEF Arm, Writes
        <4>2. root'["pending"] = "there" /\ root'["unit"] = "there" /\ root'["wants"] = "there"
          BY <1>0, <4>1 DEF Paths
        <4> QED BY <4>2 DEF Has, Nothing
      <3> QED BY <3>1, <3>2
    <2>2. CASE StageNode
      BY <1>0, <2>2, FailedEnds DEF StageNode, Goto, Closed, Past, FromSnapshot, FromValidate, FromAllowTailnet, FromJoin, FromTailscale, FromAllowSsh,
         FromSshd, FromLogin, FromBuild, FromUnlock
    <2>3. CASE ~ Arm /\ ~ StageNode
      BY <1>0, <2>3, Order, Writers DEF Armed, Has
    <2> QED BY <2>1, <2>2, <2>3
  <1>5. ASSUME install.deferred, EncryptedInstall, Past(FromBuild)' PROVE Keyed'
    <2>1. CASE StageUnlock
      <3>1. Passphrase # Nothing /\ Writes([root EXCEPT !["luks-key"] = Passphrase, !["keyfile"] = Passphrase,
                               !["unlock conf"] = "there", !["files conf"] = "there"])
        BY <1>5, <2>1, FailedEnds DEF StageUnlock
      <3>2. Passphrase' = Passphrase
        BY <3>1 DEF Writes, Passphrase
      <3> QED BY <1>0, <3>1, <3>2 DEF Writes, Keyed, Has, Nothing, Paths
    <2>2. CASE StageNode
      BY <1>0, <1>5, <2>2, FailedEnds DEF StageNode, Goto, Closed, Past, FromSnapshot, FromValidate, FromAllowTailnet, FromJoin, FromTailscale, FromAllowSsh,
         FromSshd, FromLogin, FromBuild
    <2>3. CASE Arm
      BY <1>0, <1>5, <2>3, FailedEnds DEF Arm, Goto, Closed, Past, FromSnapshot, FromValidate, FromAllowTailnet, FromJoin, FromTailscale, FromAllowSsh,
         FromSshd, FromLogin, FromBuild
    <2>4. CASE Load
      BY <1>0, <1>5, <2>4 DEF Load, Goto, Closed, Past, FromSnapshot, FromValidate, FromAllowTailnet, FromJoin, FromTailscale, FromAllowSsh,
         FromSshd, FromLogin, FromBuild
    <2>5. CASE ~ StageUnlock /\ ~ StageNode /\ ~ Arm /\ ~ Load
      <3>1. Keyed
        BY <1>0, <1>5, <2>5, Order DEF Armed
      <3>2. given' = given
        BY <1>0, <2>5, Writers
      <3>3. Passphrase' = Passphrase
        BY <3>2 DEF Passphrase
      <3> QED BY <1>0, <2>5, <3>1, <3>3, Writers DEF Keyed, Has
    <2> QED BY <2>1, <2>2, <2>3, <2>4, <2>5
  <1>6. EncryptedInstall' = EncryptedInstall
    BY <1>a DEF EncryptedInstall
  <1> QED BY <1>a, <1>1, <1>2, <1>3, <1>4, <1>5, <1>6 DEF Armed

\* The image is built of what is staged then, and validate_boot reads limine.conf.
LEMMA ImagedNext == IInv /\ [Next]_vars => Imaged'
  <1> SUFFICES ASSUME IInv, [Next]_vars PROVE Imaged'
    OBVIOUS
  <1>0. TypeOK /\ Armed /\ Imaged /\ Closed
    BY DEF IInv
  <1>a. install' = install
    BY <1>0, Writers
  <1>b. EncryptedInstall' = EncryptedInstall
    BY <1>a DEF EncryptedInstall
  <1>1. CASE BuildImage /\ ~ Failed
    <2>1. /\ UNCHANGED <<given, slot, root>> /\ pc' = "login" /\ how' = how /\ pc = "build"
      BY <1>1 DEF BuildImage, Goto
    <2>9. PICK conf \in SUBSET ((IF slot # Nothing THEN {"cryptdevice"} ELSE {})
                               \cup (IF Has(root, "unlock conf") THEN {"cryptkey"} ELSE {})), built \in BOOLEAN :
            image' = [built |-> built, conf |-> conf,
                      key |-> IF built /\ Has(root, "files conf") THEN root["keyfile"] ELSE Nothing,
                      asks |-> built /\ Has(root, "unlock conf")]
      BY <1>1 DEF BuildImage
    <2>2. how # "finished"
      BY <1>0, <2>1 DEF Closed
    <2>3. image'.asks \/ "cryptkey" \in image'.conf => install.deferred
      BY <1>0, <2>9 DEF Armed
    <2>4. "cryptdevice" \in image'.conf => slot' # Nothing
      BY <2>1, <2>9
    <2>5. install.deferred /\ EncryptedInstall => Keyed
      BY <1>0, <2>1 DEF Armed, Past, FromBuild
    <2>6. install.deferred /\ EncryptedInstall => image'.asks = image'.built /\ (image'.built => image'.key = Passphrase)
      BY <2>5, <2>9 DEF Keyed
    <2>7. Passphrase' = Passphrase
      BY <2>1 DEF Passphrase
    <2>8. ~ Past(FromSnapshot)'
      BY <2>1, <2>2 DEF Past, FromSnapshot
    <2> QED BY <1>a, <1>b, <2>3, <2>4, <2>6, <2>7, <2>8 DEF Imaged
  <1>2. CASE Failed
    <2>1. UNCHANGED <<given, slot, image>> /\ ~ Past(FromLogin)' /\ ~ Past(FromSnapshot)'
      BY <1>2, FailedEnds DEF Failed, disk
    <2> QED BY <1>0, <1>a, <2>1 DEF Imaged
  <1>3. CASE Load
    <2>1. UNCHANGED <<slot, image>> /\ pc' = "format" /\ how' = how /\ how # "finished"
      BY <1>0, <1>3 DEF Load, Goto, disk, Closed
    <2>2. ~ Past(FromLogin)' /\ ~ Past(FromSnapshot)'
      BY <2>1 DEF Past, FromSnapshot, FromValidate, FromAllowTailnet, FromJoin, FromTailscale, FromAllowSsh, FromSshd, FromLogin
    <2> QED BY <1>0, <1>a, <2>1, <2>2 DEF Imaged
  <1>4. CASE Format /\ ~ Failed
    <2>1. /\ UNCHANGED <<given, image>> /\ pc' = "packages" /\ how' = how /\ how # "finished"
          /\ slot' # slot => slot' # Nothing
      BY <1>0, <1>4 DEF Format, Goto, disk, Closed
    <2>2. ~ Past(FromLogin)' /\ ~ Past(FromSnapshot)'
      BY <2>1 DEF Past, FromSnapshot, FromValidate, FromAllowTailnet, FromJoin, FromTailscale, FromAllowSsh, FromSshd, FromLogin
    <2> QED BY <1>0, <1>a, <2>1, <2>2 DEF Imaged
  <1>5. CASE ValidateBoot /\ ~ Failed
    <2>1. /\ UNCHANGED <<given, slot, image>> /\ pc = "validate"
          /\ install.flag => "cryptdevice" \in image.conf
          /\ install.uefi => image.built
          /\ install.deferred /\ EncryptedInstall => "cryptkey" \in image.conf
      BY <1>5 DEF ValidateBoot, ValidState, disk
    <2>2. Past(FromLogin)
      BY <2>1 DEF Past, FromValidate, FromAllowTailnet, FromJoin, FromTailscale, FromAllowSsh, FromSshd, FromLogin
    <2>3. Passphrase' = Passphrase
      BY <2>1 DEF Passphrase
    <2> QED BY <1>0, <1>a, <1>b, <2>1, <2>2, <2>3 DEF Imaged
  <1>6. CASE ~ BuildImage /\ ~ Failed /\ ~ Load /\ ~ Format /\ ~ ValidateBoot
    <2>1. UNCHANGED <<install, given, slot, image>>
      BY <1>0, <1>6, Writers
    <2>2. (Past(FromLogin)' => Past(FromLogin)) /\ (Past(FromSnapshot)' => Past(FromSnapshot))
      BY <1>6, Order
    <2>3. Passphrase' = Passphrase
      BY <2>1 DEF Passphrase
    <2> QED BY <1>0, <1>a, <1>b, <2>1, <2>2, <2>3 DEF Imaged
  <1> QED BY <1>1, <1>2, <1>3, <1>4, <1>5, <1>6

\* The unlinks of _scrub_factory_snapshot go from the first path to the last.
LEMMA ImprintedNext == IInv /\ [Next]_vars => Imprinted'
  <1> SUFFICES ASSUME IInv, [Next]_vars PROVE Imprinted'
    OBVIOUS
  <1>0. TypeOK /\ Armed /\ Imprinted /\ Closed
    BY DEF IInv
  <1>a. install' = install
    BY <1>0, Writers
  <1>b. /\ factory \in [there : BOOLEAN, ro : BOOLEAN, files : [Paths -> Contents]]
        /\ next \in 1 .. 9
    BY <1>0, NextRange DEF TypeOK, Files
  <1>1. CASE TakeSnapshot /\ ~ Failed
    <2>1. pc = "take" /\ pc' = "scrub" /\ how' = how /\ next' = 1 /\ factory' = [there |-> TRUE, ro |-> FALSE, files |-> root]
      BY <1>1 DEF TakeSnapshot, Goto
    <2>2. Has(root, "node")
      BY <1>0, <2>1 DEF Armed, Past, FromSnapshot, FromValidate, FromAllowTailnet, FromJoin, FromTailscale, FromAllowSsh,
         FromSshd, FromLogin, FromBuild, FromUnlock, FromArm
    <2>3. how' # "finished"
      BY <1>0, <2>1 DEF Closed
    <2>4. factory'.there /\ Has(factory'.files, "node")
      BY <2>1, <2>2
    <2>5. \A i \in 1 .. 8 : ~ (i < next')
      BY <2>1
    <2> QED BY <2>3, <2>4, <2>5 DEF Imprinted
  <1>2. CASE Scrub /\ ~ Failed
    <2>0. next <= Len(ScrubPaths)
      BY <1>2 DEF Scrub
    <2>1. /\ pc = "scrub" /\ pc' = "scrub" /\ how' = how /\ next' = next + 1 /\ next \in 1 .. 8
          /\ factory' = [factory EXCEPT !.files[ScrubPaths[next]] = Nothing]
      <3>1. next \in 1 .. 8
        BY <1>b, <2>0, ScrubLength
      <3>2. /\ pc = "scrub" /\ pc' = "scrub" /\ how' = how /\ next' = next + 1
            /\ factory' = [factory EXCEPT !.files[ScrubPaths[next]] = Nothing]
        BY <1>2 DEF Scrub, Goto
      <3> QED BY <3>1, <3>2
    <2>2. how' # "finished"
      BY <1>0, <2>1 DEF Closed
    <2>3. factory.there /\ Has(factory.files, "node") /\ \A i \in 1 .. 8 : i < next => ~ Has(factory.files, ScrubPaths[i])
      BY <1>0, <2>1 DEF Imprinted
    <2>4. factory'.there = factory.there /\ factory'.files = [factory.files EXCEPT ![ScrubPaths[next]] = Nothing]
      BY <1>b, <2>1
    <2>5. \A i \in 1 .. 8 : ScrubPaths[i] \in Paths /\ ScrubPaths[i] # "node"
      BY ScrubNames
    <2>6. factory'.files[ScrubPaths[next]] = Nothing /\ \A path \in Paths : path # ScrubPaths[next] => factory'.files[path] = factory.files[path]
      BY <1>b, <2>1, <2>4, <2>5
    <2>7. Has(factory'.files, "node")
      BY <2>1, <2>3, <2>5, <2>6 DEF Has, Paths
    <2>8. ASSUME NEW i \in 1 .. 8, i < next' PROVE ~ Has(factory'.files, ScrubPaths[i])
      <3>1. CASE ScrubPaths[i] = ScrubPaths[next]
        BY <2>6, <3>1 DEF Has
      <3>2. CASE ScrubPaths[i] # ScrubPaths[next]
        <4>1. i # next
          BY <3>2
        <4>2. i < next
          BY <2>1, <2>8, <4>1
        <4> QED BY <2>3, <2>5, <2>6, <2>8, <3>2, <4>2 DEF Has
      <3> QED BY <3>1, <3>2
    <2> QED BY <2>2, <2>3, <2>4, <2>7, <2>8 DEF Imprinted
  <1>3. CASE Seal /\ ~ Failed
    <2>1. pc = "scrub" /\ pc' = "over" /\ next = 9 /\ factory' = [factory EXCEPT !.ro = TRUE]
      <3>1. next > Len(ScrubPaths)
        BY <1>3 DEF Seal
      <3>2. next = 9
        BY <1>b, <3>1, ScrubLength
      <3> QED BY <1>3, <3>2 DEF Seal, Over
    <2>2. factory.there /\ Has(factory.files, "node") /\ \A i \in 1 .. 8 : ~ Has(factory.files, ScrubPaths[i])
      BY <1>0, <2>1 DEF Imprinted
    <2>3. factory'.there /\ factory'.ro /\ factory'.files = factory.files
      BY <1>b, <2>1, <2>2
    <2> QED BY <2>1, <2>2, <2>3 DEF Imprinted
  <1>4. CASE Failed \/ Stop
    BY <1>4 DEF Failed, Stop, Over, Imprinted
  <1>5. CASE DeleteOld /\ ~ Failed
    <2>1. pc' # "scrub" /\ (how' = "finished" => ~ install.btrfs)
      BY <1>0, <1>5 DEF DeleteOld, Over, Goto, Closed
    <2> QED BY <1>a, <2>1 DEF Imprinted
  <1>6. CASE ~ TakeSnapshot /\ ~ Scrub /\ ~ Seal /\ ~ Failed /\ ~ Stop /\ ~ DeleteOld
    <2>1. factory' = factory
      BY <1>0, <1>6, Writers
    <2>2. (pc' = "scrub" => pc = "scrub" /\ next' = next) /\ (how' = "finished" => how = "finished")
      BY <1>6 DEF Next, vars, disk, machine, Installer, Installed, Load, Format, InstallPackages, StageNode,
         Arm, StageUnlock, BuildImage, ConfigureLogin, AuthorizeKeys, EnableSshd, AllowSsh, StageAuthkey,
         EnableJoin, AllowTailnet, ValidateBoot,
         PowerOn, PowerOff, Network, Up, RemoveKey, DisableJoin, Rest, Goto, Onwards
    <2> QED BY <1>0, <1>a, <2>1, <2>2 DEF Imprinted
  <1> QED BY <1>1, <1>2, <1>3, <1>4, <1>5, <1>6

\* Every step keeps the types.
LEMMA TypeNext == IInv /\ [Next]_vars => TypeOK'
  <1> SUFFICES ASSUME IInv, [Next]_vars PROVE TypeOK'
    OBVIOUS
  <1>0. TypeOK /\ install' = install
    BY Writers DEF IInv
  <1>1. pc' \in {"load", "format", "packages", "stage", "arm", "unlock", "build", "login", "ssh", "sshd",
             "allow ssh", "tailscale", "join", "allow tailnet", "validate", "snapshot", "take", "scrub", "over"}
        /\ how' \in {"none", "failed", "stopped", "finished"}
    BY <1>0 DEF TypeOK, Next, vars, Installer, Installed, Load, Format, InstallPackages, StageNode,
         Arm, StageUnlock, BuildImage, ConfigureLogin, AuthorizeKeys, EnableSshd, AllowSsh, StageAuthkey,
         EnableJoin, AllowTailnet, ValidateBoot, DeleteOld, TakeSnapshot, Scrub, Seal, Stop,
         PowerOn, PowerOff, Network, Up, RemoveKey, DisableJoin, Rest, Goto, Over, Failed, Onwards
  <1>2. given' \in [block : Passwords \cup {Nothing}, creds : Passwords \cup {Nothing}]
    <2>1. CASE Load
      BY <1>0, <2>1 DEF TypeOK, Load, Inject, Passwords
    <2>2. CASE ~ Load
      BY <1>0, <2>2, Writers DEF TypeOK
    <2> QED BY <2>1, <2>2
  <1>3. slot' \in Passwords \cup {Nothing}
    <2>1. CASE Format
      BY <1>0, <2>1 DEF TypeOK, Format, Failed, disk
    <2>2. CASE ~ Format
      BY <1>0, <2>2, Writers DEF TypeOK
    <2> QED BY <2>1, <2>2
  <1>4. root' \in Files
    BY <1>0 DEF TypeOK, Files, Contents, Next, vars, Installer, Installed, Load, Format, InstallPackages, StageNode,
         Arm, StageUnlock, BuildImage, ConfigureLogin, AuthorizeKeys, EnableSshd, AllowSsh, StageAuthkey,
         EnableJoin, AllowTailnet, ValidateBoot, DeleteOld, TakeSnapshot, Scrub, Seal, Stop, Passphrase,
         PowerOn, PowerOff, Network, Up, RemoveKey, DisableJoin, Rest, Failed, Writes, Onwards, disk
  <1>5. image' \in [built : BOOLEAN, key : Contents, asks : BOOLEAN, conf : SUBSET {"cryptdevice", "cryptkey"}]
    <2>1. CASE BuildImage /\ ~ Failed
      <3>1. PICK conf \in SUBSET ((IF slot # Nothing THEN {"cryptdevice"} ELSE {})
                               \cup (IF Has(root, "unlock conf") THEN {"cryptkey"} ELSE {})), built \in BOOLEAN :
            image' = [built |-> built, conf |-> conf,
                      key |-> IF built /\ Has(root, "files conf") THEN root["keyfile"] ELSE Nothing,
                      asks |-> built /\ Has(root, "unlock conf")]
        BY <2>1 DEF BuildImage
      <3>2. root["keyfile"] \in Contents /\ Nothing \in Contents
        BY <1>0 DEF TypeOK, Files, Paths, Contents
      <3>3. (IF built /\ Has(root, "files conf") THEN root["keyfile"] ELSE Nothing) \in Contents
        BY <3>2
      <3>4. conf \in SUBSET {"cryptdevice", "cryptkey"} /\ (built /\ Has(root, "unlock conf")) \in BOOLEAN
        BY <3>1
      <3> QED BY <3>1, <3>3, <3>4
    <2>2. CASE ~ BuildImage \/ Failed
      BY <1>0, <2>2, Writers DEF TypeOK, Failed, disk
    <2> QED BY <2>1, <2>2
  <1>6. factory' \in [there : BOOLEAN, ro : BOOLEAN, files : Files]
    <2>1. CASE DeleteOld
      <3>1. NoFactory \in [there : BOOLEAN, ro : BOOLEAN, files : Files]
        BY DEF NoFactory, Files, Contents
      <3>2. factory' = factory \/ factory' = NoFactory
        BY <2>1 DEF DeleteOld, Failed, disk
      <3> QED BY <1>0, <3>1, <3>2 DEF TypeOK
    <2>2. CASE TakeSnapshot
      <3>1. factory' = factory \/ factory' = [there |-> TRUE, ro |-> FALSE, files |-> root]
        BY <2>2 DEF TakeSnapshot, Failed, disk
      <3>2. root \in Files /\ factory \in [there : BOOLEAN, ro : BOOLEAN, files : Files]
        BY <1>0 DEF TypeOK
      <3>3. [there |-> TRUE, ro |-> FALSE, files |-> root] \in [there : BOOLEAN, ro : BOOLEAN, files : Files]
        BY <3>2
      <3> QED BY <3>1, <3>2, <3>3, Zenon
    <2>3. CASE Scrub
      <3>1. CASE factory' = [factory EXCEPT !.files[ScrubPaths[next]] = Nothing]
        BY <1>0, <3>1 DEF TypeOK, Files, Contents
      <3>2. CASE Failed
        BY <1>0, <3>2 DEF TypeOK, Failed, disk
      <3> QED BY <2>3, <3>1, <3>2 DEF Scrub
    <2>4. CASE Seal
      BY <1>0, <2>4 DEF TypeOK, Seal, Failed, disk
    <2>5. CASE ~ DeleteOld /\ ~ TakeSnapshot /\ ~ Scrub /\ ~ Seal
      BY <1>0, <2>5, Writers DEF TypeOK
    <2> QED BY <2>1, <2>2, <2>3, <2>4, <2>5
  <1>7. next' \in 1 .. Len(ScrubPaths) + 1
    <2>1. next \in 1 .. 9
      BY <1>0, NextRange
    <2>2. next' = next \/ next' = 1 \/ (next' = next + 1 /\ next <= Len(ScrubPaths))
      BY DEF Next, vars, Installer, Installed, Load, Format, InstallPackages, StageNode,
         Arm, StageUnlock, BuildImage, ConfigureLogin, AuthorizeKeys, EnableSshd, AllowSsh, StageAuthkey,
         EnableJoin, AllowTailnet, ValidateBoot, DeleteOld, TakeSnapshot, Scrub, Seal, Stop,
         PowerOn, PowerOff, Network, Up, RemoveKey, DisableJoin, Rest, Failed, Writes, Onwards, disk
    <2>3. Len(ScrubPaths) = 8
      BY ScrubLength
    <2> QED BY <2>1, <2>2, <2>3
  <1>8. power' \in {"on", "off"} /\ boots' \in 0 .. MaxBoots /\ online' \in BOOLEAN /\ joined' \in BOOLEAN
        /\ unit' \in {"idle", "up", "remove", "disable"} /\ (unit' \in {"remove", "disable"} => joined')
    <2>1. CASE Installer \/ Rest \/ UNCHANGED vars
      BY <1>0, <2>1 DEF TypeOK, vars, Installer, Load, Format, InstallPackages, StageNode,
         Arm, StageUnlock, BuildImage, ConfigureLogin, AuthorizeKeys, EnableSshd, AllowSsh, StageAuthkey,
         EnableJoin, AllowTailnet, ValidateBoot, DeleteOld, TakeSnapshot, Scrub, Seal, Stop,
         Rest, Goto, Over, Failed, machine
    <2>2. CASE PowerOn
      <3>1. MaxBoots \in Nat
        BY ProvisioningAssumption
      <3>2. boots \in 0 .. MaxBoots /\ online \in BOOLEAN /\ joined \in BOOLEAN
        BY <1>0 DEF TypeOK
      <3>3. boots' \in 0 .. MaxBoots
        <4>1. boots < MaxBoots /\ boots' = boots + 1
          BY <2>2 DEF PowerOn
        <4> QED BY <3>1, <3>2, <4>1
      <3> QED BY <2>2, <3>2, <3>3 DEF PowerOn
    <2>3. CASE PowerOff \/ Network \/ Up \/ RemoveKey \/ DisableJoin
      BY <1>0, <2>3 DEF TypeOK, PowerOff, Network, Up, RemoveKey, DisableJoin
    <2> QED BY <2>1, <2>2, <2>3 DEF Next, Installed
  <1> QED BY <1>0, <1>1, <1>2, <1>3, <1>4, <1>5, <1>6, <1>7, <1>8 DEF TypeOK

\* The invariant is inductive.
LEMMA IInvNext == IInv /\ [Next]_vars => IInv'
  BY TypeNext, ClosedNext, SecretNext, ArmedNext, ImagedNext, DoorNext, VisitedNext, UplinkedNext, ImprintedNext DEF IInv

\* Every reachable state satisfies it.
THEOREM Inductive == Spec => []IInv
  BY InitIInv, IInvNext, PTL DEF Spec

\* What the assumption says of the installation at hand.
LEMMA Asked ==
  ASSUME TypeOK
  PROVE  /\ install.volume # Nothing => install.luks /\ install.block = "none"
         /\ install.volume # Nothing => install.credpw \in {Nothing, install.volume}
         /\ install.deferred \in BOOLEAN
         /\ install.block \in {"none", "no_encryption", "luks"}
  BY ProvisioningAssumption DEF TypeOK

\* The passphrase that is staged is the one the volume was made with.
LEMMA StagedOpens ==
  ASSUME IInv, how = "finished", install.deferred, slot # Nothing
  PROVE  EncryptedInstall /\ Keyed /\ Passphrase = slot
  <1>0. /\ TypeOK /\ Secret /\ Armed
        /\ Past(FromFormat) /\ Past(FromPackages) /\ Past(FromBuild)
    BY DEF IInv, Past
  <1>1. CASE install.block = "luks"
    <2>1. given.block = given.creds /\ slot = given.block
      BY <1>0, <1>1 DEF Secret
    <2> QED BY <1>0, <1>1, <2>1 DEF EncryptedInstall, Armed, Passphrase
  <1>2. CASE install.block # "luks"
    <2>1. slot = install.volume /\ install.volume # Nothing
      BY <1>0, <1>2 DEF Secret
    <2>2. install.luks /\ install.block = "none" /\ install.credpw \in {Nothing, slot}
      BY <1>0, <2>1, Asked
    <2>3. EncryptedInstall /\ Keyed
      BY <1>0, <2>2 DEF EncryptedInstall, Armed
    <2>4. given.block = Nothing /\ given.creds = install.credpw
      BY <1>0, <2>2 DEF Secret
    <2> QED BY <2>2, <2>3, <2>4 DEF Passphrase, Keyed
  <1> QED BY <1>1, <1>2

\* _inject_provisioning_encryption_password to validate_boot: a deferred machine is
\* handed over only with its setup armed and, encrypted, with the key that opens it.
THEOREM BootsToOwnerSetupCorrect == Spec => []BootsToOwnerSetup
  <1>1. IInv => BootsToOwnerSetup
    <2> SUFFICES ASSUME IInv, how = "finished", install.deferred
                 PROVE  /\ Has(root, "pending") /\ Has(root, "unit") /\ Has(root, "wants") /\ Has(root, "node")
                        /\ slot # Nothing =>
                             /\ UnlocksItself
                             /\ image.built => image.key = slot
                             /\ root["luks-key"] = slot /\ root["keyfile"] = slot
      BY DEF BootsToOwnerSetup
    <2>1. /\ Armed /\ Imaged
          /\ Past(FromArm) /\ Past(FromUnlock) /\ Past(FromLogin) /\ Past(FromSnapshot)
      BY DEF IInv, Past
    <2>2. Has(root, "pending") /\ Has(root, "unit") /\ Has(root, "wants") /\ Has(root, "node")
      BY <2>1 DEF Armed
    <2>3. ASSUME slot # Nothing
          PROVE  UnlocksItself /\ (image.built => image.key = slot) /\ root["luks-key"] = slot /\ root["keyfile"] = slot
      <3>1. EncryptedInstall /\ Keyed /\ Passphrase = slot
        BY <2>3, StagedOpens
      <3>2. image.asks = image.built /\ (image.built => image.key = slot)
        BY <2>1, <3>1 DEF Imaged
      <3>3. (install.uefi => image.built) /\ "cryptkey" \in image.conf
        BY <2>1, <3>1 DEF Imaged
      <3> QED BY <3>1, <3>2, <3>3 DEF UnlocksItself, Keyed
    <2> QED BY <2>2, <2>3
  <1> QED BY <1>1, Inductive, PTL

\* configure_login and validate_boot: who logs in by itself has typed a passphrase.
THEOREM AutologinBehindPromptCorrect == Spec => []AutologinBehindPrompt
  <1>1. IInv => AutologinBehindPrompt
    <2> SUFFICES ASSUME IInv, how = "finished", Has(root, "autologin")
                 PROVE  slot # Nothing /\ ~ UnlocksItself
      BY DEF AutologinBehindPrompt
    <2>1. Imaged /\ Past(FromSnapshot) /\ install.flag /\ ~ install.deferred
      BY DEF IInv, Door, Past
    <2>2. slot # Nothing
      BY <2>1 DEF Imaged
    <2>3. ~ image.asks /\ "cryptkey" \notin image.conf
      BY <2>1 DEF Imaged
    <2> QED BY <2>2, <2>3 DEF UnlocksItself
  <1> QED BY <1>1, Inductive, PTL

\* configure_ssh_access, configure_tailscale and the join unit: what the drive asked
\* for is on the machine, on every boot until it has served.
THEOREM ReachableCorrect == Spec => []Reachable
  <1>1. IInv => Reachable
    <2> SUFFICES ASSUME IInv, how = "finished" PROVE Reachable
      BY DEF Reachable
    <2>1. /\ Visited /\ Uplinked /\ TypeOK
          /\ Past(FromSshd) /\ Past(FromAllowSsh) /\ Past(FromTailscale)
          /\ Past(FromStage) /\ Past(FromJoin) /\ Past(FromAllowTailnet) /\ Past(FromValidate)
      BY DEF IInv, Past
    <2>2. install.keys # "none" => Has(root, IF install.deferred THEN "owner keys" ELSE "user keys")
      BY <2>1, Asked DEF Visited
    <2>3. install.keys # "none" => Has(root, "sshd") /\ Has(root, "ssh rule")
      BY <2>1 DEF Visited
    <2>4. install.authkey # "none" =>
            /\ Has(root, "tailscale") /\ Has(root, "tailnet rule")
            /\ joined \/ (Has(root, "authkey") /\ Has(root, "join unit") /\ Has(root, "join wants"))
      BY <2>1 DEF Uplinked
    <2> QED BY <2>2, <2>3, <2>4 DEF Reachable
  <1> QED BY <1>1, Inductive, PTL

\* create_factory_snapshot: an image that is sealed is clean and can reset the machine.
THEOREM SealedFactoryCleanCorrect == Spec => []SealedFactoryClean
  <1>1. IInv => SealedFactoryClean
    <2> SUFFICES ASSUME IInv, how = "finished", install.btrfs PROVE SealedFactoryClean
      BY DEF SealedFactoryClean
    <2>1. /\ factory.there /\ factory.ro /\ Has(factory.files, "node")
          /\ \A i \in 1 .. 8 : ~ Has(factory.files, ScrubPaths[i])
      BY DEF IInv, Imprinted
    <2>2. /\ ScrubPaths[1] = "owner keys" /\ ScrubPaths[2] = "luks-key"
          /\ ScrubPaths[3] = "keyfile" /\ ScrubPaths[4] = "unlock conf"
          /\ ScrubPaths[5] = "files conf" /\ ScrubPaths[6] = "authkey"
          /\ ScrubPaths[7] = "join unit" /\ ScrubPaths[8] = "join wants"
      BY DEF ScrubPaths
    <2>3. /\ ~ Has(factory.files, ScrubPaths[1]) /\ ~ Has(factory.files, ScrubPaths[2])
          /\ ~ Has(factory.files, ScrubPaths[3]) /\ ~ Has(factory.files, ScrubPaths[4])
          /\ ~ Has(factory.files, ScrubPaths[5]) /\ ~ Has(factory.files, ScrubPaths[6])
          /\ ~ Has(factory.files, ScrubPaths[7]) /\ ~ Has(factory.files, ScrubPaths[8])
      BY <2>1
    <2>4. \A path \in Credentials : ~ Has(factory.files, path)
      BY <2>2, <2>3 DEF Credentials
    <2>5. /\ ~ Has(factory.files, "files conf") /\ ~ Has(factory.files, "unlock conf")
          /\ ~ Has(factory.files, "join unit") /\ ~ Has(factory.files, "join wants")
      BY <2>2, <2>3
    <2> QED BY <2>1, <2>4, <2>5 DEF SealedFactoryClean
  <1> QED BY <1>1, Inductive, PTL

\* Types, and: the unit removes the tailnet key of a machine that has joined only.
THEOREM TypeCorrect == Spec => []TypeOK
  <1>1. IInv => TypeOK
    BY DEF IInv
  <1> QED BY <1>1, Inductive, PTL
=============================================================================
