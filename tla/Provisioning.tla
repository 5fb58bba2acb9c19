---------------------------- MODULE Provisioning ----------------------------
(***************************************************************************)
(* Handing a machine over: the credentials an installation stages for its  *)
(* first boot (the throwaway LUKS passphrase of a deferred installation,   *)
(* SSH keys, a tailnet key), who may log in without a password, and the    *)
(* factory snapshot, which is taken of the finished root and must know     *)
(* none of it.  Phases stage_provisioning_state to create_factory_snapshot *)
(* of phases_impl.py, the passphrase of context.py, and the unit that      *)
(* joins the tailnet on the boots that follow.                             *)
(*                                                                         *)
(* Every attempt begins on a freshly made root, so one attempt is enough;  *)
(* an old @factory can only come with a filesystem somebody else prepared. *)
(***************************************************************************)
EXTENDS Naturals, Sequences

CONSTANTS
  Installs,  \* what can be asked for, with the medium it is installed from
  MaxBoots   \* bound: how often the installed machine is switched on

\* Passphrases; Nothing is the absence of one.
Passwords == {"theirs", "other", "generated"}
Nothing == "nothing"

\* What the phases write to the root; a file is absent, there, or a passphrase.
Paths == {"node", "pending", "unit", "wants", "luks-key", "keyfile", "unlock conf", "files conf",
          "autologin", "owner keys", "user keys", "sshd", "ssh rule",
          "tailscale", "authkey", "join unit", "join wants", "tailnet rule"}
Contents == {Nothing, "there"} \cup Passwords
Files == [Paths -> Contents]

\* FACTORY_SCRUB_PATHS, in its order.
ScrubPaths == <<"owner keys", "luks-key", "keyfile", "unlock conf", "files conf",
                "authkey", "join unit", "join wants">>

(***************************************************************************)
(* deferred: the account is made at first boot; protected: the target is   *)
(* mounted already, volume what it was encrypted with and luks whether the *)
(* configuration tells its UUID; block and blockpw: the disk_encryption of *)
(* the configuration, credpw: encryption_password of the credentials;      *)
(* flag: ctx.encrypt; keys, authkey: the files of an autoinstall drive;    *)
(* node, setup, tailscale: what the medium brings; uefi: the machine has   *)
(* UEFI; btrfs: the root is @.                                             *)
(***************************************************************************)
ASSUME ProvisioningAssumption ==
  /\ MaxBoots \in Nat
  /\ \A i \in Installs :
       /\ {i.deferred, i.protected, i.luks, i.flag, i.node, i.setup, i.tailscale,
           i.uefi, i.btrfs, i.oldfactory} \subseteq BOOLEAN
       /\ i.block \in {"none", "no_encryption", "luks"}
       /\ {i.blockpw, i.credpw, i.volume} \subseteq {Nothing, "theirs", "other"}
       /\ {i.keys, i.authkey} \subseteq {"none", "usable", "unusable"}
       /\ i.block = "none" => i.blockpw = Nothing
       /\ i.luks <=> i.volume # Nothing
       /\ i.luks \/ i.oldfactory => i.protected
       /\ i.protected => i.block = "none" /\ i.credpw \in {Nothing, i.volume}

VARIABLES
  install,  \* the installation
  pc,       \* the step about to be taken
  how,      \* how it ended
  given,    \* the passphrase in the configuration and in the credentials
  slot,     \* the passphrase that opens the root's volume, Nothing if it is plain
  root,     \* the files of the target's root
  image,    \* the kernel image, and what limine.conf says
  factory,  \* the subvolume @factory
  next,     \* how many paths of the snapshot are scrubbed, plus one
  power, boots, online,  \* the installed machine: is it on, how often, is there a network
  unit,     \* the line omarchy-tailscale-join.service is at
  joined    \* the machine is in the tailnet

disk == <<slot, root, image, factory, next>>
machine == <<power, boots, online, unit, joined>>
vars == <<install, pc, how, given, disk, machine>>

\* key: the keyfile inside the image; asks: its command line names that file.
NoImage == [built |-> FALSE, key |-> Nothing, asks |-> FALSE, conf |-> {}]
NoFactory == [there |-> FALSE, ro |-> FALSE, files |-> [p \in Paths |-> Nothing]]

Has(files, path) == files[path] # Nothing

Goto(step) == pc' = step /\ UNCHANGED <<install, how, machine>>
Over(end) == pc' = "over" /\ how' = end /\ UNCHANGED <<install, machine>>
\* An exception; what the phase had written before it is not looked at again.
Failed == Over("failed") /\ UNCHANGED <<given, disk>>

Writes(files) == root' = files /\ UNCHANGED <<given, slot, image, factory, next>>

Init ==
  /\ install \in Installs
  /\ pc = "load"
  /\ how = "none"
  /\ given = [block |-> install.blockpw, creds |-> install.credpw]
  /\ slot = install.volume
  /\ root = [p \in Paths |-> Nothing]
  /\ image = NoImage
  /\ factory = IF install.oldfactory THEN [NoFactory EXCEPT !.there = TRUE, !.ro = TRUE] ELSE NoFactory
  /\ next = 1
  /\ power = "off" /\ boots = 0 /\ online = FALSE
  /\ unit = "idle" /\ joined = FALSE

-----------------------------------------------------------------------------
(* The passphrase of the volume                                            *)

\* Seeded fault: a passphrase of the configuration is not copied to the credentials.
InjectBlock ==
  LET password == IF given.block # Nothing THEN given.block
                  ELSE IF given.creds # Nothing THEN given.creds ELSE "generated"
  IN IF install.deferred /\ install.block # "none" THEN [given EXCEPT !.block = password] ELSE given

\* _inject_provisioning_encryption_password: one passphrase in both places.
Inject ==
  LET password == IF given.block # Nothing THEN given.block
                  ELSE IF given.creds # Nothing THEN given.creds ELSE "generated"
  IN IF install.deferred /\ install.block # "none" THEN [block |-> password, creds |-> password] ELSE given

Load ==
  /\ pc = "load"
  /\ given' = Inject
  /\ Goto("format")
  /\ UNCHANGED disk

\* archinstall encrypts with one of the two it is given.
Format ==
  /\ pc = "format"
  /\ \/ /\ install.block = "luks"
        /\ slot' \in {given.block, given.creds} \ {Nothing}
        /\ Goto("packages")
        /\ UNCHANGED <<given, root, image, factory, next>>
     \/ install.block # "luks" /\ Goto("packages") /\ UNCHANGED <<given, disk>>
     \/ Failed

\* tailscale is installed from the medium for the key that asks for it.
InstallPackages ==
  /\ pc = "packages"
  /\ \/ /\ install.authkey # "none" => install.tailscale
        /\ Writes([root EXCEPT !["tailscale"] = IF install.authkey # "none" THEN "there" ELSE Nothing])
        /\ Goto("stage")
     \/ Failed

-----------------------------------------------------------------------------
(* stage_provisioning_state                                                *)

\* _provision_install_encrypted
EncryptedInstall == install.luks \/ install.block = "luks" \/ install.flag

StageNode ==
  /\ pc = "stage"
  /\ \/ /\ install.node
        /\ Writes([root EXCEPT !["node"] = "there"])
        /\ Goto(IF install.deferred THEN "arm" ELSE "build")
     \/ Failed

Arm ==
  /\ pc = "arm"
  /\ \/ /\ install.setup
        /\ Writes([root EXCEPT !["pending"] = "there", !["unit"] = "there", !["wants"] = "there"])
        /\ Goto(IF EncryptedInstall THEN "unlock" ELSE "build")
     \/ Failed

\* _provision_encryption_password
Passphrase == IF given.block # Nothing THEN given.block ELSE given.creds

\* _stage_provisioning_luks_unlock
StageUnlock ==
  /\ pc = "unlock"
  /\ \/ /\ Passphrase # Nothing
        /\ Writes([root EXCEPT !["luks-key"] = Passphrase, !["keyfile"] = Passphrase,
                               !["unlock conf"] = "there", !["files conf"] = "there"])
        /\ Goto("build")
     \/ Failed

\* limine-update packs the files and the command line that are configured now
\* into the image and writes limine.conf, or leaves either out.
BuildImage ==
  /\ pc = "build"
  /\ \/ /\ \E conf \in SUBSET ((IF slot # Nothing THEN {"cryptdevice"} ELSE {})
                               \cup (IF Has(root, "unlock conf") THEN {"cryptkey"} ELSE {})),
              built \in BOOLEAN :
             /\ image' = [built |-> built, conf |-> conf,
                          key |-> IF built /\ Has(root, "files conf") THEN root["keyfile"] ELSE Nothing,
                          asks |-> built /\ Has(root, "unlock conf")]
             /\ slot # Nothing => "cryptdevice" \in conf
        /\ Goto("login")
        /\ UNCHANGED <<given, slot, root, factory, next>>
     \/ Failed

-----------------------------------------------------------------------------
(* configure_login, configure_ssh_access, configure_tailscale              *)

\* Seeded fault: an encrypted installation logs in although it has no user yet.
ConfigureLoginAlways ==
  /\ pc = "login"
  /\ \/ /\ Writes([root EXCEPT !["autologin"] = IF install.flag THEN "there" ELSE Nothing])
        /\ Goto("ssh")
     \/ Failed

ConfigureLogin ==
  /\ pc = "login"
  /\ \/ /\ Writes([root EXCEPT !["autologin"] = IF install.flag /\ ~ install.deferred THEN "there" ELSE Nothing])
        /\ Goto("ssh")
     \/ Failed

\* The keys go to the user, or wait for the owner.
AuthorizeKeys ==
  /\ pc = "ssh"
  /\ \/ install.keys = "none" /\ Goto("tailscale") /\ UNCHANGED <<given, disk>>
     \/ /\ install.keys = "usable"
        /\ Writes([root EXCEPT ![IF install.deferred THEN "owner keys" ELSE "user keys"] = "there"])
        /\ Goto("sshd")
     \/ install.keys # "none" /\ Failed

EnableSshd ==
  /\ pc = "sshd"
  /\ (Writes([root EXCEPT !["sshd"] = "there"]) /\ Goto("allow ssh")) \/ Failed

\* Seeded fault: what ufw has recorded is not looked at.
AllowSshUnchecked ==
  /\ pc = "allow ssh"
  /\ \E rule \in {"there", Nothing} : Writes([root EXCEPT !["ssh rule"] = rule])
  /\ Goto("tailscale")

\* ufw's exit status says nothing in a chroot; the rule has to be in its file.
AllowSsh ==
  /\ pc = "allow ssh"
  /\ (Writes([root EXCEPT !["ssh rule"] = "there"]) /\ Goto("tailscale")) \/ Failed

StageAuthkey ==
  /\ pc = "tailscale"
  /\ \/ install.authkey = "none" /\ Goto("validate") /\ UNCHANGED <<given, disk>>
     \/ /\ install.authkey = "usable" /\ Has(root, "tailscale")
        /\ Writes([root EXCEPT !["authkey"] = "there"])
        /\ Goto("join")
     \/ install.authkey # "none" /\ Failed

EnableJoin ==
  /\ pc = "join"
  /\ \/ /\ Writes([root EXCEPT !["join unit"] = "there", !["join wants"] = "there"])
        /\ Goto("allow tailnet")
     \/ Failed

AllowTailnet ==
  /\ pc = "allow tailnet"
  /\ (Writes([root EXCEPT !["tailnet rule"] = "there"]) /\ Goto("validate")) \/ Failed

-----------------------------------------------------------------------------
(* validate_boot, as far as it looks at what was staged                    *)

\* Seeded fault: nothing looks whether the image unlocks itself.
ValidStateTrusting ==
  install.deferred => Has(root, "pending") /\ Has(root, "wants") /\ Has(root, "node")

\* _validate_provisioning_state
ValidState ==
  install.deferred =>
    /\ Has(root, "pending") /\ Has(root, "wants") /\ Has(root, "node")
    /\ EncryptedInstall =>
         /\ Has(root, "luks-key") /\ Has(root, "keyfile")
         /\ "cryptkey" \in image.conf

ValidateBoot ==
  /\ pc = "validate"
  /\ \/ /\ install.flag => "cryptdevice" \in image.conf
        /\ install.uefi => image.built
        /\ ValidState
        /\ Goto("snapshot")
        /\ UNCHANGED <<given, disk>>
     \/ Failed

-----------------------------------------------------------------------------
(* create_factory_snapshot                                                 *)

\* Not on anything but a @ of btrfs; an old @factory is deleted.
DeleteOld ==
  /\ pc = "snapshot"
  /\ \/ ~ install.btrfs /\ Over("finished") /\ UNCHANGED <<given, disk>>
     \/ /\ install.btrfs
        /\ factory' = NoFactory
        /\ Goto("take")
        /\ UNCHANGED <<given, slot, root, image, next>>
     \/ Failed

TakeSnapshot ==
  /\ pc = "take"
  /\ \/ /\ factory' = [there |-> TRUE, ro |-> FALSE, files |-> root]
        /\ next' = 1
        /\ Goto("scrub")
        /\ UNCHANGED <<given, slot, root, image>>
     \/ Failed

\* Seeded fault: the drop-ins of a scrubbed key are left behind.
ScrubKeysOnly ==
  /\ pc = "scrub" /\ next <= Len(ScrubPaths)
  /\ \/ /\ factory' = IF ScrubPaths[next] \in {"unlock conf", "files conf", "join wants"} THEN factory
                      ELSE [factory EXCEPT !.files[ScrubPaths[next]] = Nothing]
        /\ next' = next + 1
        /\ Goto("scrub")
        /\ UNCHANGED <<given, slot, root, image>>
     \/ Failed

\* _scrub_factory_snapshot, one path at a time.
Scrub ==
  /\ pc = "scrub" /\ next <= Len(ScrubPaths)
  /\ \/ /\ factory' = [factory EXCEPT !.files[ScrubPaths[next]] = Nothing]
        /\ next' = next + 1
        /\ Goto("scrub")
        /\ UNCHANGED <<given, slot, root, image>>
     \/ Failed

Seal ==
  /\ pc = "scrub" /\ next > Len(ScrubPaths)
  /\ \/ /\ factory' = [factory EXCEPT !.ro = TRUE]
        /\ Over("finished")
        /\ UNCHANGED <<given, slot, root, image, next>>
     \/ Failed

\* The user cancels, or the power goes.
Stop == pc # "over" /\ Over("stopped") /\ UNCHANGED <<given, disk>>

-----------------------------------------------------------------------------
(* The installed machine, and omarchy-tailscale-join.service on it         *)

Onwards == UNCHANGED <<install, pc, how, given, slot, image, factory, next>>

\* The unit is started if it is enabled and its condition, the key, is met.
PowerOn ==
  /\ how = "finished" /\ power = "off" /\ boots < MaxBoots
  /\ power' = "on" /\ boots' = boots + 1
  /\ unit' = IF Has(root, "join wants") /\ Has(root, "authkey") THEN "up" ELSE "idle"
  /\ Onwards /\ UNCHANGED <<root, online, joined>>

PowerOff ==
  /\ power = "on" /\ boots < MaxBoots
  /\ power' = "off" /\ unit' = "idle" /\ online' = FALSE
  /\ Onwards /\ UNCHANGED <<root, boots, joined>>

Network ==
  /\ power = "on"
  /\ online' = ~ online
  /\ Onwards /\ UNCHANGED <<root, power, boots, unit, joined>>

\* Seeded fault: the key is tried once.
UpOnce ==
  /\ unit = "up"
  /\ joined' = (joined \/ online)
  /\ unit' = IF joined \/ online THEN "remove" ELSE "idle"
  /\ Onwards /\ UNCHANGED <<root, power, boots, online>>

\* Seeded fault: the key is removed whether or not the join succeeded.
UpUnchecked ==
  /\ unit = "up"
  /\ joined' = (joined \/ online)
  /\ unit' = "remove"
  /\ Onwards /\ UNCHANGED <<root, power, boots, online>>

\* until tailscale up ...; do sleep 15; done
Up ==
  /\ unit = "up" /\ online
  /\ joined' = TRUE
  /\ unit' = "remove"
  /\ Onwards /\ UNCHANGED <<root, power, boots, online>>

RemoveKey ==
  /\ unit = "remove"
  /\ root' = [root EXCEPT !["authkey"] = Nothing]
  /\ unit' = "disable"
  /\ Onwards /\ UNCHANGED <<power, boots, online, joined>>

DisableJoin ==
  /\ unit = "disable"
  /\ root' = [root EXCEPT !["join wants"] = Nothing]
  /\ unit' = "idle"
  /\ Onwards /\ UNCHANGED <<power, boots, online, joined>>

Rest == pc = "over" /\ how # "finished" /\ UNCHANGED vars

-----------------------------------------------------------------------------
Installer ==
  \/ Load \/ Format \/ InstallPackages
  \/ StageNode \/ Arm \/ StageUnlock \/ BuildImage
  \/ ConfigureLogin
  \/ AuthorizeKeys \/ EnableSshd \/ AllowSsh
  \/ StageAuthkey \/ EnableJoin \/ AllowTailnet
  \/ ValidateBoot
  \/ DeleteOld \/ TakeSnapshot \/ Scrub \/ Seal
  \/ Stop

Installed == PowerOn \/ PowerOff \/ Network \/ Up \/ RemoveKey \/ DisableJoin

Next == Installer \/ Installed \/ Rest

Spec == Init /\ [][Next]_vars

\* A machine is switched on again, and systemd runs the unit while it is on.
FairSpec == Spec /\ WF_vars(PowerOn) /\ SF_vars(Up) /\ WF_vars(RemoveKey) /\ WF_vars(DisableJoin)

-----------------------------------------------------------------------------
(* Properties                                                              *)

\* Types; the two places of the passphrase agree once a deferred installation
\* has been loaded, and the key is given up only by a machine that has joined.
TypeOK ==
  /\ install \in Installs
  /\ pc \in {"load", "format", "packages", "stage", "arm", "unlock", "build", "login", "ssh", "sshd",
             "allow ssh", "tailscale", "join", "allow tailnet", "validate", "snapshot", "take", "scrub", "over"}
  /\ how \in {"none", "failed", "stopped", "finished"}
  /\ given \in [block : Passwords \cup {Nothing}, creds : Passwords \cup {Nothing}]
  /\ slot \in Passwords \cup {Nothing}
  /\ root \in Files
  /\ image \in [built : BOOLEAN, key : Contents, asks : BOOLEAN, conf : SUBSET {"cryptdevice", "cryptkey"}]
  /\ factory \in [there : BOOLEAN, ro : BOOLEAN, files : Files]
  /\ next \in 1 .. Len(ScrubPaths) + 1
  /\ power \in {"on", "off"} /\ boots \in 0 .. MaxBoots /\ online \in BOOLEAN /\ joined \in BOOLEAN
  /\ unit \in {"idle", "up", "remove", "disable"}
  /\ unit \in {"remove", "disable"} => joined

\* The volume is opened without anybody typing: UEFI starts the image with its own
\* command line, Limine on a BIOS the kernel with that of limine.conf.
UnlocksItself == IF install.uefi THEN image.asks ELSE "cryptkey" \in image.conf

\* A machine without an account that is handed over comes up in its first-boot
\* setup by itself: the setup is armed, and an encrypted volume is opened by the
\* key inside the image, which is the passphrase archinstall or the rig used
\* and the one first boot finds in luks-key (otherwise: a user-less brick).
BootsToOwnerSetup ==
  how = "finished" /\ install.deferred =>
    /\ Has(root, "pending") /\ Has(root, "unit") /\ Has(root, "wants") /\ Has(root, "node")
    /\ slot # Nothing =>
         /\ UnlocksItself
         /\ image.built => image.key = slot
         /\ root["luks-key"] = slot /\ root["keyfile"] = slot

\* Who gets in without a password has opened the volume with one: no machine
\* is handed over that logs in by itself and is plain or unlocks itself
\* (configure_login relies on a flag that validate_boot holds against limine.conf).
AutologinBehindPrompt ==
  how = "finished" /\ Has(root, "autologin") => slot # Nothing /\ ~ UnlocksItself

\* What an autoinstall drive asked for works on the machine that is handed over:
\* its SSH keys are where they will be honoured and port 22 is open, and the
\* tailnet key is kept, with the enabled unit that needs it, until it was used.
Reachable ==
  how = "finished" =>
    /\ install.keys # "none" =>
         /\ Has(root, IF install.deferred THEN "owner keys" ELSE "user keys")
         /\ Has(root, "sshd") /\ Has(root, "ssh rule")
    /\ install.authkey # "none" =>
         /\ Has(root, "tailscale") /\ Has(root, "tailnet rule")
         /\ joined \/ (Has(root, "authkey") /\ Has(root, "join unit") /\ Has(root, "join wants"))

Credentials == {"owner keys", "luks-key", "keyfile", "authkey"}

\* A sealed factory image has none of this deployment's credentials, nothing
\* that refers to one (a rebuild would fail on FILES, a unit would wait for its
\* key), and it has the tarball a factory reset needs.
SealedFactoryClean ==
  how = "finished" /\ install.btrfs =>
    /\ factory.there /\ factory.ro
    /\ \A path \in Credentials : ~ Has(factory.files, path)
    /\ ~ Has(factory.files, "files conf") /\ ~ Has(factory.files, "unlock conf")
    /\ ~ Has(factory.files, "join unit") /\ ~ Has(factory.files, "join wants")
    /\ Has(factory.files, "node")

\* A machine that has a network again and again joins the tailnet, on whichever
\* boot that is, and forgets the key (the until loop of TAILSCALE_JOIN_UNIT).
JoinsEventually ==
  []<>online => (how = "finished" /\ install.authkey # "none" ~> joined /\ ~ Has(root, "authkey"))

\* Not so: @factory has the credentials from the snapshot to the last unlink, and
\* an installer that ends in between leaves it like that beside a root that boots.
FactoryNeverHoldsCredentials ==
  pc = "over" => \A path \in Credentials : ~ Has(factory.files, path)
=============================================================================
