--------------------------- MODULE MCProvisioning ---------------------------
(***************************************************************************)
(* Model checking of Provisioning.                                         *)
(***************************************************************************)
EXTENDS Provisioning

\* The wizard: the account's passphrase in both places, or no encryption.
Wizard == [deferred |-> FALSE, protected |-> FALSE, luks |-> FALSE, volume |-> Nothing,
           block |-> "luks", blockpw |-> "theirs", credpw |-> "theirs", flag |-> TRUE,
           keys |-> "none", authkey |-> "none", node |-> TRUE, setup |-> TRUE, tailscale |-> TRUE,
           uefi |-> TRUE, btrfs |-> TRUE, oldfactory |-> FALSE]

\* What a drive can say of the encryption of a disk archinstall makes.
FullDisk ==
  {[Wizard EXCEPT !.deferred = d, !.block = b, !.blockpw = p, !.credpw = c, !.flag = f] :
     d \in BOOLEAN, b \in {"none", "no_encryption", "luks"}, p \in {Nothing, "theirs"},
     c \in {Nothing, "theirs", "other"}, f \in BOOLEAN}

\* A target that is mounted already, with an old @factory on it.
Mounted ==
  {[Wizard EXCEPT !.protected = TRUE, !.block = "none", !.blockpw = Nothing, !.deferred = d,
                  !.luks = (v # Nothing), !.volume = v, !.credpw = c, !.flag = f, !.oldfactory = TRUE] :
     d \in BOOLEAN, v \in {Nothing, "theirs"}, c \in {Nothing, "theirs"}, f \in BOOLEAN}

\* What a drive can ask for beside it.
Asking ==
  {[Wizard EXCEPT !.deferred = d, !.credpw = Nothing, !.blockpw = IF d THEN Nothing ELSE "theirs",
                  !.keys = k, !.authkey = a] :
     d \in BOOLEAN, k \in {"none", "usable", "unusable"}, a \in {"none", "usable", "unusable"}}

\* Media that lack something, and a root that is not @.
Lacking ==
  LET Rig == [Wizard EXCEPT !.deferred = TRUE, !.keys = "usable", !.authkey = "usable"]
  IN {[Rig EXCEPT !.node = FALSE], [Rig EXCEPT !.setup = FALSE], [Rig EXCEPT !.tailscale = FALSE],
      [Rig EXCEPT !.btrfs = FALSE], [Rig EXCEPT !.uefi = FALSE]}

SomeInstalls ==
  {i \in FullDisk : i.block = "none" => i.blockpw = Nothing}
  \cup {[i EXCEPT !.uefi = FALSE] : i \in {j \in FullDisk : j.block = "luks"}}
  \cup {i \in Mounted : i.credpw \in {Nothing, i.volume}}
  \cup Asking \cup Lacking

OneRig == {[Wizard EXCEPT !.deferred = TRUE, !.keys = "usable"]}
=============================================================================
