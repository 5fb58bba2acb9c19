-------------------------- MODULE InstallHandover --------------------------
(***************************************************************************)
(* What an install promises the person in front of the machine, without    *)
(* the installer: a system is announced as finished, and handed over for   *)
(* the reboot, only when it can boot and can rebuild its boot image; from  *)
(* the announcement on nothing the installer does takes that back.         *)
(***************************************************************************)
CONSTANT Bootable \* the targets' states in which the system boots and keeps booting

VARIABLES status, target

vars == <<status, target>>

Status == {"idle", "installing", "announced", "handedOver", "stopped"}

Init == status = "idle"

\* A new attempt may begin by wiping what an earlier one left.
Begin ==
  /\ status \in {"idle", "stopped"}
  /\ status' = "installing"

Work ==
  /\ status = "installing"
  /\ UNCHANGED status

Announce ==
  /\ status = "installing"
  /\ target \in Bootable
  /\ status' = "announced"
  /\ UNCHANGED target

HandOver ==
  /\ status = "announced"
  /\ status' = "handedOver"
  /\ UNCHANGED target

GiveUp ==
  /\ status \in {"installing", "announced"}
  /\ status' = "stopped"
  /\ status = "announced" => UNCHANGED target

Next == Begin \/ Work \/ Announce \/ HandOver \/ GiveUp

Spec == Init /\ [][Next]_vars

\* Nobody is handed a system that does not boot.
HandedOverBootable == status \in {"announced", "handedOver"} => target \in Bootable
=============================================================================
