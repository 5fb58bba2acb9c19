-------------------------- MODULE MCInstallInputs --------------------------
(***************************************************************************)
(* Model checking of InstallInputs with drives for an owner and for an     *)
(* imaging rig.  The invariant below is what a comment of the code says of *)
(* it and the code does not keep.                                          *)
(***************************************************************************)
EXTENDS InstallInputs

CONSTANT Flag \* the flag of the rig's configuration

Owner == [files |-> {"configuration", "credentials", "profile", "access"},
          flag |-> "absent", legacy |-> FALSE, users |-> TRUE]
Rig == [files |-> {"configuration", "marker", "access"},
        flag |-> Flag, legacy |-> TRUE, users |-> FALSE]
\* An account beside a marker, or beside a flag that has to win.
Contradictory == [files |-> {"configuration", "credentials", "marker"},
                  flag |-> "false", legacy |-> TRUE, users |-> TRUE]
Flagged == [files |-> {"configuration", "credentials"},
            flag |-> Flag, legacy |-> TRUE, users |-> TRUE]
HalfPair == [files |-> {"configuration", "access"},
             flag |-> "absent", legacy |-> FALSE, users |-> FALSE]

AllDrives == {Owner, Rig, Contradictory, Flagged, HalfPair}
TwoDrives == {Owner, Rig}

(***************************************************************************)
(* .automated_script.sh: deferral is "signalled by the config's            *)
(* defer_provisioning flag (interactive) or the defer-provisioning marker  *)
(* (cidata)", so after the wizard only the flag counts.                    *)
(***************************************************************************)
WizardDecides ==
  pc = "installing" /\ load # "loaded" => (ctx.deferred <=> Configuration.flag = "true")
=============================================================================
