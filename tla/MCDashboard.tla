---------------------------- MODULE MCDashboard -----------------------------
(***************************************************************************)
(* Model checking of Dashboard.                                            *)
(***************************************************************************)
EXTENDS Dashboard

Someone == [interactive |-> TRUE, deferred |-> FALSE, autoreboot |-> TRUE, failexit |-> FALSE,
            expected |-> 300, held |-> 0]

\* At the keyboard; autoinstall, on a target that holds packages; a deferred
\* installation under test, whose medium has no usable total.
SomeSessions ==
  {Someone,
   [Someone EXCEPT !.interactive = FALSE, !.held = 50],
   [Someone EXCEPT !.deferred = TRUE, !.autoreboot = FALSE, !.failexit = TRUE, !.expected = 299]}
=============================================================================
