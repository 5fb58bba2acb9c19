--------------------------- MODULE MCOrchestrator ---------------------------
(***************************************************************************)
(* Model checking of Orchestrator: the configurations give the constants   *)
(* their values.                                                           *)
(***************************************************************************)
EXTENDS Orchestrator
=============================================================================
