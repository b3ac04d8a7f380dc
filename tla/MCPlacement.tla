----------------------------- MODULE MCPlacement -----------------------------
(***************************************************************************)
(* Instances of SmolVMPlacement for TLC.                                   *)
(***************************************************************************)
EXTENDS MCController, SmolVMPlacement

(* A bound: passes over an object that is seen bound, which only talk to   *)
(* its runtime, are left out.                                              *)
SchedulingOnly == pc' \notin {"runtime", "deleteRuntime"}

MCPlacementSpec == PlacementInit /\ [][PlacementNext /\ SchedulingOnly]_placementVars
=============================================================================
