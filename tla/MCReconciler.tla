---------------------------- MODULE MCReconciler ----------------------------
(***************************************************************************)
(* Reconciler on small instances: one app and two versions.                *)
(***************************************************************************)
EXTENDS Reconciler, TLC

CONSTANTS app, v1, v2

Ids == Permutations(DepId)
NoFaults == {}
Crashes == {"crash"}
=============================================================================
