--------------------------- MODULE MCDeployEngine ---------------------------
(***************************************************************************)
(* DeployEngine on small instances. good is signed and healthy, bad is     *)
(* signed and fails its health check, forged has no valid signature.       *)
(***************************************************************************)
EXTENDS DeployEngine, TLC

CONSTANTS app, plain, good, bad, forged

Ids == Permutations(DepId)

AllFaults == Fault
NoFaults == {}
NoCrash == Fault \ {"crash"}
=============================================================================
