------------------------- MODULE MCModuleController -------------------------
(* Constants for model checking ModuleController: a release of two workloads   *)
(* of different size.                                                          *)
EXTENDS ModuleController

CONSTANTS api, db

MCWorkloads == {api, db}
MCReplicas == [w \in MCWorkloads |-> IF w = api THEN 2 ELSE 1]

MCFaults == FaultKinds
MCHelmFaults == {"helm", "chart"}
MCNoFaults == {}
MCMoves == MoveKinds
MCNoMoves == {}
=============================================================================
