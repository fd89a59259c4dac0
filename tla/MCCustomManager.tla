--------------------------- MODULE MCCustomManager ---------------------------
(* Small instances of CustomManager. *)
EXTENDS CustomManager, TLC

MCModules == {"a", "b"}

\* A Module alone for which everything may fail, and two that share the clock.
MCScenarios ==
    {"a" :> FaultKinds,
     "a" :> {"pod", "runner", "image"} @@ "b" :> {}}

MCMaxFlips == [f \in MCScenarios |-> IF DOMAIN f = MCModules THEN 1 ELSE 3]
=============================================================================
