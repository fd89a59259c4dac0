--------------------------- MODULE MCWorkspaceFork ---------------------------
(* Small instances of WorkspaceFork. *)
EXTENDS WorkspaceFork

MCSources == {"db", "web"}
MCCopies == {"db2", "web2"}
MCFrom == [db2 |-> "db", web2 |-> "web"]
MCCall == [db2 |-> "fork", web2 |-> "fork"]
MCPlace == [db |-> "prod", web |-> "prod", db2 |-> "dev", web2 |-> "dev"]

MCPVCs == << "pvc", "pvc2" >>
MCSecrets == << "secret" >>
MCConfigMaps == << >>

\* A single Module with everything that can go wrong, and two that are migrated beside each
\* other, out of one namespace and into one, where Modules and pods may not be created.
MCAlone(state) ==
    [sources |-> [db |-> state, web |-> NotFound], faults |-> FaultKinds, moves |-> MoveKinds]
MCTwo ==
    [sources |-> [db |-> SourceSleeps, web |-> SourceSleeps], faults |-> {"create", "pod"}, moves |-> {}]

\* A source that is found running; one that is asleep already, once with users and restarts
\* beside the faults of its Modules, pods and patches, once without them and with every
\* fault; and the two beside each other.
MCSettings ==
    {MCAlone(SourceRuns), MCTwo,
     [MCAlone(SourceSleeps) EXCEPT !.faults = {"module", "timeout", "pod", "patch", "config"}],
     [MCAlone(SourceSleeps) EXCEPT !.moves = {}]}
=============================================================================
