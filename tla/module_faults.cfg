SPECIFICATION Spec
CONSTANTS
    api = api
    db = db
    Workloads <- MCWorkloads
    Replicas <- MCReplicas
    Faults <- MCFaults
    Moves <- MCMoves
    MaxLag = 2
    MaxEdits = 1
    MaxCrashes = 1
INVARIANT Strengthened
INVARIANT NoReleaseLeftSilently
INVARIANT AdoptedReleaseKept
PROPERTY InstallNotRepeated
PROPERTY PhasesInOrder
CHECK_DEADLOCK FALSE
