SPECIFICATION FairSpec
CONSTANTS
    api = api
    db = db
    Workloads <- MCWorkloads
    Replicas <- MCReplicas
    Faults <- MCHelmFaults
    Moves <- MCMoves
    MaxLag = 2
    MaxEdits = 2
    MaxCrashes = 1
INVARIANT Strengthened
INVARIANT ReadyMeansRunning
INVARIANT SleepedMeansRestorable
PROPERTY KeepsContract
PROPERTY TransitionsEnd
PROPERTY HibernationHappens
PROPERTY SettledDeletionEnds
CHECK_DEADLOCK FALSE
