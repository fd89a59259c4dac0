SPECIFICATION FairSpec
CONSTANTS
    api = api
    db = db
    Workloads <- MCWorkloads
    Replicas <- MCReplicas
    Faults <- MCNoFaults
    Moves <- MCNoMoves
    MaxLag = 1
    MaxEdits = 0
    MaxCrashes = 0
PROPERTY InstalledOnceWorkspaceReady
CHECK_DEADLOCK FALSE
