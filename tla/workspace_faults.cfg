CONSTANTS
    Modules <- MCModules
    Schedules <- MCSchedules
    Autos <- MCEdited
    Settings <- MCFaults
    MaxLag = 2
    MaxEdits = 1
    MaxCrashes = 1
SPECIFICATION Spec
CHECK_DEADLOCK FALSE
INVARIANT Inductive
INVARIANT NoOrphanEntry
INVARIANT ForkOnce
INVARIANT ReadyHasVCluster
PROPERTY SleepReachesAll
PROPERTY VClusterOutlivesModules
