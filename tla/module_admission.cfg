SPECIFICATION Spec
CONSTANTS
    Modules = {"a", "b", "c"}
    Workspaces <- MCWorkspaces
    Cluster <- MCApart
    From <- MCFrom
    Managed = {"copy"}
    Requests <- MCRequests
    Definitions <- MCDefinitions
    Inputs <- MCInputs
    GeneratedNames <- MCNames
    MaxInt = 7
    Above <- MinInt
    MaxEdits = 1
INVARIANT FoundAgain
INVARIANT ConfigRespected
INVARIANT ReleaseSpared
CHECK_DEADLOCK FALSE
