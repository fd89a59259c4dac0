SPECIFICATION Spec
CONSTANTS
    Modules = {"a", "b"}
    Workspaces <- MCWorkspaces
    Cluster <- MCTogether
    From <- MCFrom
    Managed = {}
    Requests <- MCOneRequest
    Definitions <- MCDefinitions
    Inputs <- MCInputs
    GeneratedNames <- MCNames
    MaxInt = 7
    Above <- MinInt
    MaxEdits = 0
INVARIANT ForkSparesSource
CHECK_DEADLOCK FALSE
