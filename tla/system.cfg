SPECIFICATION FairSpec
CONSTANTS
    Workloads <- MCWorkloads
    Replicas <- MCReplicas
    ModuleFaults = {"chart"}
    Settings <- MCSettings
    Adoptions = {FALSE}
    MaxLag = 1
    MaxEdits = 1
    MaxCrashes = 1
INVARIANT UninstalledWithItsWorkspace
PROPERTY ControllersComposed
PROPERTY ApplicationSleeps
PROPERTY WorkspaceGoes
CHECK_DEADLOCK FALSE
