CONSTANTS
    Sources <- MCSources
    Copies <- MCCopies
    From <- MCFrom
    Call <- MCCall
    Place <- MCPlace
    PVCs <- MCPVCs
    Secrets <- MCSecrets
    ConfigMaps <- MCConfigMaps
    Settings <- MCSettings
    MaxLag = 2
    MaxSeconds = 1
    MaxMishaps = 1
SPECIFICATION FairSpec
CHECK_DEADLOCK FALSE
INVARIANT AtRest
INVARIANT PodsMine
INVARIANT NoPodLeft
INVARIANT SourceRestored
INVARIANT NothingDroppedSilently
PROPERTY ModulesKeepContract
PROPERTY MigrationEnds
PROPERTY CopyWoken
