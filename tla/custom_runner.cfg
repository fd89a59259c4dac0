CONSTANTS
    Modules <- MCModules
    Scenarios <- MCScenarios
    MaxSeconds = 2
    MaxFlips <- MCMaxFlips
    MaxMishaps = 1
SPECIFICATION FairSpec
CHECK_DEADLOCK FALSE
INVARIANT RunnerAccountedFor
INVARIANT CalledTheOwnRunner
INVARIANT StateCarried
PROPERTY OperationsEnd
