CONSTANTS
    Modules <- MCModules
    Schedules <- MCSchedules
    Autos <- MCNoAuto
    Settings <- MCForks
    MaxLag = 2
    MaxEdits = 0
    MaxCrashes = 0
SPECIFICATION FairSpec
CHECK_DEADLOCK FALSE
PROPERTY ForkHappens
