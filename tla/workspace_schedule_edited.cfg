CONSTANTS
    Modules <- MCModules
    Schedules <- MCSchedules
    Autos <- MCTwoSchedules
    Settings <- MCEdits
    MaxLag = 2
    MaxEdits = 1
    MaxCrashes = 0
SPECIFICATION FairSpec
CHECK_DEADLOCK FALSE
PROPERTY ScheduleFollowed
