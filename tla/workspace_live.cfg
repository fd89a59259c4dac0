CONSTANTS
    Modules <- MCModules
    Schedules <- MCSchedules
    Autos <- MCToggle
    Settings <- MCLive
    MaxLag = 2
    MaxEdits = 2
    MaxCrashes = 0
SPECIFICATION FairSpec
CHECK_DEADLOCK FALSE
PROPERTY HibernationFollowed
PROPERTY DeletionEnds
PROPERTY ScheduleFollowed
