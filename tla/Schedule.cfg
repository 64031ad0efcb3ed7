SPECIFICATION FairSpec
CONSTANTS
    Bins = {"green", "black"}
    BinUnknown = BinUnknown
    MaxJobs = 2
    Schedules <- MCSchedules
    Start = 2
    CutTimes = {1}
    Syncers = {"main", "console"}
    MaxError = 1
    Horizon = 4
    MaxInbox = 1
INVARIANTS
    TypeOK
    JobsOfOneResponse
    ClockFollows
PROPERTIES
    LedsFollowSchedule
    LedsSettle
