SPECIFICATION Spec
CONSTANTS
    Bins = {"green"}
    BinUnknown = BinUnknown
    MaxJobs = 1
    Schedules <- MCOneJob
    Start = 2
    CutTimes = {1}
    Syncers = {"main"}
    MaxError = 4
    Horizon = 4
    MaxInbox = 2
PROPERTIES
    JobsKept
