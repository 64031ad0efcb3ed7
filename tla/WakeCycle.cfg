SPECIFICATION FairSpec
CONSTANTS
    WakeInterval = 2
    ScheduleRefreshInterval = 8
    CheckInterval = 2
    DebugSleeps <- MCDebugSleeps
    LongestSleep = 3
    NtpMax = 1
    FetchMax = 1
    MqttMaxRetries = 3
    MqttMinBackoff = 3
    MqttMaxBackoff = 5
    MaxConsecutiveFailures = 3
    MaxWithoutRefresh = 44
    WatchdogTimeout = 2
    AgeCap = 90
INVARIANTS
    TypeOK
    RequestKept
    RequestPrompt
    StalenessBound
    LedFreshness
    FailuresBelowThreshold
    TwelveHoursSoon
PROPERTIES
    RequestServed
    StaleResolved
