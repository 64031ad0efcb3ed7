\* The queue at its real size.
SPECIFICATION Spec
CONSTANTS
    QueueSize = 4
    MaxCycles = 3
PROPERTIES
    PendingKept
