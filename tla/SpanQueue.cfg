SPECIFICATION Spec
CONSTANTS
    QueueSize = 3
    MaxCycles = 3
INVARIANTS
    TypeOK
    NoneStranded
    FlushesWhatItFrees
    SentOnce
    ChildrenOfRoot
    NoSlotLeaks
