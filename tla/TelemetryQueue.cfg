SPECIFICATION BodySpec
CONSTANTS
    Records <- MCRecords
    Entry <- MCEntry
    Blank = Blank
    QueueSize = 3
    MessageLen = 128
    HeadLen = 346
    BodyLen = 970
    MaxTraffic = 2
INVARIANTS
    TypeOK
    CountsWhatArrived
PROPERTIES
    ImplementsBoundedLog
