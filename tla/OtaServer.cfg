SPECIFICATION FairSpec
CONSTANTS
    Flushers = {"senderLoop", "console", "ota"}
    Queues = 2
    BodyParts = 1
    Nobody = Nobody
    Timeouts = {1}
    MaxAge = 2
INVARIANTS
    TypeOK
    QuietSession
PROPERTIES
    OneSessionPerEnable
    Resumed
    PortCloses
