SPECIFICATION Spec
CONSTANTS
    Flushers = {"senderLoop", "console", "ota"}
    Queues = 2
    BodyParts = 1
    Nobody = Nobody
    Timeouts = {1}
    MaxAge = 2
PROPERTY
    SentIntact
CHECK_DEADLOCK FALSE
