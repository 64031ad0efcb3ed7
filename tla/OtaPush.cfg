SPECIFICATION PushFairSpec
CONSTANTS
    Data = {0, 1}
    OtherData = {1}
    Erased = Erased
    Garbage = Garbage
    Old = Old
    SectorSize = 4
    PageSize = 2
    PartitionSectors = 2
    TrackedSectors = 3
    ChunkCap = 4
    TableSize = 2
    FlashSize = 22
    WordSize = 32
    Image <- MCPushImage
    ImageLen = 3
    ChunkLens <- MCPushLens
    DoneTails <- MCTailsLate
    BuyResults = {"ok", "error"}
    OtherTails <- MCTails
    AddressSpace = 16
    PayloadCap = 2
    MaxOutput = 6
    Gap = 0
    Files <- MCFiles
    PushChunk = 2
INVARIANTS
    PushTypeOK
    FlashHoldsStream
    WritesErasedCells
    VerifiedImage
    ReportIsTrue
PROPERTIES
    RunningUntouched
    ImplementsFirmwareUpdate
    SessionEnds
