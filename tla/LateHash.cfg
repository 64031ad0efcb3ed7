\* The rest of the DONE line may come in after the device stopped waiting.
SPECIFICATION Spec
CONSTANTS
    Data = {0, 1}
    Erased = Erased
    Garbage = Garbage
    Old = Old
    SectorSize = 4
    PageSize = 2
    PartitionSectors = 2
    TrackedSectors = 3
    ChunkCap = 4
    TableSize = 2
    FlashSize = 30
    WordSize = 32
    Image <- MCImage
    ImageLen = 3
    ChunkLens <- MCChunkLens
    DoneTails <- MCTailsLate
    BuyResults = {"ok"}
INVARIANTS
    VerifiedImage
