\* Chunks may begin inside a page.
SPECIFICATION Spec
CONSTANTS
    Data = {0, 1}
    Erased = Erased
    Garbage = Garbage
    Old = Old
    SectorSize = 4
    PageSize = 2
    PartitionSectors = 2
    TrackedSectors = 3
    ChunkCap = 4
    TableSize = 2
    FlashSize = 30
    WordSize = 32
    Image <- MCImage
    ImageLen = 3
    ChunkLens <- MCChunkLensRagged
    DoneTails <- MCTails
    BuyResults = {"ok"}
INVARIANTS
    VerifiedImage
