------------------------------ MODULE OtaSession -----------------------------
(****************************************************************************)
(* One device's firmware update: handleOTASession (src/ota_server.go) over    *)
(* the flash operations and the partitions of src/ota/ota.go, with what the   *)
(* boot ROM and the flash chip do for them (external).                       *)
(*                                                                          *)
(* A flash cell stands for a unit of data a chunk length counts.  The chip is   *)
(* erased by the sector and programmed by the page, and programming clears     *)
(* bits only: a cell takes the data written when it is erased and the write     *)
(* begins on a page, and holds garbage otherwise.  The SHA-256 of a stream      *)
(* stands for the stream itself.  Each disjunct of Next ends at a point where   *)
(* the code blocks or where a reset would find the flash changed.             *)
(****************************************************************************)
EXTENDS Integers

CONSTANTS
    Data,              \* the values a cell of firmware can hold
    Erased, Garbage,   \* a cell after an erase; one with contents nobody specifies
    Old,               \* whatever the flash held before the first update
    SectorSize,        \* ota.SectorSize
    PageSize,          \* ota.PageSize, the unit of programming
    PartitionSectors,  \* PARTITION_MAX_SIZE in sectors (496)
    TrackedSectors,    \* len(erasedSectors) (512)
    ChunkCap,          \* len(otaChunk)
    ChunkLens,         \* the lengths a header can carry, by offset in the stream
    TableSize,         \* PARTITION_A_OFFSET: the partition table before A
    FlashSize,         \* the size of the flash chip
    WordSize,          \* 2^32, the modulus of the sizes
    Image, ImageLen,   \* the firmware the client means to install
    DoneTails,         \* how the rest of the DONE line can come in
    BuyResults         \* what the boot ROM's explicit_buy can return

OtaMaxFwSize == PartitionSectors * SectorSize

PartitionA == 0
PartitionB == 1
Partitions == {PartitionA, PartitionB}

\* "0xFF means none", of a partition number.
NoPartition == 255

\* ota_get_partition_offset.
PartitionOffset(p) ==
    IF p = PartitionA THEN TableSize ELSE TableSize + OtaMaxFwSize

\* The other partition: GetTargetPartition of the running one.
TargetPartition(p) == IF p = PartitionA THEN PartitionB ELSE PartitionA

Address == 0 .. FlashSize - 1
Offset == 0 .. OtaMaxFwSize - 1
Cell == Data \cup {Erased, Garbage, Old}

\* The cells of a partition.
Region(p) == {PartitionOffset(p) + i : i \in Offset}

\* Both partitions are whole sectors, which are whole pages, and the erase map
\* covers a partition.
ASSUME LayoutAssumption ==
    /\ PageSize \in Nat \ {0}
    /\ SectorSize \in Nat \ {0} /\ SectorSize % PageSize = 0
    /\ PartitionSectors \in Nat \ {0}
    /\ TrackedSectors \in Nat
    /\ PartitionSectors <= TrackedSectors
    /\ TableSize \in Nat /\ TableSize % PageSize = 0
    /\ FlashSize \in Nat
    /\ TableSize + OtaMaxFwSize + TrackedSectors * SectorSize <= FlashSize

\* A chunk never overflows a size, and the client's image fits a partition.
ASSUME ChunkAssumption ==
    /\ ChunkCap \in Nat
    /\ ChunkLens \in [0 .. OtaMaxFwSize -> SUBSET Nat]
    /\ WordSize \in Nat
    /\ OtaMaxFwSize < WordSize
    /\ ImageLen \in 0 .. OtaMaxFwSize
    /\ Image \in [0 .. ImageLen - 1 -> Data]
    /\ DoneTails \subseteq {"hash", "part", "none"}
    /\ BuyResults \subseteq {"ok", "error"}

ASSUME CellAssumption ==
    /\ Erased \notin Data
    /\ Garbage \notin Data
    /\ Old \notin Data

VARIABLES
    current,        \* the booted partition: ota.GetCurrentPartition()
    bought,         \* the partition a normal boot takes; the current one is on
                    \* trial when it is another
    flash,          \* the contents of the flash chip
    phase,          \* where handleOTASession is
    target,         \* targetPartition
    erasedSectors,  \* the sectors this session has erased
    totalBytes,     \* the cells written so far
    hashed,         \* the stream the hasher was fed, by offset
    otaChunk,       \* the chunk buffer, kept between chunks and sessions
    chunkLen,       \* length of the chunk in the buffer
    sector,         \* loop variable of the erase loop
    endSector       \* its last value

boot == <<current, bought>>
stream == <<totalBytes, hashed>>
chunk == <<otaChunk, chunkLen, sector, endSector>>
vars == <<boot, flash, phase, target, erasedSectors, stream, chunk>>

Sectors == 0 .. TrackedSectors - 1

\* The phases of handleOTASession from its READY on.
InSession == {"chunks", "erasing", "verified"}

TypeOK ==
    /\ current \in Partitions
    /\ bought \in Partitions \cup {NoPartition}
    /\ flash \in [Address -> Cell]
    /\ phase \in {"boot", "idle", "dead"} \cup InSession
    /\ target \in Partitions
    /\ erasedSectors \in [Sectors -> BOOLEAN]
    /\ totalBytes \in 0 .. OtaMaxFwSize
    /\ hashed \in [Offset -> Data \cup {Old}]
    /\ otaChunk \in [0 .. ChunkCap - 1 -> Data \cup {Old}]
    /\ chunkLen \in 0 .. ChunkCap
    /\ sector \in Nat
    /\ endSector \in Nat

Init ==
    /\ current = PartitionA
    /\ bought = PartitionA
    /\ flash = [a \in Address |-> Old]
    /\ phase = "boot"
    /\ target = PartitionB
    /\ erasedSectors = [s \in Sectors |-> FALSE]
    /\ totalBytes = 0
    /\ hashed = [i \in Offset |-> Old]
    /\ otaChunk = [i \in 0 .. ChunkCap - 1 |-> Old]
    /\ chunkLen = 0
    /\ sector = 0
    /\ endSector = 0

-----------------------------------------------------------------------------
(* The flash chip.                                                          *)

\* The cells of a sector that is counted from a partition's beginning.
SectorCells(p, s) ==
    {a \in Address : /\ a >= PartitionOffset(p)
                     /\ (a - PartitionOffset(p)) \div SectorSize = s}

\* ota_flash_erase of one sector.
Erase(p, s) ==
    flash' = [a \in Address |-> IF a \in SectorCells(p, s) THEN Erased ELSE flash[a]]

\* ota_flash_write of the chunk behind the cells written so far.  The ROM programs
\* whole pages: the rest of the last one gets what is behind the chunk in memory,
\* and a write that does not begin on a page is one the ROM does not specify.  An
\* empty chunk is not written.
Program ==
    LET last == totalBytes + chunkLen - 1
        at(a) == a - PartitionOffset(target)
    IN  flash' = [a \in Address |->
                     IF /\ chunkLen > 0
                        /\ a >= PartitionOffset(target)
                        /\ at(a) \div PageSize \in totalBytes \div PageSize .. last \div PageSize
                     THEN IF /\ totalBytes % PageSize = 0
                             /\ flash[a] = Erased
                             /\ at(a) \in totalBytes .. last
                          THEN otaChunk[at(a) - totalBytes]
                          ELSE Garbage
                     ELSE flash[a]]

-----------------------------------------------------------------------------
(* The session.                                                             *)

\* The locals of a session, as they begin, and as if they did not outlive it.
NewLocals ==
    /\ erasedSectors' = [s \in Sectors |-> FALSE]
    /\ totalBytes' = 0
    /\ hashed' = [i \in Offset |-> Old]
    /\ chunkLen' = 0
    /\ sector' = 0
    /\ endSector' = 0

\* Mutant: updates always go to partition B.
BeginSessionAtB ==
    /\ phase = "idle"
    /\ phase' = "chunks"
    /\ target' = PartitionB
    /\ NewLocals
    /\ UNCHANGED <<boot, flash, otaChunk>>

\* The init line and the READY answer.  The firmware may still be on trial: main goes
\* on when confirming fails.
BeginSession ==
    /\ phase = "idle"
    /\ phase' = "chunks"
    /\ target' = TargetPartition(current)
    /\ NewLocals
    /\ UNCHANGED <<boot, flash, otaChunk>>

\* Every early return: a header or a chunk that times out or is cut off by a
\* close, and a length that the buffer or the partition has no room for.  The chunk
\* buffer is a global, and stays.
EndSession ==
    /\ phase' = "idle"
    /\ NewLocals
    /\ UNCHANGED <<boot, flash, target, otaChunk>>

ReadFails ==
    /\ phase = "chunks"
    /\ EndSession

ChunkRefused(len) ==
    /\ phase = "chunks"
    /\ len > ChunkCap \/ totalBytes + len > OtaMaxFwSize
    /\ EndSession

\* Mutant: a chunk is not checked against the partition's size.
ReadChunkUnbounded(len, data) ==
    /\ phase = "chunks"
    /\ len <= ChunkCap
    /\ otaChunk' = [i \in 0 .. ChunkCap - 1 |->
                       IF i < len THEN data[i] ELSE otaChunk[i]]
    /\ chunkLen' = len
    /\ hashed' = [i \in Offset |->
                     IF i \in totalBytes .. totalBytes + len - 1
                     THEN data[i - totalBytes]
                     ELSE hashed[i]]
    /\ sector' = totalBytes \div SectorSize
    /\ endSector' = ((totalBytes + len - 1) % WordSize) \div SectorSize
    /\ phase' = "erasing"
    /\ UNCHANGED <<boot, flash, target, erasedSectors, totalBytes>>

\* Mutant: only the sector the chunk starts in is erased.
ReadChunkOneSector(len, data) ==
    /\ phase = "chunks"
    /\ len <= ChunkCap
    /\ totalBytes + len <= OtaMaxFwSize
    /\ otaChunk' = [i \in 0 .. ChunkCap - 1 |->
                       IF i < len THEN data[i] ELSE otaChunk[i]]
    /\ chunkLen' = len
    /\ hashed' = [i \in Offset |->
                     IF i \in totalBytes .. totalBytes + len - 1
                     THEN data[i - totalBytes]
                     ELSE hashed[i]]
    /\ sector' = totalBytes \div SectorSize
    /\ endSector' = totalBytes \div SectorSize
    /\ phase' = "erasing"
    /\ UNCHANGED <<boot, flash, target, erasedSectors, totalBytes>>

\* A chunk has been read and hashed; the erase loop is set up.  The last sector
\* is computed modulo 2^32.
ReadChunk(len, data) ==
    /\ phase = "chunks"
    /\ len <= ChunkCap
    /\ totalBytes + len <= OtaMaxFwSize
    /\ otaChunk' = [i \in 0 .. ChunkCap - 1 |->
                       IF i < len THEN data[i] ELSE otaChunk[i]]
    /\ chunkLen' = len
    /\ hashed' = [i \in Offset |->
                     IF i \in totalBytes .. totalBytes + len - 1
                     THEN data[i - totalBytes]
                     ELSE hashed[i]]
    /\ sector' = totalBytes \div SectorSize
    /\ endSector' = ((totalBytes + len - 1) % WordSize) \div SectorSize
    /\ phase' = "erasing"
    /\ UNCHANGED <<boot, flash, target, erasedSectors, totalBytes>>

\* An erase of the partition a normal boot takes leaves none to take.
EraseAt(s) ==
    /\ Erase(target, s)
    /\ bought' = IF bought # NoPartition
                    /\ SectorCells(target, s) \cap Region(bought) # {}
                 THEN NoPartition ELSE bought

\* Mutant: a sector is erased for every chunk that touches it.
EraseSectorAgain ==
    /\ phase = "erasing"
    /\ sector <= endSector
    /\ IF sector < TrackedSectors
       THEN EraseAt(sector)
       ELSE UNCHANGED <<bought, flash>>
    /\ sector' = sector + 1
    /\ UNCHANGED <<current, phase, target, erasedSectors, stream, otaChunk,
                   chunkLen, endSector>>

\* Mutant: a sector already erased is passed over before the increment.
EraseSectorStuck ==
    /\ phase = "erasing"
    /\ sector <= endSector
    /\ ~erasedSectors[sector]
    /\ EraseAt(sector)
    /\ erasedSectors' = [erasedSectors EXCEPT ![sector] = TRUE]
    /\ sector' = sector + 1
    /\ UNCHANGED <<current, phase, target, stream, otaChunk, chunkLen, endSector>>

\* One iteration of the erase loop, with the pause after an erase.
EraseSector ==
    /\ phase = "erasing"
    /\ sector <= endSector
    /\ IF sector < TrackedSectors /\ ~erasedSectors[sector]
       THEN /\ EraseAt(sector)
            /\ erasedSectors' = [erasedSectors EXCEPT ![sector] = TRUE]
       ELSE UNCHANGED <<bought, flash, erasedSectors>>
    /\ sector' = sector + 1
    /\ UNCHANGED <<current, phase, target, stream, otaChunk, chunkLen, endSector>>

\* The erase loop is over: write the chunk and acknowledge it.
WriteChunk ==
    /\ phase = "erasing"
    /\ sector > endSector
    /\ Program
    /\ totalBytes' = totalBytes + chunkLen
    /\ phase' = "chunks"
    /\ UNCHANGED <<boot, target, erasedSectors, hashed, chunk>>

\* Mutant: the length of the stream is compared, not its hash.
LengthMatches == totalBytes = ImageLen

HashMatches ==
    /\ totalBytes = ImageLen
    /\ \A i \in 0 .. ImageLen - 1 : hashed[i] = Image[i]

\* DONE.  The rest of its line is one read of at most 2 s: the whole hash, a
\* part of it, or nothing.  An empty hash is not compared.
Done(tail) ==
    /\ phase = "chunks"
    /\ tail = "none" \/ (tail = "hash" /\ HashMatches)
    /\ phase' = "verified"
    /\ UNCHANGED <<boot, flash, target, erasedSectors, stream, chunk>>

DoneMismatch(tail) ==
    /\ phase = "chunks"
    /\ tail = "part" \/ (tail = "hash" /\ ~HashMatches)
    /\ EndSession

RebootRefused ==
    /\ phase = "verified"
    /\ EndSession

-----------------------------------------------------------------------------
(* Boots.                                                                   *)

\* The device starts over, with nothing in its memory.
Restart ==
    /\ phase' = "boot"
    /\ otaChunk' = [i \in 0 .. ChunkCap - 1 |-> Old]
    /\ NewLocals
    /\ UNCHANGED <<bought, flash, target>>

\* RebootToPartition: the boot ROM takes the target partition, on trial.
RebootToPartition ==
    /\ phase = "verified"
    /\ current' = target
    /\ Restart

\* Power loss or a watchdog reset at any time, and the boot ROM's at the end of a
\* trial: the flash keeps what is there, and the bought partition boots, if any.
Reset ==
    IF bought = NoPartition
    THEN /\ phase' = "dead"
         /\ NewLocals
         /\ UNCHANGED <<boot, flash, target, otaChunk>>
    ELSE /\ current' = bought
         /\ Restart

\* The ROM has bought the firmware on trial: a normal boot takes it from now on.  The
\* ROM may erase the beginning of the other partition so that it does.
Bought ==
    /\ bought' = current
    /\ IF bought # current
       THEN UNCHANGED flash \/ Erase(TargetPartition(current), 0)
       ELSE UNCHANGED flash

\* ConfirmPartition, the first thing main does.  An error is printed, and main goes
\* on as it would without one.
ConfirmPartition(result) ==
    /\ phase = "boot"
    /\ phase' = "idle"
    /\ \/ result = "ok" /\ Bought
       \/ result = "error" /\ UNCHANGED <<bought, flash>>
    /\ UNCHANGED <<current, target, erasedSectors, stream, chunk>>

-----------------------------------------------------------------------------

Next ==
    \/ BeginSession
    \/ ReadFails
    \/ \E len \in ChunkLens[totalBytes] : ChunkRefused(len)
    \/ \E len \in ChunkLens[totalBytes] \cap (0 .. ChunkCap) :
          \E data \in [0 .. len - 1 -> Data] : ReadChunk(len, data)
    \/ EraseSector
    \/ WriteChunk
    \/ \E tail \in DoneTails : Done(tail) \/ DoneMismatch(tail)
    \/ RebootToPartition
    \/ RebootRefused
    \/ \E result \in BuyResults : ConfirmPartition(result)
    \/ Reset

Spec == Init /\ [][Next]_vars

-----------------------------------------------------------------------------
(* What clients and the device are taken to do.                              *)

\* The first chunk of a stream is not empty.
FirstNotEmpty == 0 \notin ChunkLens[0]

\* Chunks begin on pages: only the last chunk with data may end inside one, as with
\* the "4KB each" of docs/ota.md:80.
WholePages ==
    \A n \in 0 .. OtaMaxFwSize : n % PageSize # 0 => ChunkLens[n] \subseteq {0}

\* The DONE line arrives within its two seconds.
HashInTime == "none" \notin DoneTails

\* The boot ROM never refuses to buy a firmware.
BuyWorks == "error" \notin BuyResults

-----------------------------------------------------------------------------
(* Properties.                                                              *)

\* However a stream is cut into chunks that begin on pages, empty ones in between
\* included, and whichever sectors the chunks share, the target partition holds
\* exactly the stream that was hashed: no erase and no rest of a page takes back what
\* an earlier chunk wrote (ota_server.go 373-435).
FlashHoldsStream ==
    phase \in InSession =>
        \A i \in 0 .. totalBytes - 1 :
            flash[PartitionOffset(target) + i] = hashed[i]

\* The pages a chunk is written to are erased, every cell of them (ota_server.go
\* 386-424, ota.go 251).
WritesErasedCells ==
    phase = "erasing" /\ sector > endSector /\ chunkLen > 0 =>
        \A i \in Offset :
            i \div PageSize \in totalBytes \div PageSize ..
                                (totalBytes + chunkLen - 1) \div PageSize
                => flash[PartitionOffset(target) + i] = Erased

\* "Device verifies hash, responds VERIFIED" (docs/ota.md:85): when the device
\* goes on to reboot, its target partition holds the client's image.
VerifiedImage ==
    phase = "verified" =>
        \A i \in 0 .. ImageLen - 1 :
            flash[PartitionOffset(target) + i] = Image[i]

\* No step changes the partition the device is running from, on trial or not; the
\* ROM's mark on a firmware it buys is kept in "bought" (ota_server.go 256-257,
\* 386-424, ota.go 91-99).
RunningUntouched ==
    [][\A a \in Address : a \in Region(current) => flash'[a] = flash[a]]_vars

\* "This ensures a bad update can never brick the device" (docs/ota.md:100): a reset
\* always finds a firmware to boot.
NeverBricked == phase # "dead"

\* The firmware in a partition, as long as the client's.
Firmware(p) == [i \in 0 .. ImageLen - 1 |-> flash[PartitionOffset(p) + i]]

\* Whatever clients send, whatever the boot ROM says to a confirmation and wherever a
\* reset falls, the device runs one whole firmware and changes it in a single step; the
\* one to go back to stays whole until the new one is confirmed, or is given up by a
\* session of unconfirmed firmware (ota_server.go 229-450, ota.go 91-133, main.go
\* 139-142).
Abstract == INSTANCE FirmwareUpdate
              WITH New <- Image,
                   Factory <- [i \in 0 .. ImageLen - 1 |-> Old],
                   running <- IF phase = "dead" THEN <<>> ELSE <<Firmware(current)>>,
                   kept <- IF bought = NoPartition THEN <<>> ELSE <<Firmware(bought)>>,
                   trial <- current # bought

ImplementsFirmwareUpdate == Abstract!Spec

\* A session ends, in an error, a reset or the reboot, unless its client keeps it up
\* with empty chunks: each one renews the 30 s of the next read and none comes nearer to
\* the end of the partition (ota_server.go 272-449).
SessionEnds ==
    phase \in InSession ~>
        (phase \notin InSession \/ (phase = "erasing" /\ chunkLen = 0))

=============================================================================
