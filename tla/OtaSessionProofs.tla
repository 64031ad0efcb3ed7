-------------------------- MODULE OtaSessionProofs ---------------------------
(****************************************************************************)
(* What handleOTASession and a boot do to the flash, for every size of a       *)
(* partition, a sector, a page, a chunk buffer and a firmware: the target       *)
(* partition holds the stream that was hashed, chunks are written to erased     *)
(* pages only, the partition the device runs from is left alone, and a device   *)
(* whose boot ROM buys what it is asked to always finds a firmware to boot.     *)
(*                                                                          *)
(* The argument is about sectors and pages.  Every sector below the write       *)
(* position has been erased in this session, so the erase loop only ever erases *)
(* sectors that hold nothing of the stream; and every page of an erased sector   *)
(* that the stream has not reached is still erased, so a chunk that begins on a  *)
(* page meets erased cells only.  The partition a normal boot takes is spoilt by *)
(* no session but one that has erased a sector of it.                          *)
(****************************************************************************)
EXTENDS OtaSession, TLAPS

-----------------------------------------------------------------------------
(* Sectors, pages and offsets.                                              *)

\* The sector of an offset, and its bounds.
LEMMA SectorFact ==
    ASSUME NEW n \in Nat, NEW k \in Nat \ {0}
    PROVE  /\ n \div k \in Nat
           /\ \A p \in Nat : n \div k < p <=> n < p * k
           /\ \A m \in Nat : m <= n => m \div k <= n \div k
OBVIOUS

\* A whole number of units.
LEMMA WholeFact ==
    ASSUME NEW n \in Nat, NEW k \in Nat \ {0}, n % k = 0
    PROVE  n \div k \in Nat /\ n = (n \div k) * k
OBVIOUS

\* A number below the modulus is its own remainder.
LEMMA RemainderFact ==
    ASSUME NEW n \in Nat, NEW w \in Nat, n < w
    PROVE  n % w = n
OBVIOUS

\* Cells of pages in order are in sectors in order.
LEMMA PageSector ==
    ASSUME NEW i \in Nat, NEW j \in Nat, i \div PageSize <= j \div PageSize
    PROVE  i \div SectorSize <= j \div SectorSize
<1> DEFINE m == SectorSize \div PageSize
           e == j \div SectorSize + 1
<1>1. PageSize \in Nat \ {0} /\ SectorSize \in Nat \ {0}
  BY LayoutAssumption
<1>2. m \in Nat /\ SectorSize = m * PageSize
  BY <1>1, LayoutAssumption, WholeFact
<1>3. e \in Nat /\ j < e * SectorSize
  BY <1>1, SectorFact
<1> HIDE DEF e, m
<1>4. e * SectorSize = (e * m) * PageSize /\ e * m \in Nat
  BY <1>1, <1>2, <1>3
<1>5. j \div PageSize < e * m
  BY <1>1, <1>3, <1>4, SectorFact
<1>6. i \div PageSize \in Nat /\ j \div PageSize \in Nat
  BY <1>1, SectorFact
<1>7. i \div PageSize < e * m
  BY <1>4, <1>5, <1>6
<1>8. i < e * SectorSize
  BY <1>1, <1>4, <1>7, SectorFact
<1>9. i \div SectorSize < e
  BY <1>1, <1>3, <1>8, SectorFact
<1>10. QED
  BY <1>1, <1>9, SectorFact DEF e

\* What lies before the beginning of a page lies on earlier pages.
LEMMA PageBegins ==
    ASSUME NEW n \in Nat, n % PageSize = 0, NEW i \in Nat
    PROVE  i < n <=> i \div PageSize < n \div PageSize
<1>1. PageSize \in Nat \ {0}
  BY LayoutAssumption
<1>2. n \div PageSize \in Nat /\ n = (n \div PageSize) * PageSize
  BY <1>1, WholeFact
<1>3. i \div PageSize < n \div PageSize <=> i < (n \div PageSize) * PageSize
  BY <1>1, <1>2, SectorFact
<1>4. QED
  BY <1>2, <1>3

\* The size of a partition, and where each one lies.
LEMMA LayoutFact ==
    /\ OtaMaxFwSize \in Nat
    /\ \A p \in Partitions : PartitionOffset(p) \in Nat
    /\ \A p \in Partitions : TargetPartition(p) \in Partitions
    /\ \A p \in Partitions, i \in Offset : PartitionOffset(p) + i \in Address
<1>1. OtaMaxFwSize \in Nat
  BY LayoutAssumption DEF OtaMaxFwSize
<1>2. TrackedSectors * SectorSize >= OtaMaxFwSize
  BY LayoutAssumption DEF OtaMaxFwSize
<1>3. \A p \in Partitions : PartitionOffset(p) \in Nat
  BY <1>1, LayoutAssumption
  DEF PartitionOffset, Partitions, PartitionA, PartitionB
<1>4. \A p \in Partitions : TargetPartition(p) \in Partitions
  BY DEF TargetPartition, Partitions, PartitionA, PartitionB
<1>5. \A p \in Partitions : PartitionOffset(p) <= TableSize + OtaMaxFwSize
  BY <1>1, LayoutAssumption
  DEF PartitionOffset, Partitions, PartitionA, PartitionB
<1>6. ASSUME NEW p \in Partitions, NEW i \in Offset
      PROVE  PartitionOffset(p) + i \in Address
  <2>1. i \in Nat /\ i < OtaMaxFwSize
    BY <1>6, <1>1 DEF Offset
  <2>2. QED
    BY <2>1, <1>1, <1>2, <1>3, <1>5, LayoutAssumption DEF Address
<1>7. QED
  BY <1>1, <1>3, <1>4, <1>6

\* Every offset of a partition is in a sector the erase map tracks.
LEMMA OffsetSector ==
    \A i \in Offset : i \in Nat /\ i \div SectorSize \in Sectors
<1> SUFFICES ASSUME NEW i \in Offset
             PROVE  i \in Nat /\ i \div SectorSize \in Sectors
  OBVIOUS
<1>1. i \in Nat
  BY LayoutFact DEF Offset
<1>2. i \div SectorSize < PartitionSectors
  BY <1>1, LayoutFact, SectorFact, LayoutAssumption DEF Offset, OtaMaxFwSize
<1>3. QED
  BY <1>1, <1>2, SectorFact, LayoutAssumption DEF Sectors

\* The two partitions have no cell in common.
LEMMA RegionsDisjoint ==
    ASSUME NEW p \in Partitions, NEW i \in Offset, NEW j \in Offset
    PROVE  PartitionOffset(p) + i # PartitionOffset(TargetPartition(p)) + j
BY LayoutFact, LayoutAssumption
DEF PartitionOffset, TargetPartition, Offset, Partitions, PartitionA, PartitionB

-----------------------------------------------------------------------------
(* The inductive invariant, in two parts: what holds of every stream, and what *)
(* holds of one whose chunks begin on pages.                                 *)

At(i) == PartitionOffset(target) + i

\* A session writes the other partition.
SessionTarget == phase \in InSession => target = TargetPartition(current)

\* Below the write position everything has been erased.
Covered ==
    phase \in InSession =>
        \A i \in Offset : i < totalBytes => erasedSectors[i \div SectorSize]

\* A session that has erased anything has not left the partition a normal boot takes,
\* if it was its target; and only a device that has none is dead.
Fallback ==
    /\ phase \in InSession /\ bought = target => \A s \in Sectors : ~erasedSectors[s]
    /\ phase = "dead" => bought = NoPartition

\* The chunk in the buffer, and how far the erase loop has got.
ChunkPending ==
    phase = "erasing" =>
        /\ totalBytes + chunkLen >= 1
        /\ totalBytes + chunkLen <= OtaMaxFwSize
        /\ endSector = (totalBytes + chunkLen - 1) \div SectorSize
        /\ \A s \in Sectors :
              totalBytes \div SectorSize <= s /\ s < sector => erasedSectors[s]
        /\ \A i \in Offset :
              i >= totalBytes /\ i < totalBytes + chunkLen =>
                  hashed[i] = otaChunk[i - totalBytes]

IInv ==
    /\ TypeOK
    /\ SessionTarget
    /\ Covered
    /\ Fallback
    /\ ChunkPending

\* Below the write position: the stream.
Written ==
    phase \in InSession =>
        \A i \in Offset : i < totalBytes => flash[At(i)] = hashed[i]

\* The page of an offset is one the stream has not reached.
Unreached(i) == \A j \in Offset : j < totalBytes => j \div PageSize < i \div PageSize

\* Such pages are erased, in the sectors erased so far.
Clean ==
    phase \in InSession =>
        \A i \in Offset :
            Unreached(i) /\ erasedSectors[i \div SectorSize] => flash[At(i)] = Erased

\* The pending chunk begins on a page.
OnPage == phase = "erasing" /\ chunkLen > 0 => totalBytes % PageSize = 0

SInv == Written /\ Clean /\ OnPage

-----------------------------------------------------------------------------
(* The steps.                                                               *)

\* Before the first session the invariant asks for nothing.
LEMMA InitInv == Init => IInv /\ SInv
<1>1. Init => TypeOK
  <2>1. 0 \in 0 .. OtaMaxFwSize /\ 0 \in 0 .. ChunkCap /\ 0 \in Nat
    BY LayoutFact, ChunkAssumption
  <2>2. QED
    BY <2>1 DEF Init, TypeOK, Cell, Partitions, PartitionA, PartitionB
<1>2. QED
  BY <1>1 DEF Init, IInv, SInv, SessionTarget, Covered, Fallback, ChunkPending,
              Written, Clean, OnPage, InSession

\* The locals of a session that has not begun.
LEMMA NewLocalsFact ==
    ASSUME TypeOK, NewLocals
    PROVE  /\ erasedSectors' \in [Sectors -> BOOLEAN]
           /\ totalBytes' \in 0 .. OtaMaxFwSize
           /\ hashed' \in [Offset -> Data \cup {Old}]
           /\ chunkLen' \in 0 .. ChunkCap
           /\ sector' \in Nat /\ endSector' \in Nat
<1>1. 0 \in 0 .. OtaMaxFwSize /\ 0 \in 0 .. ChunkCap /\ 0 \in Nat
  BY LayoutFact, ChunkAssumption
<1>2. QED
  BY <1>1 DEF TypeOK, NewLocals

\* A session that ends leaves nothing to show.
LEMMA EndInv == IInv /\ EndSession => IInv' /\ SInv'
<1> SUFFICES ASSUME IInv, EndSession PROVE IInv' /\ SInv'
  OBVIOUS
<1>1. TypeOK'
  BY NewLocalsFact DEF IInv, EndSession, TypeOK, boot
<1>2. QED
  BY <1>1 DEF IInv, SInv, EndSession, SessionTarget, Covered, Fallback, ChunkPending,
              Written, Clean, OnPage, InSession

\* A new session has written nothing and erased nothing.
LEMMA BeginInv == IInv /\ BeginSession => IInv' /\ SInv'
<1> SUFFICES ASSUME IInv, BeginSession PROVE IInv' /\ SInv'
  OBVIOUS
<1> USE DEF BeginSession, boot
<1>1. TypeOK'
  BY NewLocalsFact, LayoutFact DEF IInv, TypeOK, InSession
<1>2. Covered' /\ Written'
  BY OffsetSector DEF Covered, Written, NewLocals
<1>3. Clean'
  BY OffsetSector DEF Clean, NewLocals
<1>4. Fallback'
  BY DEF Fallback, NewLocals
<1>5. QED
  BY <1>1, <1>2, <1>3, <1>4 DEF IInv, SInv, SessionTarget, ChunkPending, OnPage

\* A device that starts over has no session.
LEMMA RestartInv ==
    ASSUME IInv, Restart, current' \in Partitions
    PROVE  IInv' /\ SInv'
<1>1. TypeOK'
  BY NewLocalsFact DEF IInv, Restart, TypeOK
<1>2. QED
  BY <1>1 DEF IInv, SInv, Restart, SessionTarget, Covered, Fallback, ChunkPending,
              Written, Clean, OnPage, InSession

\* What an erase does to the flash.
LEMMA EraseFact ==
    ASSUME TypeOK, NEW p \in Partitions, NEW s \in Nat, Erase(p, s)
    PROVE  /\ flash' \in [Address -> Cell]
           /\ \A i \in Offset :
                 flash'[PartitionOffset(p) + i] =
                     IF i \div SectorSize = s THEN Erased
                                              ELSE flash[PartitionOffset(p) + i]
<1>1. flash' \in [Address -> Cell]
  BY DEF Erase, TypeOK, Cell
<1>2. ASSUME NEW i \in Offset
      PROVE  flash'[PartitionOffset(p) + i] =
                 IF i \div SectorSize = s THEN Erased
                                          ELSE flash[PartitionOffset(p) + i]
  <2>1. /\ PartitionOffset(p) + i \in Address
        /\ (PartitionOffset(p) + i) - PartitionOffset(p) = i
        /\ PartitionOffset(p) + i >= PartitionOffset(p)
    BY LayoutFact, OffsetSector
  <2>2. QED
    BY <2>1 DEF Erase, SectorCells
<1>3. QED
  BY <1>1, <1>2

\* A boot that goes on to serve.
LEMMA ConfirmInv ==
    ASSUME IInv, NEW result \in BuyResults, ConfirmPartition(result)
    PROVE  IInv' /\ SInv'
<1>1. result = "ok" \/ result = "error"
  BY ChunkAssumption
<1>2. CASE result = "ok"
  <2>1. bought' = current /\ (UNCHANGED flash \/ Erase(TargetPartition(current), 0))
    BY <1>2 DEF ConfirmPartition, Bought
  <2>2. flash' \in [Address -> Cell]
    <3>1. CASE UNCHANGED flash
      BY <3>1 DEF IInv, TypeOK
    <3>2. CASE Erase(TargetPartition(current), 0)
      BY <3>2, LayoutFact, EraseFact DEF IInv, TypeOK
    <3>3. QED
      BY <2>1, <3>1, <3>2
  <2>3. TypeOK'
    BY <2>1, <2>2 DEF ConfirmPartition, stream, chunk, IInv, TypeOK
  <2>4. QED
    BY <2>3 DEF ConfirmPartition, IInv, SInv, SessionTarget, Covered, Fallback,
                ChunkPending, Written, Clean, OnPage, InSession
<1>3. CASE result = "error"
  <2>1. UNCHANGED <<bought, flash>>
    BY <1>3 DEF ConfirmPartition
  <2>2. TypeOK'
    BY <2>1 DEF ConfirmPartition, stream, chunk, IInv, TypeOK
  <2>3. QED
    BY <2>2 DEF ConfirmPartition, IInv, SInv, SessionTarget, Covered, Fallback,
                ChunkPending, Written, Clean, OnPage, InSession
<1>4. QED
  BY <1>1, <1>2, <1>3

LEMMA ResetInv == IInv /\ Reset => IInv' /\ SInv'
<1> SUFFICES ASSUME IInv, Reset PROVE IInv' /\ SInv'
  OBVIOUS
<1>1. CASE bought = NoPartition
  <2>1. TypeOK'
    BY <1>1, NewLocalsFact DEF Reset, boot, IInv, TypeOK
  <2>2. QED
    BY <1>1, <2>1 DEF Reset, boot, IInv, SInv, SessionTarget, Covered, Fallback,
                      ChunkPending, Written, Clean, OnPage, InSession
<1>2. CASE bought # NoPartition
  <2>1. Restart /\ current' \in Partitions
    BY <1>2 DEF Reset, IInv, TypeOK
  <2>2. QED
    BY <2>1, RestartInv
<1>3. QED
  BY <1>1, <1>2

\* A chunk is read behind the stream it continues.
LEMMA ReadChunkInv ==
    ASSUME FirstNotEmpty, IInv,
           NEW len \in ChunkLens[totalBytes] \cap (0 .. ChunkCap),
           NEW data \in [0 .. len - 1 -> Data],
           ReadChunk(len, data)
    PROVE  IInv' /\ (WholePages /\ SInv => SInv')
<1> USE DEF ReadChunk, boot
<1>1. /\ totalBytes \in Nat /\ OtaMaxFwSize \in Nat /\ totalBytes <= OtaMaxFwSize
      /\ len \in Nat /\ len <= ChunkCap /\ totalBytes + len >= 1
  <2>1. totalBytes \in Nat /\ OtaMaxFwSize \in Nat /\ totalBytes <= OtaMaxFwSize
    BY LayoutFact DEF IInv, TypeOK
  <2>2. len \in Nat /\ len <= ChunkCap
    BY ChunkAssumption
  <2>3. totalBytes = 0 => len # 0
    BY DEF FirstNotEmpty
  <2>4. QED
    BY <2>1, <2>2, <2>3
<1>2. endSector' = (totalBytes + len - 1) \div SectorSize
  <2>1. totalBytes + len - 1 \in Nat /\ totalBytes + len - 1 < WordSize
    BY <1>1, ChunkAssumption
  <2>2. WordSize \in Nat
    BY ChunkAssumption
  <2>3. (totalBytes + len - 1) % WordSize = totalBytes + len - 1
    BY <2>1, <2>2, RemainderFact
  <2>4. QED
    BY <2>3
<1>3. sector' \in Nat /\ endSector' \in Nat
  <2>1. totalBytes + len - 1 \in Nat
    BY <1>1
  <2>2. SectorSize \in Nat \ {0}
    BY LayoutAssumption
  <2>3. QED
    BY <2>1, <2>2, <1>1, <1>2, SectorFact
<1>4. TypeOK'
  <2>1. otaChunk' \in [0 .. ChunkCap - 1 -> Data \cup {Old}]
    BY <1>1, ChunkAssumption DEF IInv, TypeOK
  <2>2. hashed' \in [Offset -> Data \cup {Old}]
    <3>1. ASSUME NEW i \in Offset, i \in totalBytes .. totalBytes + len - 1
          PROVE  i - totalBytes \in 0 .. len - 1
      BY <3>1, <1>1
    <3>2. QED
      BY <3>1 DEF IInv, TypeOK
  <2>3. QED
    BY <2>1, <2>2, <1>1, <1>3 DEF IInv, TypeOK, InSession
<1>5. SessionTarget' /\ Covered' /\ Fallback'
  BY DEF IInv, SessionTarget, Covered, Fallback, InSession
<1>6. ChunkPending'
  <2>1. ASSUME NEW i \in Offset, i >= totalBytes, i < totalBytes + len
        PROVE  hashed'[i] = otaChunk'[i - totalBytes]
    <3>1. i - totalBytes \in 0 .. len - 1 /\ i - totalBytes \in 0 .. ChunkCap - 1
      BY <2>1, <1>1, OffsetSector, ChunkAssumption
    <3>2. i \in totalBytes .. totalBytes + len - 1
      BY <2>1, <1>1, OffsetSector
    <3>3. hashed'[i] = data[i - totalBytes]
      BY <3>2
    <3>4. otaChunk'[i - totalBytes] = data[i - totalBytes]
      BY <3>1, <1>1
    <3>5. QED
      BY <3>3, <3>4
  <2>2. ASSUME NEW s \in Sectors, totalBytes \div SectorSize <= s, s < sector'
        PROVE  FALSE
    BY <2>2, <1>1, <1>3, SectorFact, LayoutAssumption DEF Sectors
  <2>3. QED
    BY <2>1, <2>2, <1>1, <1>2 DEF ChunkPending
<1>7. ASSUME WholePages, SInv PROVE SInv'
  <2>1. Written'
    BY <1>1, <1>7, OffsetSector DEF SInv, Written, At, InSession
  <2>2. Clean'
    BY <1>7 DEF SInv, Clean, At, Unreached, InSession
  <2>3. OnPage'
    BY <1>1, <1>7 DEF OnPage, WholePages
  <2>4. QED
    BY <2>1, <2>2, <2>3 DEF SInv
<1>8. QED
  BY <1>4, <1>5, <1>6, <1>7 DEF IInv

\* The last sector of a pending chunk is one of the target partition.
LEMMA EndSectorFact ==
    IInv /\ phase = "erasing" =>
        /\ endSector < PartitionSectors
        /\ endSector \in Sectors
<1> SUFFICES ASSUME IInv, phase = "erasing"
             PROVE  endSector < PartitionSectors /\ endSector \in Sectors
  OBVIOUS
<1>1. /\ totalBytes + chunkLen - 1 \in Nat
      /\ totalBytes + chunkLen - 1 < OtaMaxFwSize
      /\ endSector = (totalBytes + chunkLen - 1) \div SectorSize
  BY LayoutFact, ChunkAssumption DEF IInv, TypeOK, ChunkPending
<1>2. endSector < PartitionSectors
  BY <1>1, SectorFact, LayoutAssumption DEF OtaMaxFwSize
<1>3. QED
  BY <1>2, LayoutAssumption DEF IInv, TypeOK, Sectors

\* The beginning of a sector of the target partition is one of its cells: an erase
\* of the partition a normal boot takes is noticed.
LEMMA SectorInRegion ==
    ASSUME NEW p \in Partitions, NEW s \in Nat, s < PartitionSectors
    PROVE  SectorCells(p, s) \cap Region(p) # {}
<1> DEFINE i == s * SectorSize
<1>1. SectorSize \in Nat \ {0} /\ PartitionSectors \in Nat
  BY LayoutAssumption
<1>2. i \in Nat /\ i < (s + 1) * SectorSize
  BY <1>1
<1>3. (s + 1) * SectorSize <= PartitionSectors * SectorSize
  BY <1>1
<1>4. i \in Offset
  BY <1>1, <1>2, <1>3, LayoutFact DEF Offset, OtaMaxFwSize
<1>5. i \div SectorSize = s
  BY <1>1, <1>2, SectorFact
<1> HIDE DEF i
<1>6. /\ PartitionOffset(p) + i \in Address
      /\ PartitionOffset(p) + i >= PartitionOffset(p)
      /\ (PartitionOffset(p) + i) - PartitionOffset(p) = i
  BY <1>2, <1>4, LayoutFact
<1>7. PartitionOffset(p) + i \in SectorCells(p, s)
  BY <1>5, <1>6 DEF SectorCells
<1>8. PartitionOffset(p) + i \in Region(p)
  BY <1>4 DEF Region
<1>9. QED
  BY <1>7, <1>8

\* An erase takes nothing of the stream: its sector lies beyond it.
LEMMA EraseSectorInv == IInv /\ EraseSector => IInv' /\ (SInv => SInv')
<1> SUFFICES ASSUME IInv, EraseSector PROVE IInv' /\ (SInv => SInv')
  OBVIOUS
<1> USE DEF EraseSector, stream
<1>1. /\ sector \in Nat /\ endSector \in Nat
      /\ sector \in Sectors /\ sector < PartitionSectors
  BY EndSectorFact, LayoutAssumption DEF IInv, TypeOK, Sectors
<1>2. TypeOK /\ totalBytes \in Nat /\ target \in Partitions
  BY LayoutFact DEF IInv, TypeOK
<1>3. \A t \in Sectors : t < sector + 1 => t < sector \/ t = sector
  BY <1>1 DEF Sectors
<1>4. CASE erasedSectors[sector]
  <2>1. UNCHANGED <<bought, flash, erasedSectors>>
    BY <1>1, <1>4 DEF Sectors
  <2>2. TypeOK'
    BY <2>1, <1>1 DEF IInv, TypeOK
  <2>3. \A t \in Sectors :
           totalBytes \div SectorSize <= t /\ t < sector + 1 => erasedSectors[t]
    BY <1>3, <1>4 DEF IInv, ChunkPending
  <2>4. IInv'
    BY <2>1, <2>2, <2>3 DEF IInv, SessionTarget, Covered, Fallback, ChunkPending
  <2>5. SInv => SInv'
    BY <2>1 DEF SInv, Written, Clean, OnPage, At, Unreached
  <2>6. QED
    BY <2>4, <2>5
<1>5. CASE ~erasedSectors[sector]
  <2>1. EraseAt(sector) /\ erasedSectors' = [erasedSectors EXCEPT ![sector] = TRUE]
    <3>1. sector < TrackedSectors
      BY <1>1, LayoutAssumption DEF Sectors
    <3>2. QED
      BY <3>1, <1>5, Zenon
  <2>2. /\ flash' \in [Address -> Cell]
        /\ \A i \in Offset :
              flash'[At(i)] = IF i \div SectorSize = sector
                              THEN Erased ELSE flash[At(i)]
    BY <2>1, <1>1, <1>2, EraseFact DEF EraseAt, At
  <2>3. erasedSectors' \in [Sectors -> BOOLEAN]
    BY <2>1 DEF IInv, TypeOK
  <2>4. TypeOK'
    BY <2>1, <2>2, <2>3, <1>1 DEF IInv, TypeOK, EraseAt
  <2>5. \A t \in Sectors : erasedSectors'[t] = (t = sector \/ erasedSectors[t])
    BY <2>1, <1>2 DEF TypeOK
  <2>6. \A i \in Offset : At(i)' = At(i)
    BY DEF At
  <2>7. Covered'
    BY <2>5, OffsetSector DEF IInv, Covered
  <2>8. Fallback'
    <3>1. bought' # target
      <4>1. CASE bought = target
        <5>1. SectorCells(target, sector) \cap Region(target) # {}
          BY <1>1, <1>2, SectorInRegion
        <5>2. bought # NoPartition
          BY <1>2, <4>1 DEF Partitions, PartitionA, PartitionB, NoPartition
        <5>3. bought' = NoPartition
          BY <2>1, <4>1, <5>1, <5>2 DEF EraseAt
        <5>4. QED
          BY <1>2, <5>3 DEF Partitions, PartitionA, PartitionB, NoPartition
      <4>2. CASE bought # target
        BY <2>1, <1>2, <4>2 DEF EraseAt, Partitions, PartitionA, PartitionB, NoPartition
      <4>3. QED
        BY <4>1, <4>2
    <3>2. QED
      BY <3>1 DEF Fallback
  <2>9. \A t \in Sectors :
           totalBytes \div SectorSize <= t /\ t < sector + 1 => erasedSectors'[t]
    BY <1>3, <2>5 DEF IInv, ChunkPending
  <2>10. IInv'
    BY <2>4, <2>7, <2>8, <2>9 DEF IInv, SessionTarget, ChunkPending
  <2>11. ASSUME SInv PROVE SInv'
    <3>1. ASSUME NEW i \in Offset, i < totalBytes
          PROVE  flash'[At(i)] = hashed[i]
      <4>1. erasedSectors[i \div SectorSize] /\ flash[At(i)] = hashed[i]
        BY <2>11, <3>1 DEF IInv, Covered, SInv, Written, InSession
      <4>2. i \div SectorSize # sector
        BY <4>1, <1>5
      <4>3. QED
        BY <4>1, <4>2, <2>2
    <3>2. ASSUME NEW i \in Offset, Unreached(i), erasedSectors'[i \div SectorSize]
          PROVE  flash'[At(i)] = Erased
      <4>1. CASE i \div SectorSize = sector
        BY <4>1, <2>2
      <4>2. CASE i \div SectorSize # sector
        BY <4>2, <2>11, <3>2, <2>2, <2>5, OffsetSector DEF SInv, Clean, InSession
      <4>3. QED
        BY <4>1, <4>2
    <3>3. \A i \in Offset : Unreached(i)' = Unreached(i)
      BY DEF Unreached
    <3>4. QED
      BY <2>6, <2>11, <3>1, <3>2, <3>3 DEF SInv, Written, Clean, OnPage
  <2>12. QED
    BY <2>10, <2>11
<1>6. QED
  BY <1>4, <1>5

\* The sectors of the pages of a pending chunk are those the erase loop goes over.
LEMMA PendingSector ==
    ASSUME IInv, phase = "erasing", sector > endSector, NEW i \in Offset,
           i >= totalBytes,
           i \div PageSize <= (totalBytes + chunkLen - 1) \div PageSize
    PROVE  erasedSectors[i \div SectorSize]
<1>1. /\ totalBytes \in Nat /\ totalBytes + chunkLen - 1 \in Nat
      /\ sector \in Nat /\ endSector \in Nat
      /\ endSector = (totalBytes + chunkLen - 1) \div SectorSize
  BY LayoutFact, ChunkAssumption DEF IInv, TypeOK, ChunkPending
<1>2. i \in Nat /\ i \div SectorSize \in Sectors
  BY OffsetSector
<1>3. totalBytes \div SectorSize <= i \div SectorSize
  BY <1>1, <1>2, SectorFact, LayoutAssumption
<1>4. i \div SectorSize <= endSector
  BY <1>1, <1>2, PageSector
<1>5. i \div SectorSize < sector
  BY <1>1, <1>2, <1>4, LayoutAssumption DEF Sectors
<1>6. QED
  BY <1>2, <1>3, <1>5 DEF IInv, ChunkPending

\* The pages of the pending chunk.
ChunkPage(i) ==
    /\ chunkLen > 0
    /\ i \div PageSize \in totalBytes \div PageSize ..
                           (totalBytes + chunkLen - 1) \div PageSize

\* What writing a chunk does to the cells of the target partition.
LEMMA ProgramFact ==
    ASSUME IInv, Program, phase = "erasing"
    PROVE  /\ flash' \in [Address -> Cell]
           /\ \A i \in Offset :
                 flash'[At(i)] =
                     IF ChunkPage(i)
                     THEN IF /\ totalBytes % PageSize = 0
                             /\ flash[At(i)] = Erased
                             /\ i \in totalBytes .. totalBytes + chunkLen - 1
                          THEN otaChunk[i - totalBytes]
                          ELSE Garbage
                     ELSE flash[At(i)]
<1>1. /\ totalBytes \in Nat /\ chunkLen \in Nat /\ chunkLen <= ChunkCap
      /\ PartitionOffset(target) \in Nat
  BY LayoutFact, ChunkAssumption DEF IInv, TypeOK
<1>2. ASSUME NEW n \in totalBytes .. totalBytes + chunkLen - 1
      PROVE  otaChunk[n - totalBytes] \in Cell
  <2>1. n - totalBytes \in 0 .. ChunkCap - 1
    BY <1>1, <1>2, ChunkAssumption
  <2>2. QED
    BY <2>1 DEF IInv, TypeOK, Cell
<1>3. flash' \in [Address -> Cell]
  <2> DEFINE f(a) ==
        IF /\ chunkLen > 0
           /\ a >= PartitionOffset(target)
           /\ (a - PartitionOffset(target)) \div PageSize
                  \in totalBytes \div PageSize ..
                      (totalBytes + chunkLen - 1) \div PageSize
        THEN IF /\ totalBytes % PageSize = 0
                /\ flash[a] = Erased
                /\ (a - PartitionOffset(target))
                       \in totalBytes .. totalBytes + chunkLen - 1
             THEN otaChunk[(a - PartitionOffset(target)) - totalBytes]
             ELSE Garbage
        ELSE flash[a]
  <2>1. \A a \in Address : f(a) \in Cell
    BY <1>2 DEF IInv, TypeOK, Cell
  <2>2. flash' = [a \in Address |-> f(a)]
    BY DEF Program
  <2> HIDE DEF f
  <2>3. QED
    BY <2>1, <2>2
<1>4. ASSUME NEW i \in Offset
      PROVE  At(i) \in Address /\ At(i) >= PartitionOffset(target)
             /\ At(i) - PartitionOffset(target) = i
  BY <1>1, LayoutFact, OffsetSector DEF At, IInv, TypeOK
<1>5. QED
  BY <1>3, <1>4 DEF Program, ChunkPage

\* The pages of a pending chunk that begins on a page are erased.
LEMMA PendingErased ==
    ASSUME IInv, SInv, phase = "erasing", sector > endSector,
           NEW i \in Offset, ChunkPage(i)
    PROVE  flash[At(i)] = Erased
<1>1. totalBytes \in Nat /\ i \in Nat
  BY LayoutFact, OffsetSector DEF IInv, TypeOK
<1>2. totalBytes % PageSize = 0
  BY DEF SInv, OnPage, ChunkPage
<1>3. totalBytes \div PageSize <= i \div PageSize
      /\ i \div PageSize <= (totalBytes + chunkLen - 1) \div PageSize
  <2>1. totalBytes + chunkLen - 1 \in Nat
    BY LayoutFact, ChunkAssumption DEF IInv, TypeOK, ChunkPending
  <2>2. QED
    BY <2>1, <1>1, SectorFact, LayoutAssumption DEF ChunkPage
<1>4. /\ i \div PageSize \in Nat /\ totalBytes \div PageSize \in Nat
      /\ \A j \in Nat : j \div PageSize \in Nat
  BY <1>1, SectorFact, LayoutAssumption
<1>5. i >= totalBytes
  BY <1>1, <1>2, <1>3, <1>4, PageBegins
<1>6. Unreached(i)
  <2>1. ASSUME NEW j \in Offset, j < totalBytes
        PROVE  j \div PageSize < i \div PageSize
    <3>1. j \in Nat
      BY OffsetSector
    <3>2. j \div PageSize < totalBytes \div PageSize
      BY <1>1, <1>2, <2>1, <3>1, PageBegins
    <3>3. QED
      BY <1>3, <1>4, <3>1, <3>2
  <2>2. QED
    BY <2>1 DEF Unreached
<1>7. erasedSectors[i \div SectorSize]
  BY <1>3, <1>5, PendingSector
<1>8. QED
  BY <1>6, <1>7 DEF SInv, Clean, InSession

\* The chunk extends the stream on the flash as it extended the hashed one.
LEMMA WriteChunkInv == IInv /\ WriteChunk => IInv' /\ (SInv => SInv')
<1> SUFFICES ASSUME IInv, WriteChunk PROVE IInv' /\ (SInv => SInv')
  OBVIOUS
<1> USE DEF WriteChunk, boot, chunk
<1>1. /\ totalBytes \in Nat /\ chunkLen \in Nat /\ totalBytes + chunkLen >= 1
      /\ totalBytes + chunkLen <= OtaMaxFwSize /\ OtaMaxFwSize \in Nat
  BY LayoutFact, ChunkAssumption DEF IInv, TypeOK, ChunkPending
<1>2. TypeOK'
  BY <1>1, ProgramFact DEF IInv, TypeOK, InSession
<1>3. Covered'
  <2>1. ASSUME NEW i \in Offset, i < totalBytes + chunkLen
        PROVE  erasedSectors[i \div SectorSize]
    <3>1. i \in Nat
      BY OffsetSector
    <3>2. CASE i < totalBytes
      BY <3>2 DEF IInv, Covered, InSession
    <3>3. CASE i >= totalBytes
      <4>1. totalBytes + chunkLen - 1 \in Nat /\ i <= totalBytes + chunkLen - 1
        BY <1>1, <2>1, <3>1
      <4>2. PageSize \in Nat \ {0}
        BY LayoutAssumption
      <4>3. i \div PageSize <= (totalBytes + chunkLen - 1) \div PageSize
        BY <3>1, <4>1, <4>2, SectorFact
      <4>4. QED
        BY <3>3, <4>3, PendingSector
    <3>4. QED
      BY <1>1, <3>1, <3>2, <3>3
  <2>2. QED
    BY <2>1 DEF Covered
<1>4. IInv'
  BY <1>2, <1>3 DEF IInv, SessionTarget, Fallback, ChunkPending, InSession
<1>5. ASSUME SInv PROVE SInv'
  <2>1. \A i \in Offset : At(i)' = At(i)
    BY DEF At
  <2>2. \A i \in Offset :
           flash'[At(i)] = IF ChunkPage(i)
                           THEN IF i \in totalBytes .. totalBytes + chunkLen - 1
                                THEN otaChunk[i - totalBytes]
                                ELSE Garbage
                           ELSE flash[At(i)]
    <3>1. \A i \in Offset : ChunkPage(i) => flash[At(i)] = Erased
      BY <1>5, PendingErased
    <3>2. ASSUME NEW i \in Offset, ChunkPage(i) PROVE totalBytes % PageSize = 0
      BY <1>5, <3>2 DEF SInv, OnPage, ChunkPage
    <3>3. QED
      BY <3>1, <3>2, ProgramFact
  <2>3. Written'
    <3>1. ASSUME NEW i \in Offset, i < totalBytes + chunkLen
          PROVE  flash'[At(i)] = hashed[i]
      <4>1. i \in Nat
        BY OffsetSector
      <4>2. CASE i < totalBytes
        <5>1. ~ChunkPage(i)
          <6> SUFFICES ASSUME ChunkPage(i) PROVE FALSE
            OBVIOUS
          <6>1. totalBytes % PageSize = 0
            BY <1>5 DEF SInv, OnPage, ChunkPage
          <6>2. i \div PageSize < totalBytes \div PageSize
            BY <1>1, <4>1, <4>2, <6>1, PageBegins
          <6>3. i \div PageSize \in Nat /\ totalBytes \div PageSize \in Nat
            BY <1>1, <4>1, SectorFact, LayoutAssumption
          <6>4. QED
            BY <6>2, <6>3 DEF ChunkPage
        <5>2. flash[At(i)] = hashed[i]
          BY <1>5, <4>2 DEF SInv, Written, InSession
        <5>3. QED
          BY <2>2, <5>1, <5>2
      <4>3. CASE i >= totalBytes
        <5>1. i \in totalBytes .. totalBytes + chunkLen - 1 /\ chunkLen > 0
          BY <1>1, <3>1, <4>1, <4>3
        <5>2. PageSize \in Nat \ {0} /\ totalBytes + chunkLen - 1 \in Nat
          BY <1>1, LayoutAssumption
        <5>3. /\ totalBytes \div PageSize <= i \div PageSize
              /\ i \div PageSize <= (totalBytes + chunkLen - 1) \div PageSize
              /\ i \div PageSize \in Nat /\ totalBytes \div PageSize \in Nat
              /\ (totalBytes + chunkLen - 1) \div PageSize \in Nat
          BY <1>1, <4>1, <4>3, <5>1, <5>2, SectorFact
        <5>4. ChunkPage(i)
          BY <5>1, <5>3 DEF ChunkPage
        <5>5. hashed[i] = otaChunk[i - totalBytes]
          BY <3>1, <4>3 DEF IInv, ChunkPending
        <5>6. QED
          BY <2>2, <5>1, <5>4, <5>5
      <4>4. QED
        BY <1>1, <4>1, <4>2, <4>3
    <3>2. QED
      BY <2>1, <3>1 DEF Written
  <2>4. Clean'
    <3>1. ASSUME NEW i \in Offset, Unreached(i)', erasedSectors[i \div SectorSize]
          PROVE  flash'[At(i)] = Erased
      <4>1. \A j \in Offset : j < totalBytes + chunkLen
               => j \div PageSize < i \div PageSize
        BY <3>1 DEF Unreached
      <4>2. Unreached(i)
        BY <1>1, <4>1, OffsetSector DEF Unreached
      <4>3. (totalBytes + chunkLen - 1) \div PageSize < i \div PageSize
        <5>1. totalBytes + chunkLen - 1 \in Offset
          BY <1>1 DEF Offset
        <5>2. QED
          BY <1>1, <4>1, <5>1
      <4>4. ~ChunkPage(i)
        <5>1. /\ (totalBytes + chunkLen - 1) \div PageSize \in Nat
              /\ i \div PageSize \in Nat
          <6>1. totalBytes + chunkLen - 1 \in Nat /\ i \in Nat
            BY <1>1, OffsetSector
          <6>2. QED
            BY <6>1, SectorFact, LayoutAssumption
        <5>2. QED
          BY <4>3, <5>1 DEF ChunkPage
      <4>5. flash[At(i)] = Erased
        BY <1>5, <3>1, <4>2 DEF SInv, Clean, InSession
      <4>6. QED
        BY <2>2, <4>4, <4>5
    <3>2. QED
      BY <2>1, <3>1 DEF Clean
  <2>5. QED
    BY <2>3, <2>4 DEF SInv, OnPage
<1>6. QED
  BY <1>4, <1>5

\* DONE changes nothing on the flash.
LEMMA DoneInv ==
    ASSUME IInv, NEW tail, Done(tail)
    PROVE  IInv' /\ (SInv => SInv')
BY DEF IInv, SInv, Done, boot, stream, chunk, TypeOK, SessionTarget, Covered, Fallback,
       ChunkPending, Written, Clean, OnPage, Unreached, At, InSession

\* Every step preserves the invariant when no stream begins with an empty chunk, and
\* the rest of it when chunks begin on pages.
LEMMA NextInv ==
    ASSUME FirstNotEmpty, IInv, [Next]_vars
    PROVE  IInv' /\ (WholePages /\ SInv => SInv')
<1>1. CASE BeginSession
  BY <1>1, BeginInv
<1>2. CASE ReadFails \/ RebootRefused
  BY <1>2, EndInv DEF ReadFails, RebootRefused
<1>3. ASSUME NEW len \in ChunkLens[totalBytes], ChunkRefused(len)
      PROVE  IInv' /\ SInv'
  BY <1>3, EndInv DEF ChunkRefused
<1>4. ASSUME NEW len \in ChunkLens[totalBytes] \cap (0 .. ChunkCap),
             NEW data \in [0 .. len - 1 -> Data], ReadChunk(len, data)
      PROVE  IInv' /\ (WholePages /\ SInv => SInv')
  BY <1>4, FirstNotEmpty, ReadChunkInv
<1>5. CASE EraseSector
  BY <1>5, EraseSectorInv
<1>6. CASE WriteChunk
  BY <1>6, WriteChunkInv
<1>7. ASSUME NEW tail \in DoneTails, Done(tail) \/ DoneMismatch(tail)
      PROVE  IInv' /\ (SInv => SInv')
  BY <1>7, DoneInv, EndInv DEF DoneMismatch
<1>8. CASE RebootToPartition
  BY <1>8, RestartInv DEF RebootToPartition, IInv, TypeOK
<1>9. ASSUME NEW result \in BuyResults, ConfirmPartition(result)
      PROVE  IInv' /\ SInv'
  BY <1>9, ConfirmInv
<1>10. CASE Reset
  BY <1>10, ResetInv
<1>11. CASE UNCHANGED vars
  BY <1>11 DEF IInv, SInv, vars, boot, stream, chunk, TypeOK, SessionTarget, Covered,
               Fallback, ChunkPending, Written, Clean, OnPage, Unreached, At
<1>12. QED
  BY <1>1, <1>2, <1>3, <1>4, <1>5, <1>6, <1>7, <1>8, <1>9, <1>10, <1>11 DEF Next

\* The invariant holds in every reachable state.
LEMMA Inductive ==
    ASSUME FirstNotEmpty
    PROVE  Spec => []IInv
<1>1. IInv /\ [Next]_vars => IInv'
  BY FirstNotEmpty, NextInv
<1>2. QED
  BY <1>1, InitInv, PTL DEF Spec

LEMMA StreamInductive ==
    ASSUME FirstNotEmpty, WholePages
    PROVE  Spec => [](IInv /\ SInv)
<1>1. IInv /\ SInv /\ [Next]_vars => IInv' /\ SInv'
  BY FirstNotEmpty, WholePages, NextInv
<1>2. QED
  BY <1>1, InitInv, PTL DEF Spec

-----------------------------------------------------------------------------
(* The theorems.                                                            *)

\* The session's variables stay in their ranges, whether chunks begin on pages or not:
\* in particular none takes the stream past the end of the partition (ota_server.go
\* 355-435).
THEOREM TypeCorrect ==
    ASSUME FirstNotEmpty
    PROVE  Spec => []TypeOK
<1>1. IInv => TypeOK
  BY DEF IInv
<1>2. QED
  BY <1>1, FirstNotEmpty, Inductive, PTL

\* The target partition always holds the stream that was hashed, for every way of
\* cutting it into chunks that begin on pages, empty ones in between included
\* (ota_server.go 373-435).
THEOREM StreamOnFlash ==
    ASSUME FirstNotEmpty, WholePages
    PROVE  Spec => []FlashHoldsStream
<1>1. IInv /\ SInv => FlashHoldsStream
  <2> SUFFICES ASSUME IInv, SInv, phase \in InSession, NEW i \in 0 .. totalBytes - 1
               PROVE  flash[PartitionOffset(target) + i] = hashed[i]
    BY DEF FlashHoldsStream
  <2>1. i \in Offset /\ i < totalBytes
    BY LayoutFact DEF IInv, TypeOK, Offset
  <2>2. QED
    BY <2>1 DEF SInv, Written, At
<1>2. QED
  BY <1>1, FirstNotEmpty, WholePages, StreamInductive, PTL

\* No cell of a page is programmed that the session has not erased (ota_server.go
\* 386-424, ota.go 251).
THEOREM ErasedCellsOnly ==
    ASSUME FirstNotEmpty, WholePages
    PROVE  Spec => []WritesErasedCells
<1>1. IInv /\ SInv => WritesErasedCells
  BY PendingErased DEF WritesErasedCells, ChunkPage, At
<1>2. QED
  BY <1>1, FirstNotEmpty, WholePages, StreamInductive, PTL

\* DONE is accepted only with the hash of the stream.
VerifiedStream == phase = "verified" => HashMatches

LEMMA VerifiedInductive ==
    ASSUME HashInTime
    PROVE  Spec => []VerifiedStream
<1>1. Init => VerifiedStream
  BY DEF Init, VerifiedStream
<1>2. VerifiedStream /\ [Next]_vars => VerifiedStream'
  <2> SUFFICES ASSUME VerifiedStream, [Next]_vars, phase' = "verified"
               PROVE  HashMatches'
    BY DEF VerifiedStream
  <2>1. ASSUME NEW tail \in DoneTails, Done(tail) PROVE HashMatches'
    BY <2>1, HashInTime DEF HashInTime, Done, HashMatches, stream
  <2>2. CASE UNCHANGED <<phase, stream>>
    BY <2>2 DEF VerifiedStream, HashMatches, stream
  <2>3. QED
    BY <2>1, <2>2
    DEF Next, BeginSession, ReadFails, ChunkRefused, EndSession, ReadChunk,
        EraseSector, WriteChunk, DoneMismatch, RebootToPartition, Restart,
        RebootRefused, ConfirmPartition, Reset, vars
<1>3. QED
  BY <1>1, <1>2, PTL DEF Spec

\* The image is on the flash when its stream is.
LEMMA StreamIsImage == IInv /\ SInv /\ VerifiedStream => VerifiedImage
<1> SUFFICES ASSUME IInv, SInv, HashMatches, phase = "verified",
                    NEW i \in 0 .. ImageLen - 1
             PROVE  flash[PartitionOffset(target) + i] = Image[i]
  BY DEF VerifiedImage, VerifiedStream
<1>1. i \in Offset /\ i < totalBytes
  BY LayoutFact, ChunkAssumption DEF HashMatches, Offset
<1>2. flash[At(i)] = hashed[i] /\ hashed[i] = Image[i]
  BY <1>1 DEF SInv, Written, HashMatches, InSession
<1>3. QED
  BY <1>2 DEF At

\* The device reboots into the client's firmware or not at all, provided that chunks
\* begin on pages and the DONE line is complete: what docs/ota.md:85 says
\* (ota_server.go 284-337).
THEOREM VerifiedMeansImage ==
    ASSUME FirstNotEmpty, WholePages, HashInTime
    PROVE  Spec => []VerifiedImage
<1>1. Spec => [](IInv /\ SInv)
  BY FirstNotEmpty, WholePages, StreamInductive
<1>2. Spec => []VerifiedStream
  BY HashInTime, VerifiedInductive
<1>3. QED
  BY <1>1, <1>2, StreamIsImage, PTL

\* An erase and a write stay inside the target partition, rest of a page included.
LEMMA InsideTarget ==
    ASSUME IInv, EraseSector \/ WriteChunk,
           NEW a \in Address, flash'[a] # flash[a]
    PROVE  a \in Region(target)
<1> DEFINE n == a - PartitionOffset(target)
<1>1. PartitionOffset(target) \in Nat /\ OtaMaxFwSize \in Nat /\ a \in Nat
  BY LayoutFact, LayoutAssumption DEF IInv, TypeOK, Address
<1>2. n \in Offset => a \in Region(target)
  BY <1>1 DEF Region, Offset
<1>3. n \in Nat /\ n \div SectorSize < PartitionSectors => n \in Offset
  BY <1>1, SectorFact, LayoutAssumption DEF Offset, OtaMaxFwSize
<1>4. CASE EraseSector
  <2>1. a \in SectorCells(target, sector)
    BY <1>4 DEF EraseSector, EraseAt, Erase
  <2>2. sector < PartitionSectors
    BY <1>4, EndSectorFact, LayoutAssumption DEF EraseSector, IInv, TypeOK
  <2>3. n \in Nat /\ n \div SectorSize = sector
    BY <1>1, <2>1 DEF SectorCells
  <2>4. QED
    BY <1>2, <1>3, <2>2, <2>3
<1>5. CASE WriteChunk
  <2>1. /\ a >= PartitionOffset(target)
        /\ n \div PageSize \in totalBytes \div PageSize ..
                               (totalBytes + chunkLen - 1) \div PageSize
    BY <1>5 DEF WriteChunk, Program
  <2>2. n \in Nat
    BY <1>1, <2>1
  <2>3. /\ totalBytes \in Nat /\ totalBytes + chunkLen - 1 \in Nat
        /\ endSector = (totalBytes + chunkLen - 1) \div SectorSize
    BY <1>5, LayoutFact, ChunkAssumption DEF WriteChunk, IInv, TypeOK, ChunkPending
  <2> HIDE DEF n
  <2>4. n \div PageSize <= (totalBytes + chunkLen - 1) \div PageSize
    BY <2>1
  <2>5. n \div SectorSize <= endSector
    BY <2>2, <2>3, <2>4, PageSector
  <2>6. endSector < PartitionSectors /\ endSector \in Nat
    BY <1>5, EndSectorFact DEF WriteChunk, IInv, TypeOK
  <2>7. n \div SectorSize \in Nat /\ PartitionSectors \in Nat
    BY <2>2, SectorFact, LayoutAssumption
  <2>8. QED
    BY <1>2, <1>3, <2>2, <2>5, <2>6, <2>7
<1>6. QED
  BY <1>4, <1>5

\* What the ROM erases when it buys a firmware is in the other partition.
LEMMA InsideOther ==
    ASSUME IInv, NEW result \in BuyResults, ConfirmPartition(result),
           NEW a \in Address, flash'[a] # flash[a]
    PROVE  a \in Region(TargetPartition(current))
<1> DEFINE p == TargetPartition(current)
           n == a - PartitionOffset(p)
<1>1. p \in Partitions /\ PartitionOffset(p) \in Nat /\ a \in Nat
  BY LayoutFact, LayoutAssumption DEF IInv, TypeOK, Address
<1>2. a \in SectorCells(p, 0)
  BY DEF ConfirmPartition, Bought, Erase
<1>3. n \in Nat /\ n \div SectorSize = 0
  BY <1>1, <1>2 DEF SectorCells
<1> HIDE DEF n
<1>4. n < PartitionSectors * SectorSize
  BY <1>3, SectorFact, LayoutAssumption
<1>5. n \in Offset /\ a = PartitionOffset(p) + n
  BY <1>1, <1>3, <1>4, LayoutFact DEF n, Offset, OtaMaxFwSize
<1>6. QED
  BY <1>5 DEF Region

\* No step changes the partition the device runs from, whatever the lengths of chunks,
\* on trial or not, and whatever the boot ROM answers (ota_server.go 256-257, 386-424,
\* ota.go 91-99).
THEOREM RunningSafe ==
    ASSUME FirstNotEmpty
    PROVE  Spec => RunningUntouched
<1> DEFINE Untouched == \A a \in Address : a \in Region(current) => flash'[a] = flash[a]
<1>1. IInv /\ [Next]_vars => [Untouched]_vars
  <2> SUFFICES ASSUME IInv, Next PROVE Untouched
    OBVIOUS
  <2>1. CASE UNCHANGED flash
    BY <2>1
  <2>2. ASSUME NEW a \in Address, a \in Region(TargetPartition(current))
        PROVE  a \notin Region(current)
    BY <2>2, RegionsDisjoint DEF Region, IInv, TypeOK
  <2>3. CASE EraseSector \/ WriteChunk
    <3>1. target = TargetPartition(current)
      BY <2>3 DEF EraseSector, WriteChunk, IInv, SessionTarget, InSession
    <3>2. QED
      BY <2>2, <2>3, <3>1, InsideTarget
  <2>4. ASSUME NEW result \in BuyResults, ConfirmPartition(result)
        PROVE  Untouched
    BY <2>2, <2>4, InsideOther
  <2>5. QED
    BY <2>1, <2>3, <2>4
    DEF Next, BeginSession, ReadFails, ChunkRefused, EndSession, ReadChunk,
        DoneMismatch, Done, RebootToPartition, Restart, RebootRefused, Reset
<1>2. Spec => []IInv
  BY FirstNotEmpty, Inductive
<1>3. QED
  BY <1>1, <1>2, PTL DEF Spec, RunningUntouched

\* A cell of a sector below the end of a partition is a cell of the partition.
LEMMA SectorInside ==
    ASSUME NEW p \in Partitions, NEW s \in Nat, s < PartitionSectors
    PROVE  SectorCells(p, s) \subseteq Region(p)
<1> SUFFICES ASSUME NEW a \in SectorCells(p, s) PROVE a \in Region(p)
  OBVIOUS
<1> DEFINE n == a - PartitionOffset(p)
<1>1. PartitionOffset(p) \in Nat /\ a \in Nat
  BY LayoutFact, LayoutAssumption DEF SectorCells, Address
<1>2. n \in Nat /\ n \div SectorSize < PartitionSectors
  BY <1>1 DEF SectorCells
<1>3. a = PartitionOffset(p) + n
  BY <1>1
<1> HIDE DEF n
<1>4. n < PartitionSectors * SectorSize
  BY <1>2, SectorFact, LayoutAssumption
<1>5. n \in Offset
  BY <1>2, <1>4, LayoutFact DEF Offset, OtaMaxFwSize
<1>6. QED
  BY <1>3, <1>5 DEF Region

\* While the boot ROM buys what it is asked to, the firmware that serves is the one a
\* normal boot takes.
BoughtServes ==
    /\ bought # NoPartition
    /\ phase # "boot" => bought = current
    /\ phase # "dead"

\* "This ensures a bad update can never brick the device" (docs/ota.md:100), provided
\* that the boot ROM never refuses to buy a firmware: a reset always finds one to boot,
\* at whatever point of a boot or a session it falls (ota.go 91-99, main.go 139-142).
THEOREM AlwaysBoots ==
    ASSUME FirstNotEmpty, BuyWorks
    PROVE  Spec => []NeverBricked
<1>1. Init => BoughtServes
  BY DEF Init, BoughtServes, Partitions, PartitionA, NoPartition
<1>2. IInv /\ BoughtServes /\ [Next]_vars => BoughtServes'
  <2> SUFFICES ASSUME IInv, BoughtServes, [Next]_vars PROVE BoughtServes'
    OBVIOUS
  <2>1. CASE EraseSector
    <3>1. sector \in Nat /\ sector < PartitionSectors /\ target \in Partitions
          /\ current \in Partitions
      BY <2>1, EndSectorFact, LayoutAssumption DEF EraseSector, IInv, TypeOK
    <3>2. target = TargetPartition(current) /\ bought = current /\ phase = "erasing"
      BY <2>1 DEF EraseSector, BoughtServes, IInv, SessionTarget, InSession
    <3>3. SectorCells(target, sector) \cap Region(bought) = {}
      <4>1. SectorCells(target, sector) \subseteq Region(target)
        BY <3>1, SectorInside
      <4>2. Region(target) \cap Region(current) = {}
        BY <3>1, <3>2, RegionsDisjoint DEF Region
      <4>3. QED
        BY <3>2, <4>1, <4>2
    <3>4. bought' = bought
      BY <2>1, <3>3 DEF EraseSector, EraseAt
    <3>5. QED
      BY <2>1, <3>2, <3>4 DEF EraseSector, BoughtServes
  <2>2. ASSUME NEW result \in BuyResults, ConfirmPartition(result)
        PROVE  BoughtServes'
    <3>1. result = "ok"
      BY BuyWorks, ChunkAssumption DEF BuyWorks
    <3>2. bought' = current /\ current' = current /\ phase' = "idle"
      BY <2>2, <3>1 DEF ConfirmPartition, Bought
    <3>3. current # NoPartition
      BY DEF IInv, TypeOK, Partitions, PartitionA, PartitionB, NoPartition
    <3>4. QED
      BY <3>2, <3>3 DEF BoughtServes
  <2>3. CASE RebootToPartition \/ Reset
    BY <2>3 DEF RebootToPartition, Reset, Restart, BoughtServes
  <2>4. QED
    BY <2>1, <2>2, <2>3
    DEF Next, BeginSession, ReadFails, ChunkRefused, EndSession, ReadChunk,
        WriteChunk, DoneMismatch, Done, RebootRefused, BoughtServes, vars, boot
<1>3. BoughtServes => NeverBricked
  BY DEF BoughtServes, NeverBricked
<1>4. Spec => []IInv
  BY FirstNotEmpty, Inductive
<1>5. QED
  BY <1>1, <1>2, <1>3, <1>4, PTL DEF Spec

-----------------------------------------------------------------------------
(* The abstract specification.                                              *)

\* What the device runs, what it goes back to, and whether it is on trial.
Running == IF phase = "dead" THEN <<>> ELSE <<Firmware(current)>>
Kept == IF bought = NoPartition THEN <<>> ELSE <<Firmware(bought)>>
OnTrial == current # bought

\* Cells outside a partition do not matter to its firmware.
LEMMA FirmwareKept ==
    ASSUME NEW p \in Partitions, \A a \in Address : a \in Region(p) => flash'[a] = flash[a]
    PROVE  [i \in 0 .. ImageLen - 1 |-> flash'[PartitionOffset(p) + i]] = Firmware(p)
<1>1. ASSUME NEW i \in 0 .. ImageLen - 1
      PROVE  flash'[PartitionOffset(p) + i] = flash[PartitionOffset(p) + i]
  <2>1. i \in Offset
    BY ChunkAssumption, LayoutFact DEF Offset
  <2>2. QED
    BY <2>1, LayoutFact DEF Region
<1>2. QED
  BY <1>1 DEF Firmware

\* Nothing happens to the device's firmware in a step that leaves the flash, the boot
\* partitions and the life of the device alone.
LEMMA StutterKept ==
    ASSUME UNCHANGED <<flash, current, bought>>, (phase' = "dead") <=> (phase = "dead")
    PROVE  UNCHANGED <<Running, Kept, OnTrial>>
BY DEF Running, Kept, OnTrial, Firmware

\* An erase and a write leave the running firmware as it is, and the one to go back to
\* unless that is what they are written over.
LEMMA SessionStep ==
    ASSUME IInv, EraseSector \/ WriteChunk
    PROVE  [Abstract!Next]_<<Running, Kept, OnTrial>>
<1>1. /\ phase = "erasing" /\ phase' # "dead" /\ current' = current
      /\ current \in Partitions /\ target = TargetPartition(current)
  BY DEF EraseSector, WriteChunk, IInv, TypeOK, SessionTarget, InSession, boot
<1>2. \A a \in Address : a \in Region(current) => flash'[a] = flash[a]
  BY <1>1, InsideTarget, RegionsDisjoint DEF Region
<1>3. Firmware(current)' = Firmware(current)
  BY <1>1, <1>2, FirmwareKept DEF Firmware
<1>4. Running' = Running
  BY <1>1, <1>3 DEF Running
<1>5. bought \in Partitions \cup {NoPartition}
  BY DEF IInv, TypeOK
<1>6. current # target
  BY <1>1 DEF TargetPartition, Partitions, PartitionA, PartitionB
<1>7. CASE bought' = bought /\ bought # target
  <2>1. bought = current \/ bought = NoPartition
    BY <1>1, <1>5, <1>7 DEF TargetPartition, Partitions, PartitionA, PartitionB
  <2>2. Kept' = Kept
    BY <1>1, <1>3, <1>7, <2>1 DEF Kept
  <2>3. OnTrial' = OnTrial
    BY <1>1, <1>7 DEF OnTrial
  <2>4. QED
    BY <1>4, <2>2, <2>3
<1>8. CASE bought' = NoPartition /\ bought = target
  <2>1. OnTrial /\ OnTrial' /\ Kept' = <<>>
    BY <1>1, <1>6, <1>8 DEF OnTrial, Kept, Partitions, PartitionA, PartitionB, NoPartition
  <2>2. Abstract!Forfeit
    BY <1>4, <2>1 DEF Abstract!Forfeit, Running, Kept, OnTrial
  <2>3. QED
    BY <2>2 DEF Abstract!Next
<1>9. \/ bought' = bought /\ bought # target
      \/ bought' = NoPartition /\ bought = target
  <2>1. CASE EraseSector
    <3>1. sector \in Sectors /\ sector \in Nat /\ sector < PartitionSectors
          /\ target \in Partitions
      BY <2>1, EndSectorFact, LayoutAssumption DEF EraseSector, IInv, TypeOK, Sectors
    <3>2. CASE bought = target
      <4>1. ~erasedSectors[sector] /\ sector < TrackedSectors
        BY <3>1, <3>2, <1>1, LayoutAssumption DEF IInv, Fallback, InSession, Sectors
      <4>2. EraseAt(sector)
        BY <2>1, <4>1 DEF EraseSector
      <4>3. SectorCells(target, sector) \cap Region(target) # {}
        BY <3>1, SectorInRegion
      <4>4. bought # NoPartition
        BY <3>1, <3>2 DEF Partitions, PartitionA, PartitionB, NoPartition
      <4>5. QED
        BY <3>2, <4>2, <4>3, <4>4 DEF EraseAt
    <3>3. CASE bought # target
      <4>1. EraseAt(sector) \/ bought' = bought
        BY <2>1 DEF EraseSector
      <4>2. bought = current \/ bought = NoPartition
        BY <1>1, <1>5, <3>3 DEF TargetPartition, Partitions, PartitionA, PartitionB
      <4>3. CASE bought = current
        <5>1. SectorCells(target, sector) \subseteq Region(target)
          BY <3>1, SectorInside
        <5>2. Region(target) \cap Region(current) = {}
          BY <1>1, RegionsDisjoint DEF Region
        <5>3. bought' = bought
          BY <4>1, <4>3, <5>1, <5>2 DEF EraseAt
        <5>4. QED
          BY <3>3, <5>3
      <4>4. CASE bought = NoPartition
        BY <3>3, <4>1, <4>4 DEF EraseAt
      <4>5. QED
        BY <4>2, <4>3, <4>4
    <3>4. QED
      BY <3>2, <3>3
  <2>2. CASE WriteChunk
    <3>1. bought' = bought
      BY <2>2 DEF WriteChunk, boot
    <3>2. bought # target
      <4>1. 0 \in Offset
        <5>1. /\ totalBytes \in Nat /\ chunkLen \in Nat /\ OtaMaxFwSize \in Nat
              /\ totalBytes + chunkLen >= 1 /\ totalBytes + chunkLen <= OtaMaxFwSize
          BY <1>1, LayoutFact, ChunkAssumption DEF IInv, TypeOK, ChunkPending
        <5>2. QED
          BY <5>1 DEF Offset
      <4>2. 0 \div SectorSize \in Sectors
        BY <4>1, OffsetSector
      <4>3. \E s \in Sectors : erasedSectors[s]
        <5>1. totalBytes \in Nat /\ chunkLen \in Nat /\ totalBytes + chunkLen >= 1
          BY <1>1, LayoutFact, ChunkAssumption DEF IInv, TypeOK, ChunkPending
        <5>2. CASE totalBytes > 0
          BY <1>1, <4>1, <4>2, <5>1, <5>2 DEF IInv, Covered, InSession
        <5>3. CASE totalBytes = 0
          <6>1. totalBytes + chunkLen - 1 \in Nat /\ 0 <= totalBytes + chunkLen - 1
            BY <5>1
          <6>2. 0 \div PageSize <= (totalBytes + chunkLen - 1) \div PageSize
            BY <6>1, SectorFact, LayoutAssumption
          <6>3. sector > endSector
            BY <2>2 DEF WriteChunk
          <6>4. QED
            BY <1>1, <4>1, <4>2, <5>3, <6>2, <6>3, PendingSector
        <5>4. QED
          BY <5>1, <5>2, <5>3
      <4>4. QED
        BY <1>1, <4>3 DEF IInv, Fallback, InSession
    <3>3. QED
      BY <3>1, <3>2
  <2>3. QED
    BY <2>1, <2>2
<1>10. QED
  BY <1>7, <1>8, <1>9

\* The reboot installs the image, and never over the firmware to go back to.
LEMMA RebootStep ==
    ASSUME IInv, HashMatches, VerifiedImage, RebootToPartition
    PROVE  [Abstract!Next]_<<Running, Kept, OnTrial>>
<1>1. /\ phase = "verified" /\ phase' = "boot" /\ current' = target
      /\ UNCHANGED <<bought, flash>>
      /\ current \in Partitions /\ target = TargetPartition(current)
      /\ bought \in Partitions \cup {NoPartition}
  BY DEF RebootToPartition, Restart, IInv, TypeOK, SessionTarget, InSession
<1>2. Running # <<>> /\ Running' = <<Image>>
  BY <1>1, ChunkAssumption DEF Running, Firmware, VerifiedImage
<1>3. Kept' = Kept
  BY <1>1 DEF Kept, Firmware
<1>4. CASE bought # target
  <2>1. OnTrial' /\ (OnTrial => Kept = <<>>)
    BY <1>1, <1>4 DEF OnTrial, Kept, TargetPartition, Partitions, PartitionA, PartitionB
  <2>2. Abstract!Install
    BY <1>2, <1>3, <2>1 DEF Abstract!Install, Running, Kept, OnTrial
  <2>3. QED
    BY <2>2 DEF Abstract!Next
<1>5. CASE bought = target
  <2>1. ImageLen = 0
    <3> SUFFICES ASSUME ImageLen # 0 PROVE FALSE
      OBVIOUS
    <3>1. ImageLen \in Nat /\ totalBytes > 0 /\ 0 < totalBytes
      BY ChunkAssumption, LayoutFact DEF HashMatches
    <3>2. 0 \in Offset
      BY <3>1, LayoutFact DEF Offset, IInv, TypeOK
    <3>3. erasedSectors[0 \div SectorSize] /\ 0 \div SectorSize \in Sectors
      BY <1>1, <3>1, <3>2, OffsetSector DEF IInv, Covered, InSession
    <3>4. QED
      BY <1>1, <1>5, <3>3 DEF IInv, Fallback, InSession
  <2>2. Firmware(target) = Image
    BY <2>1, ChunkAssumption DEF Firmware
  <2>3. Kept = <<Image>> /\ OnTrial /\ ~OnTrial'
    BY <1>1, <1>5, <2>2
    DEF Kept, OnTrial, TargetPartition, Partitions, PartitionA, PartitionB, NoPartition
  <2>4. Abstract!Revert
    BY <1>2, <1>3, <2>3 DEF Abstract!Revert, Running, Kept, OnTrial
  <2>5. QED
    BY <2>4 DEF Abstract!Next
<1>6. QED
  BY <1>4, <1>5

\* A boot that is told that its firmware is bought confirms it.
LEMMA ConfirmStep ==
    ASSUME IInv, NEW result \in BuyResults, ConfirmPartition(result)
    PROVE  [Abstract!Next]_<<Running, Kept, OnTrial>>
<1>1. phase = "boot" /\ phase' = "idle" /\ current' = current /\ current \in Partitions
  BY DEF ConfirmPartition, IInv, TypeOK
<1>2. CASE result = "error"
  BY <1>1, <1>2, StutterKept DEF ConfirmPartition
<1>3. CASE result = "ok"
  <2>1. bought' = current
    BY <1>3 DEF ConfirmPartition, Bought
  <2>2. \A a \in Address : a \in Region(current) => flash'[a] = flash[a]
    BY <1>1, InsideOther, RegionsDisjoint DEF Region
  <2>3. Firmware(current)' = Firmware(current)
    BY <1>1, <2>2, FirmwareKept DEF Firmware
  <2>4. current # NoPartition
    BY <1>1 DEF Partitions, PartitionA, PartitionB, NoPartition
  <2>5. Running = <<Firmware(current)>> /\ Running' = Running
    BY <1>1, <2>3 DEF Running
  <2>6. Kept' = Running /\ ~OnTrial'
    BY <1>1, <2>1, <2>3, <2>4, <2>5 DEF Kept, OnTrial
  <2>7. CASE OnTrial
    <3>1. Running # <<>>
      BY <2>5
    <3>2. Abstract!Confirm
      BY <2>5, <2>6, <2>7, <3>1 DEF Abstract!Confirm, Running, Kept, OnTrial
    <3>3. QED
      BY <3>2 DEF Abstract!Next
  <2>8. CASE ~OnTrial
    <3>1. Kept = Running
      BY <2>4, <2>5, <2>8 DEF Kept, OnTrial
    <3>2. QED
      BY <2>5, <2>6, <2>8, <3>1 DEF OnTrial
  <2>9. QED
    BY <2>7, <2>8
<1>4. QED
  BY <1>2, <1>3 DEF ConfirmPartition

\* A reset goes back to what was confirmed, or finds nothing.
LEMMA ResetStep ==
    ASSUME IInv, Reset
    PROVE  [Abstract!Next]_<<Running, Kept, OnTrial>>
<1>1. CASE bought = NoPartition
  <2>1. /\ UNCHANGED <<flash, current, bought>> /\ phase' = "dead"
    BY <1>1 DEF Reset, boot
  <2>2. Kept = <<>> /\ UNCHANGED <<Kept, OnTrial>> /\ Running' = <<>>
    BY <1>1, <2>1 DEF Kept, OnTrial, Running
  <2>3. Abstract!Die
    BY <2>2 DEF Abstract!Die, Running, Kept, OnTrial
  <2>4. QED
    BY <2>3 DEF Abstract!Next
<1>2. CASE bought # NoPartition
  <2>1. /\ current' = bought /\ UNCHANGED <<flash, bought>> /\ phase' = "boot"
        /\ phase # "dead"
    BY <1>2 DEF Reset, Restart, IInv, Fallback
  <2>2. Kept = <<Firmware(bought)>> /\ Kept' = Kept /\ Running' = Kept /\ ~OnTrial'
    BY <1>2, <2>1 DEF Kept, Running, OnTrial, Firmware
  <2>3. CASE OnTrial
    <3>1. Kept # <<>>
      BY <2>2
    <3>2. Abstract!Revert
      BY <2>2, <2>3, <3>1 DEF Abstract!Revert, Running, Kept, OnTrial
    <3>3. QED
      BY <3>2 DEF Abstract!Next
  <2>4. CASE ~OnTrial
    <3>1. Running = Kept
      BY <2>1, <2>2, <2>4 DEF Running, OnTrial
    <3>2. QED
      BY <2>2, <2>4, <3>1 DEF OnTrial
  <2>5. QED
    BY <2>3, <2>4
<1>3. QED
  BY <1>1, <1>2

\* Every step of the session is a step of FirmwareUpdate or a stutter.
LEMMA StepImplements ==
    ASSUME IInv, VerifiedImage, VerifiedStream, [Next]_vars
    PROVE  [Abstract!Next]_<<Running, Kept, OnTrial>>
<1>1. CASE EraseSector \/ WriteChunk
  BY <1>1, SessionStep
<1>2. CASE RebootToPartition
  BY <1>2, RebootStep DEF RebootToPartition, VerifiedStream
<1>3. ASSUME NEW result \in BuyResults, ConfirmPartition(result)
      PROVE  [Abstract!Next]_<<Running, Kept, OnTrial>>
  BY <1>3, ConfirmStep
<1>4. CASE Reset
  BY <1>4, ResetStep
<1>5. CASE /\ UNCHANGED <<flash, current, bought>>
           /\ phase' = "dead" <=> phase = "dead"
  BY <1>5, StutterKept
<1>6. QED
  BY <1>1, <1>2, <1>3, <1>4, <1>5
  DEF Next, BeginSession, ReadFails, ChunkRefused, EndSession, ReadChunk,
      DoneMismatch, Done, RebootRefused, vars, boot

LEMMA AbstractInit == Init => Abstract!Init
<1> SUFFICES ASSUME Init PROVE Abstract!Init
  OBVIOUS
<1>1. \A i \in 0 .. ImageLen - 1 : PartitionOffset(PartitionA) + i \in Address
  BY ChunkAssumption, LayoutFact DEF Offset, Partitions
<1>2. QED
  BY <1>1 DEF Init, Abstract!Init, Firmware, PartitionA, NoPartition

\* Whatever clients send in chunks that begin on pages, whatever the boot ROM answers
\* and wherever a reset falls, the device runs one whole firmware and changes it in a
\* single step (ota_server.go 229-450, ota.go 91-133).
THEOREM Implementation ==
    ASSUME FirstNotEmpty, WholePages, HashInTime
    PROVE  Spec => ImplementsFirmwareUpdate
<1>1. Init => Abstract!Init
  BY AbstractInit
<1>2. Spec => []IInv
  BY FirstNotEmpty, Inductive
<1>3. Spec => []VerifiedImage
  BY FirstNotEmpty, WholePages, HashInTime, VerifiedMeansImage
<1>4. Spec => []VerifiedStream
  BY HashInTime, VerifiedInductive
<1>5. IInv /\ VerifiedImage /\ VerifiedStream /\ [Next]_vars =>
        [Abstract!Next]_<<Running, Kept, OnTrial>>
  BY StepImplements
<1>6. QED
  BY <1>1, <1>2, <1>3, <1>4, <1>5, PTL
  DEF Spec, ImplementsFirmwareUpdate, Abstract!Spec, Running, Kept, OnTrial
=============================================================================
