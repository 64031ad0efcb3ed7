--------------------------------- MODULE UF2 ---------------------------------
(****************************************************************************)
(* extractUF2Binary of src/cmd/cli/main.go: the firmware that the blocks of a  *)
(* UF2 file spell out.                                                      *)
(*                                                                          *)
(* A block is a record: whether its magic numbers are right, its target        *)
(* address, the payload size it claims, and its payload.  Addresses are 32-bit *)
(* and wrap.                                                                *)
(****************************************************************************)
EXTENDS Integers, Sequences, FiniteSetsExt

CONSTANTS
    AddressSpace,  \* 2^32
    PayloadCap,    \* the bytes a block has room for (476)
    MaxOutput,     \* the largest binary extracted (4 MB)
    Gap            \* what the output holds where no block writes

ASSUME UF2Assumption ==
    /\ AddressSpace \in Nat \ {0}
    /\ PayloadCap \in Nat
    /\ MaxOutput \in Nat

Blocks(file) == 1 .. Len(file)

\* The fields of the blocks are 32-bit words.
IsFile(file) ==
    /\ file \in Seq(Range(file))
    /\ \A b \in Blocks(file) :
          /\ file[b].addr \in 0 .. AddressSpace - 1
          /\ file[b].size \in 0 .. AddressSpace - 1

\* The part of a payload that is copied.
Copied(block) ==
    IF block.size > PayloadCap THEN PayloadCap ELSE block.size

\* The address range, from the sizes the blocks claim.
MinAddr(file) == Min({file[b].addr : b \in Blocks(file)})

MaxAddr(file) ==
    Max({(file[b].addr + file[b].size) % AddressSpace : b \in Blocks(file)} \cup {0})

OutputSize(file) == (MaxAddr(file) - MinAddr(file)) % AddressSpace

\* Mutant: offsets count from the first block, not from the lowest address.
PlaceFromFirst(file, b) == file[b].addr - file[1].addr

\* Where a block goes in the output.
Place(file, b) == file[b].addr - MinAddr(file)

\* The files that are extracted.  A copy that does not fit the output is a panic,
\* which ends the client just as well.
Extractable(file) ==
    /\ file # <<>>
    /\ \A b \in Blocks(file) : file[b].magic
    /\ OutputSize(file) <= MaxOutput
    /\ \A b \in Blocks(file) : Place(file, b) + Copied(file[b]) <= OutputSize(file)

\* The copies are made in the order of the blocks, so the last one that covers a
\* byte stays.
extractUF2Binary(file) ==
    [i \in 0 .. OutputSize(file) - 1 |->
        LET writers == {b \in Blocks(file) :
                           i \in Place(file, b) .. Place(file, b) + Copied(file[b]) - 1}
        IN  IF writers = {} THEN Gap
            ELSE file[Max(writers)].payload[i - Place(file, Max(writers))]]
-----------------------------------------------------------------------------
(* What a file spells out, to compare with.                                   *)

\* Where byte i of the payload of block b belongs: as far behind the firmware's
\* beginning as its address is behind the lowest one.
CellOf(file, b, i) == file[b].addr - MinAddr(file) + i

\* The cells of a firmware hold every byte of every block, but for one that a later
\* block of the file takes the place of, and Gap where no byte belongs.
SpeltBy(file, firmware) ==
    /\ \A b \in Blocks(file) : \A i \in 0 .. Copied(file[b]) - 1 :
          \/ firmware[CellOf(file, b, i)] = file[b].payload[i]
          \/ \E c \in b + 1 .. Len(file) : \E j \in 0 .. Copied(file[c]) - 1 :
                CellOf(file, c, j) = CellOf(file, b, i)
    /\ \A cell \in 0 .. OutputSize(file) - 1 :
          \/ firmware[cell] = Gap
          \/ \E b \in Blocks(file) : \E i \in 0 .. Copied(file[b]) - 1 :
                CellOf(file, b, i) = cell
=============================================================================
