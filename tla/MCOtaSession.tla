----------------------------- MODULE MCOtaSession ----------------------------
(* OtaSession on partitions of two sectors of two pages of two cells.  The     *)
(* chunk buffer holds a sector, as the device's does, so that chunks that begin *)
(* on pages share sectors and go over their edges; the erase map covers one     *)
(* sector more than a partition has.                                         *)
EXTENDS OtaSession

MCImage == [i \in 0 .. 2 |-> 1]

\* Chunk lengths up to one that the buffer has no room for.  The first chunk has data,
\* and what follows a chunk that ends inside a page is empty.
MCChunkLens ==
    [n \in 0 .. OtaMaxFwSize |->
        IF n = 0 THEN 1 .. 5 ELSE IF n % PageSize = 0 THEN 0 .. 5 ELSE {0}]

\* Any lengths, whether the chunks begin on pages or not.
MCChunkLensRagged == [n \in 0 .. OtaMaxFwSize |-> 1 .. 2]

\* The length 0 from the start.
MCChunkLensWithZero ==
    [n \in 0 .. OtaMaxFwSize |-> IF n % PageSize = 0 THEN 0 .. 3 ELSE {0}]

\* The whole line, or a part of the hash, arrives in one read.
MCTails == {"hash", "part"}

\* Nothing may arrive within the 2 s.
MCTailsLate == {"hash", "part", "none"}
=============================================================================
