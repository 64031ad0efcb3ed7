------------------------------ MODULE MCOtaPush -------------------------------
(* OtaPush on the device of MCOtaSession.  The firmware is three cells long and   *)
(* the client's chunks are a page, so that a push has a whole chunk, one that ends *)
(* inside a page, and DONE.                                                  *)
EXTENDS OtaPush, MCOtaSession

\* A block at an address behind the firmware's first.
At(offset, payload) ==
    [magic |-> TRUE, addr |-> 5 + offset, size |-> Len(payload),
     payload |-> [i \in 0 .. Len(payload) - 1 |-> payload[i + 1]]]

\* The image with its blocks out of order and a gap for its zero, and with a block
\* that a later one writes over; two files that are refused: a block far away, and a
\* block with a wrong magic number.
MCFiles ==
    {<<At(2, <<1>>), At(0, <<1>>)>>,
     <<At(0, <<0, 0>>), At(2, <<1>>), At(0, <<1>>)>>,
     <<At(0, <<1, 0>>), At(9, <<1>>)>>,
     <<[At(0, <<1, 0>>) EXCEPT !.magic = FALSE]>>}

MCPushImage == [i \in 0 .. 2 |-> IF i = 1 THEN 0 ELSE 1]

\* A page, a sector, which lies over the edge of two when it begins in the middle of
\* one, a part of a page, nothing, and one cell more than the buffer holds.
MCPushLens ==
    [n \in 0 .. OtaMaxFwSize |->
        IF n = 0 THEN {2, 4, 5} ELSE IF n % PageSize = 0 THEN {0, 1, 4} ELSE {0}]
=============================================================================
