------------------------------ MODULE MCConsole ------------------------------
(* Console with buffers of a few bytes and one tick for each step of a lockout. *)
EXTENDS Console

MCPassword == <<"a">>

\* A lockout after the second failure, a longer one after the third.
MCFailureSteps == <<2, 3>>
MCLockoutTimes == <<1, 2>>

=============================================================================
