----------------------------- MODULE MCWakeCycle -----------------------------
(* WakeCycle on a small instance: one tick stands for the 5 s of a sleep      *)
(* iteration, the intervals are shortened in proportion.                     *)
EXTENDS WakeCycle

\* One override shorter than the wake interval, one longer, and "sleep 0".
MCDebugSleeps == {0, 1, 3}

=============================================================================
