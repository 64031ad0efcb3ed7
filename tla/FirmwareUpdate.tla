---------------------------- MODULE FirmwareUpdate ---------------------------
(****************************************************************************)
(* What an update over the air promises: the device always runs one whole     *)
(* firmware, and goes from one to another in a single step.  New firmware is  *)
(* on trial first, with the old one kept to go back to.  Only firmware that is *)
(* still on trial can give up the one to go back to, and only a device that    *)
(* has none can end up with nothing to run.                                  *)
(****************************************************************************)
CONSTANTS
    New,        \* the firmware the client means to install
    Factory     \* what the device was delivered with

VARIABLES
    running,    \* <<what the device runs>>; <<>> when it does not boot any more
    kept,       \* <<what it boots after a reset>>; <<>> when there is nothing
    trial       \* what it runs is not confirmed yet

Init ==
    /\ running = <<Factory>>
    /\ kept = <<Factory>>
    /\ trial = FALSE

\* Never in the place of the firmware to go back to.
Install ==
    /\ running # <<>>
    /\ trial => kept = <<>>
    /\ running' = <<New>>
    /\ trial' = TRUE
    /\ UNCHANGED kept

Confirm ==
    /\ trial /\ running # <<>>
    /\ kept' = running
    /\ trial' = FALSE
    /\ UNCHANGED running

Revert ==
    /\ trial
    /\ kept # <<>>
    /\ running' = kept
    /\ trial' = FALSE
    /\ UNCHANGED kept

Forfeit ==
    /\ trial
    /\ kept' = <<>>
    /\ UNCHANGED <<running, trial>>

Die ==
    /\ kept = <<>>
    /\ running' = <<>>
    /\ UNCHANGED <<kept, trial>>

Next == Install \/ Confirm \/ Revert \/ Forfeit \/ Die

Spec == Init /\ [][Next]_<<running, kept, trial>>
=============================================================================
