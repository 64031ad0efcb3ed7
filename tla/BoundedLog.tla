------------------------------ MODULE BoundedLog -----------------------------
(****************************************************************************)
(* What a telemetry queue promises its users: the last Capacity entries since *)
(* the previous flush are kept, in the order they were recorded, and a flush  *)
(* hands exactly those to the sender.                                        *)
(****************************************************************************)
EXTENDS Naturals, Sequences

CONSTANTS
    Entry,     \* what can be recorded
    Capacity   \* how many entries are kept

VARIABLES
    log,    \* the entries kept, oldest first
    batch   \* the entries the last flush handed to the sender

Init ==
    /\ log = <<>>
    /\ batch = <<>>

\* The oldest entry makes room for a new one.
Record(e) ==
    /\ log' = IF Len(log) < Capacity THEN Append(log, e)
                                     ELSE Append(Tail(log), e)
    /\ UNCHANGED batch

Drain ==
    /\ log # <<>>
    /\ batch' = log
    /\ log' = <<>>

Next == (\E e \in Entry : Record(e)) \/ Drain

Spec == Init /\ [][Next]_<<log, batch>>
=============================================================================
