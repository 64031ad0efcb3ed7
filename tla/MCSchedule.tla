----------------------------- MODULE MCSchedule ------------------------------
(* The schedules Node-RED may send in Schedule's run.                         *)
EXTENDS Schedule

Collect(d, b) == [day |-> d, bin |-> b]

\* An entry that is no job: day 0 stands for a date that does not parse.
Garbled == Collect(0, BinUnknown)

\* An entry that is no job, two bins on one day, and one more job than there is room
\* for.
MCSchedules ==
    {<<Garbled, Collect(1, "green"), Collect(1, "black"), Collect(2, "black")>>}

\* One job will do where the clock or the number of jobs is all that matters.
MCOneJob == {<<Collect(1, "green")>>}

=============================================================================
