---------------------------- MODULE MCTelemetryBody ---------------------------
(* TelemetryBody with the widths of the source.  The queue has three slots and   *)
(* the body room for two long records and some of a third, so that the end of   *)
(* BodyBuf falls into every part of a record, of its trace and of the close.     *)
EXTENDS TelemetryBody

\* A short line, one that its attributes fill, and one that stays on the console.
MCRecords ==
    {[level |-> "info",  message |-> 12,  attrs |-> <<>>],
     [level |-> "error", message |-> 20,  attrs |-> <<40, 40, 40>>],
     [level |-> "debug", message |-> 20,  attrs |-> <<>>]}

MCEntry ==
    {EntryOf(r, traced) : r \in {q \in MCRecords : q.level # "debug"}, traced \in BOOLEAN}
=============================================================================
