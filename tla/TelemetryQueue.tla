---------------------------- MODULE TelemetryQueue ---------------------------
(****************************************************************************)
(* The circular queue of src/telemetry/telemetry.go, as log records use it    *)
(* (LogQueue, LogHead, LogCount; MetricQueue is the same code).  The mutex     *)
(* makes each operation one step.  BodyBuf is what BuildLogsJSON puts there:  *)
(* the entries in the order they are written out.                            *)
(****************************************************************************)
EXTENDS Integers, Sequences

CONSTANTS
    Entry,      \* what a caller can log
    Blank,      \* a slot that has never been used
    QueueSize   \* len(LogQueue)

ASSUME QueueAssumption == QueueSize \in Nat \ {0}

VARIABLES
    LogQueue,   \* the slots
    LogHead,    \* the slot of the oldest entry
    LogCount,   \* the number of entries
    paused,     \* an OTA session is running
    body        \* what the last flush wrote to BodyBuf

vars == <<LogQueue, LogHead, LogCount, paused, body>>

Slot == 0 .. QueueSize - 1

TypeOK ==
    /\ LogQueue \in [Slot -> Entry \cup {Blank}]
    /\ LogHead \in Slot
    /\ LogCount \in 0 .. QueueSize
    /\ paused \in BOOLEAN
    /\ body \in Seq(Entry)

Init ==
    /\ LogQueue = [s \in Slot |-> Blank]
    /\ LogHead = 0
    /\ LogCount = 0
    /\ paused = FALSE
    /\ body = <<>>

\* Mutant: a full queue takes the entry without moving its head.
LogWithoutHead(e) ==
    /\ ~paused
    /\ LogQueue' = [LogQueue EXCEPT ![(LogHead + LogCount) % QueueSize] = e]
    /\ LogCount' = IF LogCount >= QueueSize THEN LogCount ELSE LogCount + 1
    /\ UNCHANGED <<LogHead, paused, body>>

\* Mutant: the count grows on a full queue as well.
LogUncapped(e) ==
    /\ ~paused
    /\ LogQueue' = [LogQueue EXCEPT ![(LogHead + LogCount) % QueueSize] = e]
    /\ LogCount' = LogCount + 1
    /\ UNCHANGED <<LogHead, paused, body>>

\* Log: a full queue overwrites its oldest entry.
Log(e) ==
    /\ ~paused
    /\ LogQueue' = [LogQueue EXCEPT ![(LogHead + LogCount) % QueueSize] = e]
    /\ \/ /\ LogCount >= QueueSize
          /\ LogHead' = (LogHead + 1) % QueueSize
          /\ UNCHANGED LogCount
       \/ /\ LogCount < QueueSize
          /\ LogCount' = LogCount + 1
          /\ UNCHANGED LogHead
    /\ UNCHANGED <<paused, body>>

\* The entries in the order BuildLogsJSON goes over them.
BuildLogsJSON ==
    [i \in 1 .. LogCount |-> LogQueue[(LogHead + i - 1) % QueueSize]]

\* flushLogs up to its POST: the slots keep their old entries.
flushLogs ==
    /\ LogCount # 0
    /\ ~paused
    /\ body' = BuildLogsJSON
    /\ LogHead' = 0
    /\ LogCount' = 0
    /\ UNCHANGED <<LogQueue, paused>>

Pause ==
    /\ paused' = TRUE
    /\ UNCHANGED <<LogQueue, LogHead, LogCount, body>>

Resume ==
    /\ paused' = FALSE
    /\ UNCHANGED <<LogQueue, LogHead, LogCount, body>>

Next ==
    \/ \E e \in Entry : Log(e)
    \/ flushLogs
    \/ Pause
    \/ Resume

Spec == Init /\ [][Next]_vars

-----------------------------------------------------------------------------
(* Properties.                                                              *)

\* The queue is a bounded log: whatever wrapped, overflowed or was flushed
\* before, a flush sends the last entries in order, and nothing left in a slot
\* by an earlier round (telemetry.go 153-188, 466-482; json.go 179-226).
Abstract == INSTANCE BoundedLog
              WITH log <- BuildLogsJSON, batch <- body, Capacity <- QueueSize

ImplementsBoundedLog == Abstract!Spec
=============================================================================
