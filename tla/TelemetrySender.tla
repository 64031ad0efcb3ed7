--------------------------- MODULE TelemetrySender ---------------------------
(****************************************************************************)
(* How src/telemetry/telemetry.go gets its queues to the collector: the three  *)
(* flush functions and sendHTTPPost, run by senderLoop every 30 s, by the      *)
(* console's telemetry-flush and by the OTA server before a reboot.           *)
(*                                                                          *)
(* The flushers are goroutines of one cooperative scheduler.  A flush takes    *)
(* its queue, builds the body and announces the POST without blocking; the     *)
(* POST then sleeps before every part of the body it writes.  The queues are   *)
(* seen as empty or not (TelemetryQueue and SpanQueue have their contents),    *)
(* and a part of the body as the flush that put it into BodyBuf.              *)
(****************************************************************************)
EXTENDS Integers

CONSTANTS
    Flushers,    \* the goroutines that flush
    Queues,      \* the number of queues: logs, metrics, spans, in this order
    BodyParts,   \* parts of 1024 bytes that BodyBuf holds
    Nobody

ASSUME BodyAssumption ==
    /\ Queues \in Nat \ {0}
    /\ BodyParts \in Nat \ {0}
    /\ Nobody \notin Flushers

VARIABLES
    paused,      \* set by Pause, cleared by Resume
    sendingWg,   \* POSTs in progress
    queued,      \* the queues with something in them
    BodyBuf,     \* the one body buffer: whose body each part is of
    at,          \* where each flusher is
    kind,        \* the queue it is flushing
    bodyLen,     \* parts of the body of its POST
    written      \* parts it has written

telemetry == <<paused, sendingWg, queued, BodyBuf, at, kind, bodyLen, written>>

Kinds == 1 .. Queues
Spans == Queues
Parts == 1 .. BodyParts

TelemetryTypeOK ==
    /\ paused \in BOOLEAN
    /\ sendingWg \in Nat
    /\ queued \subseteq Kinds
    /\ BodyBuf \in [Parts -> Flushers \cup {Nobody}]
    /\ at \in [Flushers -> {"idle", "flush", "post"}]
    /\ kind \in [Flushers -> Kinds]
    /\ bodyLen \in [Flushers -> 0 .. BodyParts]
    /\ written \in [Flushers -> 0 .. BodyParts]

TelemetryInit ==
    /\ paused = FALSE
    /\ sendingWg = 0
    /\ queued = {}
    /\ BodyBuf = [p \in Parts |-> Nobody]
    /\ at = [f \in Flushers |-> "idle"]
    /\ kind = [f \in Flushers |-> 1]
    /\ bodyLen = [f \in Flushers |-> 0]
    /\ written = [f \in Flushers |-> 0]

\* A reset of the processor: TelemetryInit again.
TelemetryReset ==
    /\ paused' = FALSE
    /\ sendingWg' = 0
    /\ queued' = {}
    /\ BodyBuf' = [p \in Parts |-> Nobody]
    /\ at' = [f \in Flushers |-> "idle"]
    /\ kind' = [f \in Flushers |-> 1]
    /\ bodyLen' = [f \in Flushers |-> 0]
    /\ written' = [f \in Flushers |-> 0]

\* Log, recordMetric and EndSpan.  Only a span that is already open can still
\* be queued while telemetry is paused.
Enqueue(k) ==
    /\ k \notin queued
    /\ paused => k = Spans
    /\ queued' = queued \cup {k}
    /\ UNCHANGED <<paused, sendingWg, BodyBuf, at, kind, bodyLen, written>>

\* The start of a round over the queues: Flush, or senderLoop's own, which does
\* not begin while telemetry is paused.
BeginFlush(f) ==
    /\ at[f] = "idle"
    /\ f = "senderLoop" => ~paused
    /\ at' = [at EXCEPT ![f] = "flush"]
    /\ UNCHANGED <<paused, sendingWg, queued, BodyBuf, kind, bodyLen, written>>

\* On to the next queue, or to the end of the round.
NextKind(f) ==
    /\ at' = [at EXCEPT ![f] = IF kind[f] = Queues THEN "idle" ELSE "flush"]
    /\ kind' = [kind EXCEPT ![f] = IF @ = Queues THEN 1 ELSE @ + 1]

\* The early return of a flush function.
SkipQueue(f) ==
    /\ at[f] = "flush"
    /\ kind[f] \notin queued \/ paused
    /\ NextKind(f)
    /\ UNCHANGED <<paused, sendingWg, queued, BodyBuf, bodyLen, written>>

\* A queue is emptied into a body of n parts, and its POST begins.
StartPost(f, n) ==
    /\ queued' = queued \ {kind[f]}
    /\ BodyBuf' = [p \in Parts |-> IF p <= n THEN f ELSE BodyBuf[p]]
    /\ bodyLen' = [bodyLen EXCEPT ![f] = n]
    /\ sendingWg' = sendingWg + 1
    /\ at' = [at EXCEPT ![f] = "post"]
    /\ UNCHANGED <<paused, kind, written>>

\* Mutant: a flush does not look at paused.
TakeQueueAnyway(f, n) ==
    /\ at[f] = "flush"
    /\ kind[f] \in queued
    /\ StartPost(f, n)

\* A flush function with something to send.
TakeQueue(f, n) ==
    /\ at[f] = "flush"
    /\ kind[f] \in queued
    /\ ~paused
    /\ StartPost(f, n)

\* One part goes out, as it is in BodyBuf now.
WritePart(f) ==
    /\ at[f] = "post"
    /\ written[f] < bodyLen[f]
    /\ written' = [written EXCEPT ![f] = @ + 1]
    /\ UNCHANGED <<paused, sendingWg, queued, BodyBuf, at, kind, bodyLen>>

\* Mutant: an error return forgets the wait group.
PostReturnsSilently(f) ==
    /\ at[f] = "post"
    /\ sendingWg' = IF written[f] = bodyLen[f] THEN sendingWg - 1 ELSE sendingWg
    /\ BodyBuf' = [p \in Parts |-> IF BodyBuf[p] = f THEN Nobody ELSE BodyBuf[p]]
    /\ bodyLen' = [bodyLen EXCEPT ![f] = 0]
    /\ written' = [written EXCEPT ![f] = 0]
    /\ NextKind(f)
    /\ UNCHANGED <<paused, queued>>

\* sendHTTPPost returns: when the body is out, or with an error before that.
\* What was taken from the queue is gone either way, and nobody needs the body.
PostReturns(f) ==
    /\ at[f] = "post"
    /\ sendingWg' = sendingWg - 1
    /\ BodyBuf' = [p \in Parts |-> IF BodyBuf[p] = f THEN Nobody ELSE BodyBuf[p]]
    /\ bodyLen' = [bodyLen EXCEPT ![f] = 0]
    /\ written' = [written EXCEPT ![f] = 0]
    /\ NextKind(f)
    /\ UNCHANGED <<paused, queued>>

\* What a flusher does on its own account once its round has begun.
FlushStep(f) ==
    \/ SkipQueue(f)
    \/ \E n \in Parts : TakeQueue(f, n)
    \/ WritePart(f)
    \/ PostReturns(f)

InPost == {f \in Flushers : at[f] = "post"}

\* A POST sends the body that its own flush built: "flushLogs sends queued log
\* entries to the collector" (telemetry.go:465).
SentIntact ==
    [][\A f \in Flushers : WritePart(f) => BodyBuf[written[f] + 1] = f]_telemetry

=============================================================================
