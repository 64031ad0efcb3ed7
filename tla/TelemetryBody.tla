---------------------------- MODULE TelemetryBody ----------------------------
(****************************************************************************)
(* From a log record to the collector and back: src/telemetry/slog.go makes    *)
(* the entry, TelemetryQueue keeps it, the jsonWriter of src/telemetry/json.go *)
(* writes the flush into BodyBuf, and the answer to the POST is counted.       *)
(*                                                                          *)
(* JSON is a sequence of pieces, each with its width in bytes.  A fragment of  *)
(* fixed text (writeRaw) that has no room is left out whole and the writer     *)
(* goes on; a value is written byte by byte and cut off at the end.  senderLoop *)
(* is the only flusher here: TelemetrySender has the others.                  *)
(****************************************************************************)
EXTENDS TelemetryQueue, SequencesExt

CONSTANTS
    Records,      \* the slog records the program makes
    MessageLen,   \* len(LogEntry.Body), the buffer of buildTelemetryMessage too
    HeadLen,      \* bytes up to the first record: resource attributes, scope
    BodyLen,      \* len(BodyBuf)
    MaxTraffic    \* bound on the records sent and the POSTs that failed

ASSUME BodyAssumption ==
    /\ {MessageLen, HeadLen, MaxTraffic} \subseteq Nat
    /\ BodyLen \in Nat /\ HeadLen <= BodyLen
    /\ \A r \in Records : r.level \in {"debug", "info", "warn", "error"}

VARIABLES
    BodyBuf,    \* the pieces of the last body
    posting,    \* the count flushLogs holds until its POST is answered, or 0
    SentLogs,
    SendErrors,
    arrived     \* the records the collector took (the collector's own state)

bodyVars == <<vars, BodyBuf, posting, SentLogs, SendErrors, arrived>>

BodyInit ==
    /\ Init
    /\ BodyBuf = <<>>
    /\ posting = 0
    /\ SentLogs = 0 /\ SendErrors = 0 /\ arrived = 0

-----------------------------------------------------------------------------
(* From a record to an entry.                                               *)

AtMost(limit, n) == IF n > limit THEN limit ELSE n

\* buildTelemetryMessage: the message and up to four attributes, each as the bytes
\* of " key=value", as long as ten bytes are left.
buildTelemetryMessage(r) ==
    FoldLeft(LAMBDA pos, attr : IF pos >= MessageLen - 10 THEN pos
                                ELSE AtMost(MessageLen, pos + attr),
             AtMost(MessageLen, r.message),
             SubSeq(r.attrs, 1, AtMost(4, Len(r.attrs))))

\* slogLevelToOTLP for the levels that are queued.
slogLevelToOTLP(level) ==
    CASE level = "error" -> 17 [] level = "warn" -> 13 [] level = "info" -> 9

\* The entry of a record; a span may be open.
EntryOf(r, traced) ==
    [severity |-> slogLevelToOTLP(r.level), text |-> buildTelemetryMessage(r),
     traced |-> traced]

\* What is logged is what the program's records make.
ASSUME EntryAssumption ==
    /\ \A r \in Records, traced \in BOOLEAN :
          r.level # "debug" => EntryOf(r, traced) \in Entry
    /\ \A e \in Entry : e.text \in Nat

-----------------------------------------------------------------------------
(* The writer.                                                              *)

raw(kind, width) == [kind |-> kind, width |-> width, raw |-> TRUE]
value(width)     == [kind |-> "value", width |-> width, raw |-> FALSE]
shut             == [kind |-> "}", width |-> 1, raw |-> FALSE]

\* What BuildLogsJSON writes for an entry: timestamp, severity, message, trace.
Record(e) ==
    <<raw("{", 16), value(21), raw("key", 18), value(IF e.severity < 10 THEN 1 ELSE 2),
      raw("key{", 23), value(e.text + 2), shut>>
    \o (IF e.traced THEN <<raw("key", 11), value(34), raw("key", 10), value(18)>>
                    ELSE <<>>)
    \o <<shut>>

Comma == [kind |-> ",", width |-> 1, raw |-> FALSE]
Close == raw("]}]}]}", 6)

\* writeRaw, writeByte and the loops over writeByte: w is the writer, with what
\* is in BodyBuf.
Write(w, piece) ==
    LET room == BodyLen - w.pos IN
    IF piece.width <= room
    THEN [pos |-> w.pos + piece.width, out |-> Append(w.out, piece.kind)]
    ELSE IF piece.raw \/ room = 0
    THEN w
    ELSE [pos |-> BodyLen, out |-> Append(w.out, "cut")]

\* Some pieces, one after the other.
WriteAll(w, pieces) == FoldLeft(Write, w, pieces)

\* A record after the first.
WriteNext(w, e) == WriteAll(w, <<Comma>> \o Record(e))

\* The writer after the head and the first record.
WriteFirst(e) ==
    WriteAll([pos |-> 0, out |-> <<>>], <<raw("head", HeadLen)>> \o Record(e))

\* Mutant: only as many records as are sure to have room are written.
WriteRoomyRecords(entries) ==
    FoldLeft(WriteNext, WriteFirst(entries[1]),
             SubSeq(entries, 2, AtMost((BodyLen - HeadLen - 6) \div 285, Len(entries))))

\* The loop over the queue.
WriteRecords(entries) ==
    FoldLeft(WriteNext, WriteFirst(entries[1]), Tail(entries))

\* What BodyBuf holds when BuildLogsJSON returns; there is an entry at least.
Written(entries) == Write(WriteRecords(entries), Close).out

-----------------------------------------------------------------------------
(* The collector: the pieces are JSON when a key is followed by a value, a     *)
(* value by a key or a bracket, and what was opened is closed.                *)

Follows ==
    {<<"head", "{">>, <<"{", "value">>, <<"key", "value">>, <<"key{", "value">>,
     <<"value", "key">>, <<"value", "key{">>, <<"value", "}">>, <<"}", "key">>,
     <<"}", "}">>, <<"}", ",">>, <<",", "{">>, <<"}", "]}]}]}">>}

HowMany(out, kinds) == Cardinality({i \in DOMAIN out : out[i] \in kinds})

Parses(out) ==
    /\ out[1] = "head" /\ Last(out) = "]}]}]}"
    /\ \A i \in 1 .. Len(out) - 1 : <<out[i], out[i + 1]>> \in Follows
    /\ HowMany(out, {"{", "key{"}) = HowMany(out, {"}"})

-----------------------------------------------------------------------------
(* The steps.                                                               *)

\* SlogHandler.Handle: debug records stay on the console.
Handle(r, traced) ==
    /\ r.level # "debug"
    /\ Log(EntryOf(r, traced))
    /\ UNCHANGED <<BodyBuf, posting, SentLogs, SendErrors, arrived>>

\* flushLogs up to its POST: the queue is cleared before anything is sent.
Flush ==
    /\ posting = 0
    /\ SentLogs + SendErrors < MaxTraffic
    /\ flushLogs
    /\ BodyBuf' = Written(BuildLogsJSON)
    /\ posting' = LogCount
    /\ UNCHANGED <<SentLogs, SendErrors, arrived>>

\* The collector takes what parses, and its answer arrives or is lost.
Answered ==
    /\ posting # 0 /\ Parses(BodyBuf)
    /\ arrived' = arrived + HowMany(BodyBuf, {"{"})
    /\ \/ SentLogs' = SentLogs + posting /\ UNCHANGED SendErrors
       \/ SendErrors' = SendErrors + 1 /\ UNCHANGED SentLogs
    /\ posting' = 0
    /\ UNCHANGED <<vars, BodyBuf>>

\* No connection, a body refused, or a write that failed: nothing is sent again.
Failed ==
    /\ posting # 0
    /\ SendErrors' = SendErrors + 1
    /\ posting' = 0
    /\ UNCHANGED <<vars, BodyBuf, SentLogs, arrived>>

Paused ==
    /\ Pause \/ Resume
    /\ UNCHANGED <<BodyBuf, posting, SentLogs, SendErrors, arrived>>

BodyNext ==
    \/ \E r \in Records, traced \in BOOLEAN : Handle(r, traced)
    \/ Flush
    \/ Answered
    \/ Failed
    \/ Paused

BodySpec == BodyInit /\ [][BodyNext]_bodyVars

-----------------------------------------------------------------------------
(* Properties.                                                              *)

\* SentLogs never counts a record that the collector does not have: a body that was
\* too long for BodyBuf, wherever its pieces were left out or cut off, is no JSON,
\* and one that is JSON has every record whose slot the flush gave up
\* (telemetry.go 466-502, json.go 25-39 and 179-226).
CountsWhatArrived == SentLogs <= arrived
=============================================================================
