------------------------------ MODULE SpanQueue ------------------------------
(****************************************************************************)
(* The span slots of src/telemetry/telemetry.go and the only code that uses   *)
(* them: the wake cycle of src/main.go, which opens a root span and, one after *)
(* another, the spans ntp-sync, mqtt-refresh and led-update inside it, while   *)
(* senderLoop or a command flushes completed spans and an OTA session pauses   *)
(* telemetry between any two of these steps.                                 *)
(*                                                                          *)
(* Random span IDs are distinct, so an ID is the cycle and the name of its     *)
(* span.  Times matter only in that a zero EndTime marks a span that has not   *)
(* ended or has been sent.                                                   *)
(****************************************************************************)
EXTENDS Integers, FiniteSets

CONSTANTS
    QueueSize,   \* len(SpanQueue)
    MaxCycles    \* bound of the model: the wake cycles it goes through

ASSUME SpanAssumption == QueueSize \in Nat \ {0} /\ MaxCycles \in Nat

VARIABLES
    SpanQueue,      \* the slots
    SpanHead,       \* the slot to take when none is free
    SpanCount,      \* completed spans, capped
    paused,         \* an OTA session is running
    CurrentSpanID,  \* the parent of the next span
    cycle,          \* the current wake cycle
    at,             \* where main is in it
    cycleSpanIdx,   \* main's handle of the root span, -1 for none
    childIdx,       \* ntpSpanIdx, mqttSpanIdx or ledSpanIdx
    rooted,         \* history: the root span of this cycle was started
    sent,           \* history: the spans flushed so far
    resent          \* history: spans flushed more than once

telemetry == <<SpanQueue, SpanHead, SpanCount>>
history == <<rooted, sent, resent>>
vars == <<telemetry, paused, CurrentSpanID, cycle, at, cycleSpanIdx, childIdx,
          history>>

Slot == 0 .. QueueSize - 1
Names == {"wake-cycle", "ntp-sync", "mqtt-refresh", "led-update"}
Children == Names \ {"wake-cycle"}
SpanID == (0 .. MaxCycles) \X (Names \cup {"context"})

\* Where main can be: in a child span, or after what it names.
Locations ==
    {"sleep", "decide", "synced", "refreshed", "done"} \cup Children

\* A slot that has never been used.
Zero == <<0, "context">>

Span == [Active : BOOLEAN, Pending : BOOLEAN, Ended : BOOLEAN, SpanID : SpanID,
         ParentID : SpanID, PrevSpanID : SpanID]

TypeOK ==
    /\ SpanQueue \in [Slot -> Span]
    /\ SpanHead \in Slot
    /\ SpanCount \in 0 .. QueueSize
    /\ paused \in BOOLEAN
    /\ CurrentSpanID \in SpanID
    /\ cycle \in 0 .. MaxCycles
    /\ at \in Locations
    /\ cycleSpanIdx \in Slot \cup {-1}
    /\ childIdx \in Slot \cup {-1}
    /\ rooted \in BOOLEAN
    /\ sent \subseteq SpanID
    /\ resent \subseteq SpanID

Init ==
    /\ SpanQueue = [s \in Slot |->
                       [Active |-> FALSE, Pending |-> FALSE, Ended |-> FALSE,
                        SpanID |-> Zero, ParentID |-> Zero,
                        PrevSpanID |-> Zero]]
    /\ SpanHead = 0
    /\ SpanCount = 0
    /\ paused = FALSE
    /\ CurrentSpanID = Zero
    /\ cycle = 0
    /\ at = "sleep"
    /\ cycleSpanIdx = -1
    /\ childIdx = -1
    /\ rooted = FALSE
    /\ sent = {}
    /\ resent = {}

-----------------------------------------------------------------------------
(* The span operations, as relations between the slots before and after.     *)

Free == {s \in Slot : ~SpanQueue[s].Active /\ ~SpanQueue[s].Pending}

\* StartSpan's choice: the first free slot, or the one SpanHead is at, which
\* may hold a span that is active or not yet flushed.
Chosen(idx) ==
    \/ /\ idx \in Free
       /\ \A s \in Free : idx <= s
       /\ UNCHANGED SpanHead
    \/ /\ Free = {}
       /\ idx = SpanHead
       /\ SpanHead' = (SpanHead + 1) % QueueSize

\* Mutant: a takeover is taken off SpanCount, whatever span it overwrites.
StartSpanRecounted(id, parent, idx) ==
    \/ /\ paused
       /\ idx = -1
       /\ CurrentSpanID' = parent
       /\ UNCHANGED telemetry
    \/ /\ ~paused
       /\ idx \in Slot
       /\ Chosen(idx)
       /\ SpanQueue' = [SpanQueue EXCEPT ![idx] =
                           [Active |-> TRUE, Pending |-> FALSE, Ended |-> FALSE,
                            SpanID |-> id, ParentID |-> parent,
                            PrevSpanID |-> parent]]
       /\ CurrentSpanID' = id
       /\ SpanCount' = IF Free = {} THEN SpanCount - 1 ELSE SpanCount

\* StartSpan of the span id under the parent, returning idx: -1 while telemetry
\* is paused.
StartSpan(id, parent, idx) ==
    \/ /\ paused
       /\ idx = -1
       /\ CurrentSpanID' = parent
       /\ UNCHANGED telemetry
    \/ /\ ~paused
       /\ idx \in Slot
       /\ Chosen(idx)
       /\ SpanQueue' = [SpanQueue EXCEPT ![idx] =
                           [Active |-> TRUE, Pending |-> FALSE, Ended |-> FALSE,
                            SpanID |-> id, ParentID |-> parent,
                            PrevSpanID |-> parent]]
       /\ CurrentSpanID' = id
       /\ UNCHANGED SpanCount

\* A handle of an active slot.
IsActive(idx) == idx \in Slot /\ SpanQueue[idx].Active

\* Mutant: a span's end leaves it the parent of the next one.
EndSpanUnrestored(idx) ==
    \/ /\ ~IsActive(idx)
       /\ UNCHANGED <<telemetry, CurrentSpanID>>
    \/ /\ IsActive(idx)
       /\ SpanQueue' = [SpanQueue EXCEPT ![idx].Active = FALSE,
                                         ![idx].Pending = TRUE,
                                         ![idx].Ended = TRUE]
       /\ SpanCount' = IF SpanCount < QueueSize THEN SpanCount + 1
                                                ELSE SpanCount
       /\ UNCHANGED <<SpanHead, CurrentSpanID>>

\* Mutant: a span cannot end while telemetry is paused.
EndSpanUnlessPaused(idx) ==
    \/ /\ ~IsActive(idx) \/ paused
       /\ UNCHANGED <<telemetry, CurrentSpanID>>
    \/ /\ IsActive(idx) /\ ~paused
       /\ SpanQueue' = [SpanQueue EXCEPT ![idx].Active = FALSE,
                                         ![idx].Pending = TRUE,
                                         ![idx].Ended = TRUE]
       /\ CurrentSpanID' = SpanQueue[idx].PrevSpanID
       /\ SpanCount' = IF SpanCount < QueueSize THEN SpanCount + 1
                                                ELSE SpanCount
       /\ UNCHANGED SpanHead

\* Mutant: the count is not capped.
EndSpanUncapped(idx) ==
    \/ /\ ~IsActive(idx)
       /\ UNCHANGED <<telemetry, CurrentSpanID>>
    \/ /\ IsActive(idx)
       /\ SpanQueue' = [SpanQueue EXCEPT ![idx].Active = FALSE,
                                         ![idx].Pending = TRUE,
                                         ![idx].Ended = TRUE]
       /\ CurrentSpanID' = SpanQueue[idx].PrevSpanID
       /\ SpanCount' = SpanCount + 1
       /\ UNCHANGED SpanHead

\* EndSpan: nothing for a handle of no span or of a slot that is not active.
EndSpan(idx) ==
    \/ /\ ~IsActive(idx)
       /\ UNCHANGED <<telemetry, CurrentSpanID>>
    \/ /\ IsActive(idx)
       /\ SpanQueue' = [SpanQueue EXCEPT ![idx].Active = FALSE,
                                         ![idx].Pending = TRUE,
                                         ![idx].Ended = TRUE]
       /\ CurrentSpanID' = SpanQueue[idx].PrevSpanID
       /\ SpanCount' = IF SpanCount < QueueSize THEN SpanCount + 1
                                                ELSE SpanCount
       /\ UNCHANGED SpanHead

-----------------------------------------------------------------------------
(* The wake cycle's use of them.                                            *)

\* GenerateTraceID and StartServerSpan at the head of the loop.
StartCycle ==
    /\ at = "sleep"
    /\ cycle < MaxCycles
    /\ cycle' = cycle + 1
    /\ \E idx \in Slot \cup {-1} :
          /\ StartSpan(<<cycle + 1, "wake-cycle">>, <<cycle + 1, "context">>, idx)
          /\ cycleSpanIdx' = idx
    /\ rooted' = ~paused
    /\ at' = "decide"
    /\ UNCHANGED <<paused, childIdx, sent, resent>>

\* A child span starts: ntp-sync and then mqtt-refresh in a cycle that
\* refreshes the schedule, led-update in every cycle.
StartChild(name) ==
    /\ \/ at = "decide" /\ name \in {"ntp-sync", "led-update"}
       \/ at = "synced" /\ name = "mqtt-refresh"
       \/ at = "refreshed" /\ name = "led-update"
    /\ \E idx \in Slot \cup {-1} :
          /\ StartSpan(<<cycle, name>>, CurrentSpanID, idx)
          /\ childIdx' = idx
    /\ at' = name
    /\ UNCHANGED <<paused, cycle, cycleSpanIdx, history>>

After(name) ==
    CASE name = "ntp-sync" -> "synced"
      [] name = "mqtt-refresh" -> "refreshed"
      [] name = "led-update" -> "done"

EndChild ==
    /\ at \in Children
    /\ EndSpan(childIdx)
    /\ at' = After(at)
    /\ UNCHANGED <<paused, cycle, cycleSpanIdx, childIdx, history>>

EndCycle ==
    /\ at = "done"
    /\ EndSpan(cycleSpanIdx)
    /\ at' = "sleep"
    /\ UNCHANGED <<paused, cycle, cycleSpanIdx, childIdx, history>>

-----------------------------------------------------------------------------
(* The other goroutines.                                                    *)

\* BuildSpansJSON's choice.
Completed == {s \in Slot : ~SpanQueue[s].Active /\ SpanQueue[s].Ended}

\* Mutant: a span that was written out keeps its EndTime.
flushSpansUnmarked ==
    /\ SpanCount # 0
    /\ ~paused
    /\ LET batch == {SpanQueue[s].SpanID : s \in Completed}
       IN  /\ sent' = sent \cup batch
           /\ resent' = resent \cup (batch \cap sent)
    /\ SpanQueue' = [s \in Slot |-> [SpanQueue[s] EXCEPT !.Pending = FALSE]]
    /\ SpanCount' = 0
    /\ UNCHANGED <<SpanHead, paused, CurrentSpanID, cycle, at, cycleSpanIdx,
                   childIdx, rooted>>

\* flushSpans up to its POST: the completed spans go into the body, and every
\* pending slot is free again.
flushSpans ==
    /\ SpanCount # 0
    /\ ~paused
    /\ LET batch == {SpanQueue[s].SpanID : s \in Completed}
       IN  /\ sent' = sent \cup batch
           /\ resent' = resent \cup (batch \cap sent)
    /\ SpanQueue' = [s \in Slot |->
                        [SpanQueue[s] EXCEPT
                            !.Pending = FALSE,
                            !.Ended = SpanQueue[s].Ended /\ s \notin Completed]]
    /\ SpanCount' = 0
    /\ UNCHANGED <<SpanHead, paused, CurrentSpanID, cycle, at, cycleSpanIdx,
                   childIdx, rooted>>

Pause ==
    /\ ~paused
    /\ paused' = TRUE
    /\ UNCHANGED <<telemetry, CurrentSpanID, cycle, at, cycleSpanIdx, childIdx,
                   history>>

Resume ==
    /\ paused
    /\ paused' = FALSE
    /\ UNCHANGED <<telemetry, CurrentSpanID, cycle, at, cycleSpanIdx, childIdx,
                   history>>

-----------------------------------------------------------------------------

Next ==
    \/ StartCycle
    \/ \E name \in Children : StartChild(name)
    \/ EndChild
    \/ EndCycle
    \/ flushSpans
    \/ Pause
    \/ Resume

Spec == Init /\ [][Next]_vars

-----------------------------------------------------------------------------
(* Properties.                                                              *)

PendingSlots == {s \in Slot : SpanQueue[s].Pending}

\* A completed span is never stranded: flushSpans does nothing when SpanCount
\* is 0, and while a span is pending it is not, although slots are taken over
\* without the count being told (telemetry.go 304-308, 383-386, 544-559).
NoneStranded == Cardinality(PendingSlots) <= SpanCount

\* The spans a flush writes out are exactly the slots it frees: EndTime and
\* Pending, kept by different functions, never disagree (telemetry.go 311-314,
\* 373-377, 554-559; json.go 284-384).
FlushesWhatItFrees == Completed = PendingSlots

\* No span is sent twice (json.go 284-384).
SentOnce == resent = {}

\* A child span is a child of its own cycle's root whenever that root was
\* started, whichever slots were taken over and whatever was paused in between
\* (telemetry.go 317-333, 379-380).
ChildrenOfRoot ==
    rooted =>
        \A s \in Slot :
            LET span == SpanQueue[s]
            IN  span.SpanID \in {cycle} \X Children =>
                    span.ParentID = <<cycle, "wake-cycle">>

\* No slot stays active once main sleeps, so none is lost to later cycles: not
\* by a takeover, and not by a pause in mid-cycle (telemetry.go 288-387).
NoSlotLeaks == at = "sleep" => \A s \in Slot : ~SpanQueue[s].Active

\* "The Pending flag ensures completed spans aren't overwritten before being
\* flushed to the collector" (docs/telemetry.md:209): a pending span stays in
\* its slot until the queue is flushed.
PendingKept ==
    [][\A s \in PendingSlots :
          SpanCount' = 0 \/ SpanQueue'[s] = SpanQueue[s]]_vars

=============================================================================
