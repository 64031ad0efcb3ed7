---------------------------- MODULE SpanQueueProofs ---------------------------
(****************************************************************************)
(* The span slots under the wake cycle that uses them, for every number of     *)
(* slots and of cycles.  An operation is first said slot by slot (StartFact,   *)
(* EndFact, FlushFact); each part of the invariant then has a lemma of its own. *)
(****************************************************************************)
EXTENDS SpanQueue, FiniteSetTheorems, TLAPS

-----------------------------------------------------------------------------
(* The operations, slot by slot.                                            *)

NewSpan(id, parent) ==
    [Active |-> TRUE, Pending |-> FALSE, Ended |-> FALSE,
     SpanID |-> id, ParentID |-> parent, PrevSpanID |-> parent]

\* Nothing is started, or the span takes a slot and the others stay.
Started(id, parent, idx) ==
    \/ /\ paused /\ idx = -1
       /\ CurrentSpanID' = parent
       /\ UNCHANGED telemetry
    \/ /\ ~paused /\ idx \in Slot
       /\ SpanQueue' \in [Slot -> Span] /\ SpanHead' \in Slot
       /\ SpanQueue'[idx] = NewSpan(id, parent)
       /\ \A s \in Slot \ {idx} : SpanQueue'[s] = SpanQueue[s]
       /\ CurrentSpanID' = id
       /\ UNCHANGED SpanCount

LEMMA NextHead == ASSUME SpanHead \in Slot PROVE (SpanHead + 1) % QueueSize \in Slot
BY SpanAssumption DEF Slot

LEMMA StartFact ==
    ASSUME TypeOK, NEW id \in SpanID, NEW parent \in SpanID, NEW idx,
           StartSpan(id, parent, idx)
    PROVE  Started(id, parent, idx)
<1>1. CASE paused
  BY <1>1 DEF StartSpan, Started
<1>2. CASE ~paused
  <2>1. idx \in Slot /\ Chosen(idx)
    BY <1>2 DEF StartSpan
  <2>2. SpanQueue' = [SpanQueue EXCEPT ![idx] = NewSpan(id, parent)]
    BY <1>2 DEF StartSpan, NewSpan
  <2>3. NewSpan(id, parent) \in Span
    BY DEF NewSpan, Span
  <2>4. SpanQueue' \in [Slot -> Span]
    BY <2>1, <2>2, <2>3 DEF TypeOK
  <2>5. SpanHead' \in Slot
    BY <2>1, NextHead DEF Chosen, TypeOK
  <2>6. QED
    BY <1>2, <2>1, <2>2, <2>4, <2>5 DEF StartSpan, Started, TypeOK
<1>3. QED
  BY <1>1, <1>2

\* Nothing is ended, or the slot becomes pending and the others stay.
EndedIn(idx) ==
    \/ /\ ~IsActive(idx)
       /\ UNCHANGED <<telemetry, CurrentSpanID>>
    \/ /\ IsActive(idx)
       /\ SpanQueue' \in [Slot -> Span]
       /\ SpanQueue'[idx] = [SpanQueue[idx] EXCEPT !.Active = FALSE, !.Pending = TRUE,
                                                   !.Ended = TRUE]
       /\ \A s \in Slot \ {idx} : SpanQueue'[s] = SpanQueue[s]
       /\ CurrentSpanID' = SpanQueue[idx].PrevSpanID
       /\ SpanCount' = IF SpanCount < QueueSize THEN SpanCount + 1 ELSE SpanCount
       /\ UNCHANGED SpanHead

LEMMA EndFact ==
    ASSUME TypeOK, NEW idx, EndSpan(idx)
    PROVE  EndedIn(idx)
<1>1. CASE ~IsActive(idx)
  BY <1>1 DEF EndSpan, EndedIn
<1>2. CASE IsActive(idx)
  <2> DEFINE span == [SpanQueue[idx] EXCEPT !.Active = FALSE, !.Pending = TRUE,
                                            !.Ended = TRUE]
  <2>1. idx \in Slot /\ SpanQueue[idx] \in Span
    BY <1>2 DEF IsActive, TypeOK
  <2>2. span \in Span
    BY <2>1 DEF Span
  <2>3. SpanQueue' = [SpanQueue EXCEPT ![idx] = span]
    BY <1>2, <2>1 DEF EndSpan, TypeOK, Span
  <2>4. SpanQueue' \in [Slot -> Span]
    BY <2>1, <2>2, <2>3 DEF TypeOK
  <2>5. SpanQueue'[idx] = span /\ \A s \in Slot \ {idx} : SpanQueue'[s] = SpanQueue[s]
    BY <2>1, <2>3 DEF TypeOK
  <2>6. QED
    BY <1>2, <2>4, <2>5 DEF EndSpan, EndedIn
<1>3. QED
  BY <1>1, <1>2

\* Every slot is free of what is pending, and of an end that was written out.
LEMMA FlushFact ==
    ASSUME TypeOK, flushSpans
    PROVE  /\ SpanQueue' \in [Slot -> Span]
           /\ \A s \in Slot :
                 /\ SpanQueue'[s].Active = SpanQueue[s].Active
                 /\ SpanQueue'[s].Pending = FALSE
                 /\ SpanQueue'[s].Ended <=> SpanQueue[s].Ended /\ SpanQueue[s].Active
                 /\ SpanQueue'[s].SpanID = SpanQueue[s].SpanID
                 /\ SpanQueue'[s].ParentID = SpanQueue[s].ParentID
                 /\ SpanQueue'[s].PrevSpanID = SpanQueue[s].PrevSpanID
<1> DEFINE span(s) == [SpanQueue[s] EXCEPT !.Pending = FALSE,
                          !.Ended = SpanQueue[s].Ended /\ s \notin Completed]
<1>1. SpanQueue' = [s \in Slot |-> span(s)]
  BY DEF flushSpans
<1>2. ASSUME NEW s \in Slot
      PROVE  /\ span(s) \in Span
             /\ span(s).Active = SpanQueue[s].Active
             /\ span(s).Pending = FALSE
             /\ span(s).Ended = (SpanQueue[s].Ended /\ s \notin Completed)
             /\ span(s).SpanID = SpanQueue[s].SpanID
             /\ span(s).ParentID = SpanQueue[s].ParentID
             /\ span(s).PrevSpanID = SpanQueue[s].PrevSpanID
  BY DEF TypeOK, Span
<1>3. ASSUME NEW s \in Slot
      PROVE  (SpanQueue[s].Ended /\ s \notin Completed)
                <=> SpanQueue[s].Ended /\ SpanQueue[s].Active
  BY DEF Completed
<1>4. SpanQueue' \in [Slot -> Span]
  BY <1>1, <1>2
<1> HIDE DEF span
<1>5. QED
  BY <1>1, <1>2, <1>3, <1>4

-----------------------------------------------------------------------------
(* Flags and count: these depend on the slots alone.                          *)

\* A span has ended and is pending, both or neither, and not while it is active.
Flags ==
    \A s \in Slot : /\ SpanQueue[s].Pending <=> SpanQueue[s].Ended
                    /\ SpanQueue[s].Active => ~SpanQueue[s].Ended

Counted == Flags /\ NoneStranded

LEMMA SlotsFew ==
    ASSUME NEW T \in SUBSET Slot
    PROVE  IsFiniteSet(T) /\ Cardinality(T) \in Nat /\ Cardinality(T) <= QueueSize
<1>1. IsFiniteSet(Slot) /\ Cardinality(Slot) = QueueSize
  BY FS_Interval, SpanAssumption DEF Slot
<1>2. QED
  BY <1>1, FS_Subset, FS_CardinalityType

LEMMA StartCounted ==
    ASSUME TypeOK, Counted, NEW id \in SpanID, NEW parent \in SpanID, NEW idx,
           Started(id, parent, idx)
    PROVE  Counted'
<1>1. CASE paused
  BY <1>1 DEF Started, telemetry, Counted, Flags, NoneStranded, PendingSlots
<1>2. CASE ~paused
  <2>1. /\ idx \in Slot /\ SpanQueue'[idx] = NewSpan(id, parent)
        /\ \A s \in Slot \ {idx} : SpanQueue'[s] = SpanQueue[s]
        /\ SpanCount' = SpanCount
    BY <1>2 DEF Started
  <2>2. Flags'
    BY <2>1 DEF Counted, Flags, NewSpan
  <2>3. PendingSlots' \subseteq PendingSlots
    BY <2>1 DEF PendingSlots, NewSpan
  <2>4. PendingSlots \in SUBSET Slot
    BY DEF PendingSlots
  <2>5. IsFiniteSet(PendingSlots) /\ PendingSlots' \in SUBSET Slot
    BY <2>3, <2>4, SlotsFew
  <2>6. Cardinality(PendingSlots') <= Cardinality(PendingSlots)
    BY <2>3, <2>5, FS_Subset
  <2>7. Cardinality(PendingSlots') \in Nat /\ Cardinality(PendingSlots) \in Nat
    BY <2>4, <2>5, SlotsFew
  <2>8. NoneStranded'
    BY <2>1, <2>6, <2>7 DEF Counted, NoneStranded, TypeOK
  <2>9. QED
    BY <2>2, <2>8 DEF Counted
<1>3. QED
  BY <1>1, <1>2

LEMMA EndCounted ==
    ASSUME TypeOK, Counted, NEW idx, EndedIn(idx)
    PROVE  Counted' /\ SpanCount' \in 0 .. QueueSize
<1>1. CASE ~IsActive(idx)
  BY <1>1 DEF EndedIn, telemetry, TypeOK, Counted, Flags, NoneStranded, PendingSlots
<1>2. CASE IsActive(idx)
  <2>1. /\ idx \in Slot /\ SpanQueue[idx] \in Span
        /\ SpanQueue'[idx] = [SpanQueue[idx] EXCEPT !.Active = FALSE, !.Pending = TRUE,
                                                    !.Ended = TRUE]
        /\ \A s \in Slot \ {idx} : SpanQueue'[s] = SpanQueue[s]
        /\ SpanCount' = IF SpanCount < QueueSize THEN SpanCount + 1 ELSE SpanCount
    BY <1>2 DEF EndedIn, IsActive, TypeOK
  <2>2. ~SpanQueue'[idx].Active /\ SpanQueue'[idx].Pending /\ SpanQueue'[idx].Ended
    BY <2>1 DEF Span
  <2>3. Flags'
    BY <2>1, <2>2 DEF Counted, Flags
  <2>4. PendingSlots' = PendingSlots \cup {idx}
    BY <2>1, <2>2 DEF PendingSlots
  <2>5. PendingSlots \in SUBSET Slot /\ PendingSlots' \in SUBSET Slot
    BY DEF PendingSlots
  <2>6. Cardinality(PendingSlots') <= Cardinality(PendingSlots) + 1
    BY <2>4, <2>5, SlotsFew, FS_AddElement
  <2>7. Cardinality(PendingSlots') \in Nat /\ Cardinality(PendingSlots) \in Nat
        /\ Cardinality(PendingSlots') <= QueueSize
    BY <2>5, SlotsFew
  <2>8. NoneStranded' /\ SpanCount' \in 0 .. QueueSize
    BY <2>1, <2>6, <2>7, SpanAssumption DEF Counted, NoneStranded, TypeOK
  <2>9. QED
    BY <2>3, <2>8 DEF Counted
<1>3. QED
  BY <1>1, <1>2

LEMMA FlushCounted ==
    ASSUME TypeOK, Counted, flushSpans
    PROVE  Counted'
<1>1. Flags'
  BY FlushFact DEF Counted, Flags
<1>2. PendingSlots' = {}
  BY FlushFact DEF PendingSlots
<1>3. NoneStranded'
  <2>1. Cardinality(PendingSlots') = 0
    BY <1>2, FS_EmptySet
  <2>2. SpanCount' = 0
    BY DEF flushSpans
  <2>3. QED
    BY <2>1, <2>2 DEF NoneStranded
<1>4. QED
  BY <1>1, <1>3 DEF Counted

-----------------------------------------------------------------------------
(* Where main is: which slots are active, which spans it has begun.           *)

\* Only the spans main has a handle of are active, and only while it is in them.
LiveOnly ==
    \A s \in Slot : SpanQueue[s].Active =>
        \/ at # "sleep" /\ s = cycleSpanIdx
        \/ at \in Children /\ s = childIdx

\* The spans that may have begun in this cycle; "context" is for unused slots.
Begun(where) ==
    CASE where = "decide" -> {"context", "wake-cycle"}
      [] where \in {"ntp-sync", "synced"} -> {"context", "wake-cycle", "ntp-sync"}
      [] where \in {"mqtt-refresh", "refreshed"} ->
            {"context", "wake-cycle", "ntp-sync", "mqtt-refresh"}
      [] OTHER -> Names \cup {"context"}

Known(id, where, c) == id[1] < c \/ (id[1] = c /\ id[2] \in Begun(where))

\* No span is known before it begins.
OnlyBegun ==
    /\ \A s \in Slot : Known(SpanQueue[s].SpanID, at, cycle)
    /\ \A id \in sent : Known(id, at, cycle)

InUse(s) == SpanQueue[s].Active \/ SpanQueue[s].Ended

\* What is in a slot has not been sent, and is in no other.
Unsent ==
    /\ \A s \in Slot : InUse(s) => SpanQueue[s].SpanID \notin sent
    /\ \A s, t \in Slot : InUse(s) /\ InUse(t) /\ s # t
                            => SpanQueue[s].SpanID # SpanQueue[t].SpanID

Root == <<cycle, "wake-cycle">>

\* Inside a cycle that has a root, what comes next is the root's child: now, or once
\* the child that is open has ended.
NextIsChild ==
    rooted /\ at # "sleep" =>
        \/ CurrentSpanID = Root /\ (at \in Children => childIdx = -1)
        \/ /\ at \in Children /\ IsActive(childIdx)
           /\ SpanQueue[childIdx].PrevSpanID = Root

SInv ==
    /\ TypeOK /\ Counted /\ LiveOnly /\ OnlyBegun /\ Unsent /\ resent = {}
    /\ NextIsChild /\ ChildrenOfRoot

LEMMA InitSInv == Init => SInv
<1> SUFFICES ASSUME Init PROVE SInv
  OBVIOUS
<1>1. TypeOK
  <2>1. 0 \in Slot /\ 0 \in 0 .. QueueSize /\ 0 \in 0 .. MaxCycles
    BY SpanAssumption DEF Slot
  <2>2. Zero \in SpanID
    BY <2>1 DEF Zero, SpanID
  <2>3. QED
    BY <2>1, <2>2 DEF Init, TypeOK, Span, Locations
<1>2. PendingSlots = {}
  BY DEF Init, PendingSlots
<1>3. NoneStranded
  <2>1. Cardinality(PendingSlots) = 0
    BY <1>2, FS_EmptySet
  <2>2. QED
    BY <2>1 DEF Init, NoneStranded
<1>4. Flags
  BY DEF Init, Flags
<1>5. LiveOnly /\ Unsent /\ resent = {} /\ NextIsChild /\ ChildrenOfRoot
  BY DEF Init, LiveOnly, Unsent, InUse, NextIsChild, ChildrenOfRoot
<1>6. OnlyBegun
  BY DEF Init, OnlyBegun, Known, Begun, Zero
<1>7. QED
  BY <1>1, <1>3, <1>4, <1>5, <1>6 DEF SInv, Counted

\* What is known stays known when main goes on.
LEMMA KnownGrows ==
    ASSUME NEW id \in SpanID, Known(id, at, cycle), cycle \in 0 .. MaxCycles,
           \/ at' = at /\ cycle' = cycle
           \/ at = "sleep" /\ cycle' = cycle + 1
           \/ cycle' = cycle /\ Begun(at) \subseteq Begun(at')
    PROVE  Known(id, at', cycle')
BY DEF Known, SpanID

\* A span starts that is not known yet.
LEMMA StartInv ==
    ASSUME SInv, NEW id \in SpanID, NEW parent \in SpanID, NEW idx \in Slot \cup {-1},
           Started(id, parent, idx), UNCHANGED <<sent, resent>>,
           ~Known(id, at, cycle), Known(id, at', cycle'),
           \A k \in SpanID : Known(k, at, cycle) => Known(k, at', cycle')
    PROVE  OnlyBegun' /\ Unsent' /\ resent' = {}
<1>1. \A s \in Slot : SpanQueue[s].SpanID \in SpanID
  BY DEF SInv, TypeOK, Span
<1>2. CASE paused
  <2>1. SpanQueue' = SpanQueue
    BY <1>2 DEF Started, telemetry
  <2>2. QED
    BY <1>1, <2>1 DEF SInv, TypeOK, OnlyBegun, Unsent, InUse
<1>3. CASE ~paused
  <2>1. /\ idx \in Slot /\ SpanQueue'[idx] = NewSpan(id, parent)
        /\ \A s \in Slot \ {idx} : SpanQueue'[s] = SpanQueue[s]
    BY <1>3 DEF Started
  <2>2. SpanQueue'[idx].SpanID = id
    BY <2>1 DEF NewSpan
  <2>3. id \notin sent /\ \A s \in Slot : SpanQueue[s].SpanID # id
    BY DEF SInv, OnlyBegun
  <2>4. OnlyBegun'
    BY <1>1, <2>1, <2>2 DEF SInv, TypeOK, OnlyBegun
  <2>5. Unsent'
    BY <2>1, <2>2, <2>3 DEF SInv, Unsent, InUse
  <2>6. QED
    BY <2>4, <2>5 DEF SInv
<1>4. QED
  BY <1>2, <1>3

\* A span ends.
LEMMA EndInv ==
    ASSUME SInv, NEW idx \in Slot \cup {-1}, EndedIn(idx), UNCHANGED <<sent, resent>>,
           \A k \in SpanID : Known(k, at, cycle) => Known(k, at', cycle')
    PROVE  /\ OnlyBegun' /\ Unsent' /\ resent' = {}
           /\ \A s \in Slot : /\ SpanQueue'[s].SpanID = SpanQueue[s].SpanID
                              /\ SpanQueue'[s].ParentID = SpanQueue[s].ParentID
                              /\ SpanQueue'[s].Active => SpanQueue[s].Active /\ s # idx
<1>1. \A s \in Slot : SpanQueue[s] \in Span /\ SpanQueue[s].SpanID \in SpanID
  BY DEF SInv, TypeOK, Span
<1>2. \A s \in Slot : /\ SpanQueue'[s].SpanID = SpanQueue[s].SpanID
                      /\ SpanQueue'[s].ParentID = SpanQueue[s].ParentID
                      /\ SpanQueue'[s].Active => SpanQueue[s].Active /\ s # idx
                      /\ InUse(s)' => InUse(s)
  <2>1. CASE ~IsActive(idx)
    BY <2>1 DEF EndedIn, telemetry, IsActive, InUse
  <2>2. CASE IsActive(idx)
    <3>1. /\ idx \in Slot
          /\ SpanQueue'[idx] = [SpanQueue[idx] EXCEPT !.Active = FALSE, !.Pending = TRUE,
                                                      !.Ended = TRUE]
          /\ \A s \in Slot \ {idx} : SpanQueue'[s] = SpanQueue[s]
      BY <2>2 DEF EndedIn, IsActive
    <3>2. /\ ~SpanQueue'[idx].Active
          /\ SpanQueue'[idx].SpanID = SpanQueue[idx].SpanID
          /\ SpanQueue'[idx].ParentID = SpanQueue[idx].ParentID
      BY <1>1, <3>1 DEF Span
    <3>3. QED
      BY <2>2, <3>1, <3>2 DEF IsActive, InUse
  <2>3. QED
    BY <2>1, <2>2
<1>3. OnlyBegun'
  BY <1>1, <1>2 DEF SInv, TypeOK, OnlyBegun
<1>4. Unsent'
  BY <1>2 DEF SInv, Unsent
<1>5. QED
  BY <1>2, <1>3, <1>4 DEF SInv

-----------------------------------------------------------------------------
(* The steps of main.                                                       *)

LEMMA StartTypes ==
    ASSUME SInv, NEW id \in SpanID, NEW parent \in SpanID, NEW idx \in Slot \cup {-1},
           Started(id, parent, idx)
    PROVE  /\ SpanQueue' \in [Slot -> Span] /\ SpanHead' \in Slot
           /\ SpanCount' \in 0 .. QueueSize /\ CurrentSpanID' \in SpanID
           /\ Counted'
BY StartCounted DEF SInv, TypeOK, Started, telemetry

LEMMA EndTypes ==
    ASSUME SInv, NEW idx \in Slot \cup {-1}, EndedIn(idx)
    PROVE  /\ SpanQueue' \in [Slot -> Span] /\ SpanHead' \in Slot
           /\ SpanCount' \in 0 .. QueueSize /\ CurrentSpanID' \in SpanID
           /\ Counted'
<1>1. Counted' /\ SpanCount' \in 0 .. QueueSize
  BY EndCounted DEF SInv
<1>2. CASE ~IsActive(idx)
  BY <1>1, <1>2 DEF SInv, TypeOK, EndedIn, telemetry
<1>3. CASE IsActive(idx)
  <2>1. idx \in Slot /\ SpanQueue[idx].PrevSpanID \in SpanID
    BY <1>3 DEF IsActive, SInv, TypeOK, Span
  <2>2. QED
    BY <1>1, <1>3, <2>1 DEF SInv, TypeOK, EndedIn
<1>4. QED
  BY <1>2, <1>3

LEMMA StartCycleInv == ASSUME SInv, StartCycle PROVE SInv'
<1> DEFINE id == <<cycle + 1, "wake-cycle">>
           parent == <<cycle + 1, "context">>
<1>1. PICK idx \in Slot \cup {-1} : StartSpan(id, parent, idx) /\ cycleSpanIdx' = idx
  BY DEF StartCycle
<1>2. cycle + 1 \in 0 .. MaxCycles /\ cycle \in 0 .. MaxCycles
  BY SpanAssumption DEF StartCycle, SInv, TypeOK
<1>3. id \in SpanID /\ parent \in SpanID
  BY <1>2 DEF SpanID, Names
<1>4. Started(id, parent, idx)
  BY <1>1, <1>3, StartFact DEF SInv
<1>5. cycle' = cycle + 1 /\ at = "sleep" /\ at' = "decide" /\ UNCHANGED <<sent, resent>>
  BY DEF StartCycle
<1>6. ~Known(id, at, cycle) /\ Known(id, at', cycle')
  BY <1>2, <1>5 DEF Known, Begun
<1>7. \A k \in SpanID : Known(k, at, cycle) => Known(k, at', cycle')
  BY <1>2, <1>5, KnownGrows
<1> HIDE DEF id, parent
<1>8. OnlyBegun' /\ Unsent' /\ resent' = {}
  BY <1>3, <1>4, <1>5, <1>6, <1>7, StartInv
<1>9. TypeOK' /\ Counted'
  <2>1. /\ SpanQueue' \in [Slot -> Span] /\ SpanHead' \in Slot
        /\ SpanCount' \in 0 .. QueueSize /\ CurrentSpanID' \in SpanID /\ Counted'
    BY <1>3, <1>4, StartTypes
  <2>2. QED
    BY <1>1, <1>2, <1>5, <2>1 DEF StartCycle, SInv, TypeOK, Locations
<1>10. LiveOnly'
  <2>1. \A s \in Slot : ~SpanQueue[s].Active
    BY <1>5 DEF SInv, LiveOnly, Children, Names
  <2>2. \A s \in Slot : SpanQueue'[s].Active => s = idx
    BY <1>4, <2>1 DEF Started, telemetry
  <2>3. QED
    BY <1>1, <1>5, <2>2 DEF LiveOnly
<1>11. NextIsChild'
  <2>1. rooted' => CurrentSpanID' = id
    BY <1>4 DEF StartCycle, Started
  <2>2. id = Root'
    BY <1>5 DEF id, Root
  <2>3. QED
    BY <1>5, <2>1, <2>2 DEF NextIsChild, Children, Names
<1>12. ChildrenOfRoot'
  <2>1. \A s \in Slot : SpanQueue'[s].SpanID \notin {cycle'} \X Children
    <3>1. SUFFICES ASSUME NEW s \in Slot, SpanQueue'[s].SpanID \in {cycle'} \X Children
                   PROVE  FALSE
      OBVIOUS
    <3>2. Known(SpanQueue'[s].SpanID, "decide", cycle')
      BY <1>5, <1>8 DEF OnlyBegun
    <3>3. QED
      BY <1>2, <1>5, <3>1, <3>2 DEF Known, Begun, Children, Names
  <2>2. QED
    BY <2>1 DEF ChildrenOfRoot
<1>13. QED
  BY <1>8, <1>9, <1>10, <1>11, <1>12 DEF SInv

LEMMA StartChildInv == ASSUME SInv, NEW name \in Children, StartChild(name) PROVE SInv'
<1> DEFINE id == <<cycle, name>>
<1>1. PICK idx \in Slot \cup {-1} : StartSpan(id, CurrentSpanID, idx) /\ childIdx' = idx
  BY DEF StartChild
<1>2. id \in SpanID /\ CurrentSpanID \in SpanID /\ cycle \in 0 .. MaxCycles
  BY DEF SInv, TypeOK, SpanID, Children
<1>3. Started(id, CurrentSpanID, idx)
  BY <1>1, <1>2, StartFact DEF SInv
<1>4. /\ at \in {"decide", "synced", "refreshed"} /\ at' = name /\ cycle' = cycle
      /\ UNCHANGED <<sent, resent, rooted, cycleSpanIdx>>
  BY DEF StartChild, history
<1>5. name \notin Begun(at) /\ name \in Begun(name) /\ Begun(at) \subseteq Begun(name)
  BY DEF StartChild, Begun, Children, Names
<1>6. ~Known(id, at, cycle) /\ Known(id, at', cycle')
  BY <1>2, <1>4, <1>5 DEF Known
<1>7. \A k \in SpanID : Known(k, at, cycle) => Known(k, at', cycle')
  BY <1>2, <1>4, <1>5, KnownGrows
<1>8. OnlyBegun' /\ Unsent' /\ resent' = {}
  <2> HIDE DEF id
  <2>1. QED
    BY <1>2, <1>3, <1>4, <1>6, <1>7, StartInv
<1>9. TypeOK' /\ Counted'
  <2>1. /\ SpanQueue' \in [Slot -> Span] /\ SpanHead' \in Slot
        /\ SpanCount' \in 0 .. QueueSize /\ CurrentSpanID' \in SpanID /\ Counted'
    BY <1>2, <1>3, StartTypes
  <2>2. at' \in Locations
    BY <1>4 DEF Locations
  <2>3. QED
    BY <1>1, <2>1, <2>2 DEF StartChild, history, SInv, TypeOK
<1>10. LiveOnly'
  <2>1. at \notin Children /\ at' # "sleep" /\ at' \in Children
    BY <1>4 DEF Children, Names
  <2>2. \A s \in Slot : SpanQueue[s].Active => s = cycleSpanIdx
    BY <2>1 DEF SInv, LiveOnly
  <2>3. \A s \in Slot : SpanQueue'[s].Active => s = cycleSpanIdx \/ s = idx
    BY <1>3, <2>2 DEF Started, telemetry
  <2>4. QED
    BY <1>1, <1>4, <2>1, <2>3 DEF LiveOnly
<1>11. rooted => CurrentSpanID = Root
  BY <1>4 DEF SInv, NextIsChild, Children, Names
<1>12. NextIsChild'
  <2>1. CASE paused
    BY <1>1, <1>3, <1>4, <1>11, <2>1 DEF Started, NextIsChild, Root
  <2>2. CASE ~paused
    <3>1. idx \in Slot /\ SpanQueue'[idx] = NewSpan(id, CurrentSpanID)
      BY <1>3, <2>2 DEF Started
    <3>2. SpanQueue'[idx].Active /\ SpanQueue'[idx].PrevSpanID = CurrentSpanID
      BY <3>1 DEF NewSpan
    <3>3. QED
      BY <1>1, <1>4, <1>11, <3>1, <3>2 DEF NextIsChild, Root, IsActive
  <2>3. QED
    BY <2>1, <2>2
<1>13. ChildrenOfRoot'
  <2>1. CASE paused
    BY <1>3, <1>4, <2>1 DEF Started, telemetry, SInv, ChildrenOfRoot
  <2>2. CASE ~paused
    <3>1. /\ SpanQueue'[idx] = NewSpan(id, CurrentSpanID)
          /\ \A s \in Slot \ {idx} : SpanQueue'[s] = SpanQueue[s]
      BY <1>3, <2>2 DEF Started
    <3>2. SpanQueue'[idx].ParentID = CurrentSpanID
      BY <3>1 DEF NewSpan
    <3>3. QED
      BY <1>4, <1>11, <3>1, <3>2 DEF SInv, ChildrenOfRoot, Root
  <2>3. QED
    BY <2>1, <2>2
<1>14. QED
  BY <1>8, <1>9, <1>10, <1>12, <1>13 DEF SInv

LEMMA EndChildInv == ASSUME SInv, EndChild PROVE SInv'
<1>1. EndedIn(childIdx) /\ childIdx \in Slot \cup {-1}
  BY EndFact DEF EndChild, SInv, TypeOK
<1>2. /\ at \in Children /\ at' \in {"synced", "refreshed", "done"} /\ cycle' = cycle
      /\ UNCHANGED <<sent, resent, rooted, cycleSpanIdx, childIdx>>
  BY DEF EndChild, After, Children, Names, history
<1>3. Begun(at') = Begun(at)
  BY DEF EndChild, After, Begun, Children, Names
<1>4. \A k \in SpanID : Known(k, at, cycle) => Known(k, at', cycle')
  BY <1>2, <1>3 DEF Known
<1>5. /\ OnlyBegun' /\ Unsent' /\ resent' = {}
      /\ \A s \in Slot : /\ SpanQueue'[s].SpanID = SpanQueue[s].SpanID
                         /\ SpanQueue'[s].ParentID = SpanQueue[s].ParentID
                         /\ SpanQueue'[s].Active => SpanQueue[s].Active /\ s # childIdx
  BY <1>1, <1>2, <1>4, EndInv
<1>6. TypeOK' /\ Counted'
  <2>1. /\ SpanQueue' \in [Slot -> Span] /\ SpanHead' \in Slot
        /\ SpanCount' \in 0 .. QueueSize /\ CurrentSpanID' \in SpanID /\ Counted'
    BY <1>1, EndTypes
  <2>2. at' \in Locations
    BY <1>2 DEF Locations
  <2>3. QED
    BY <2>1, <2>2 DEF EndChild, history, SInv, TypeOK
<1>7. LiveOnly'
  BY <1>2, <1>5 DEF SInv, LiveOnly
<1>8. NextIsChild'
  <2>1. ASSUME rooted PROVE CurrentSpanID' = Root
    <3>1. CASE CurrentSpanID = Root /\ childIdx = -1
      <4>1. ~IsActive(childIdx)
        BY <3>1 DEF IsActive, Slot
      <4>2. QED
        BY <1>1, <3>1, <4>1 DEF EndedIn
    <3>2. CASE IsActive(childIdx) /\ SpanQueue[childIdx].PrevSpanID = Root
      BY <1>1, <3>2 DEF EndedIn
    <3>3. QED
      BY <1>2, <2>1, <3>1, <3>2 DEF SInv, NextIsChild, Children, Names
  <2>2. QED
    BY <1>2, <2>1 DEF NextIsChild, Root, Children, Names
<1>9. ChildrenOfRoot'
  BY <1>2, <1>5 DEF SInv, ChildrenOfRoot
<1>10. QED
  BY <1>5, <1>6, <1>7, <1>8, <1>9 DEF SInv

LEMMA EndCycleInv == ASSUME SInv, EndCycle PROVE SInv'
<1>1. EndedIn(cycleSpanIdx) /\ cycleSpanIdx \in Slot \cup {-1}
  BY EndFact DEF EndCycle, SInv, TypeOK
<1>2. /\ at = "done" /\ at' = "sleep" /\ cycle' = cycle
      /\ UNCHANGED <<sent, resent, rooted, cycleSpanIdx, childIdx>>
  BY DEF EndCycle, history
<1>3. \A k \in SpanID : Known(k, at, cycle) => Known(k, at', cycle')
  BY <1>2 DEF Known, Begun
<1>4. /\ OnlyBegun' /\ Unsent' /\ resent' = {}
      /\ \A s \in Slot : /\ SpanQueue'[s].SpanID = SpanQueue[s].SpanID
                         /\ SpanQueue'[s].ParentID = SpanQueue[s].ParentID
                         /\ SpanQueue'[s].Active => SpanQueue[s].Active /\ s # cycleSpanIdx
  BY <1>1, <1>2, <1>3, EndInv
<1>5. TypeOK' /\ Counted'
  <2>1. /\ SpanQueue' \in [Slot -> Span] /\ SpanHead' \in Slot
        /\ SpanCount' \in 0 .. QueueSize /\ CurrentSpanID' \in SpanID /\ Counted'
    BY <1>1, EndTypes
  <2>2. QED
    BY <1>2, <2>1 DEF EndCycle, history, SInv, TypeOK, Locations
<1>6. LiveOnly'
  BY <1>2, <1>4 DEF SInv, LiveOnly, Children, Names
<1>7. NextIsChild' /\ ChildrenOfRoot'
  BY <1>2, <1>4 DEF SInv, NextIsChild, ChildrenOfRoot
<1>8. QED
  BY <1>4, <1>5, <1>6, <1>7 DEF SInv

-----------------------------------------------------------------------------
(* A flush, and the theorems.                                               *)

LEMMA FlushInv == ASSUME SInv, flushSpans PROVE SInv'
<1> DEFINE batch == {SpanQueue[s].SpanID : s \in Completed}
<1>1. /\ sent' = sent \cup batch /\ resent' = resent \cup (batch \cap sent)
      /\ SpanCount' = 0
      /\ UNCHANGED <<SpanHead, paused, CurrentSpanID, cycle, at, cycleSpanIdx, childIdx,
                     rooted>>
  BY DEF flushSpans
<1>2. TypeOK /\ \A s \in Slot : SpanQueue[s] \in Span /\ SpanQueue[s].SpanID \in SpanID
  BY DEF SInv, TypeOK, Span
<1>3. \A s \in Completed : s \in Slot /\ InUse(s) /\ ~SpanQueue[s].Active
  BY DEF Completed, InUse
<1>4. batch \cap sent = {}
  BY <1>3 DEF SInv, Unsent
<1>5. resent' = {}
  BY <1>1, <1>4 DEF SInv
<1>6. TypeOK'
  <2>1. batch \subseteq SpanID
    BY <1>2, <1>3
  <2>2. 0 \in 0 .. QueueSize
    BY SpanAssumption
  <2> HIDE DEF batch
  <2>3. QED
    BY <1>1, <1>2, <1>5, <2>1, <2>2, FlushFact DEF TypeOK
<1>7. Counted'
  BY <1>2, FlushCounted DEF SInv
<1>8. \A s \in Slot : /\ SpanQueue'[s].Active = SpanQueue[s].Active
                      /\ SpanQueue'[s].SpanID = SpanQueue[s].SpanID
                      /\ SpanQueue'[s].ParentID = SpanQueue[s].ParentID
                      /\ SpanQueue'[s].PrevSpanID = SpanQueue[s].PrevSpanID
                      /\ InUse(s)' => SpanQueue[s].Active
  BY <1>2, FlushFact DEF InUse
<1>9. LiveOnly'
  BY <1>1, <1>8 DEF SInv, LiveOnly
<1>10. OnlyBegun'
  <2>1. \A id \in batch : Known(id, at, cycle)
    BY <1>3 DEF SInv, OnlyBegun
  <2> HIDE DEF batch
  <2>2. QED
    BY <1>1, <1>8, <2>1 DEF SInv, OnlyBegun
<1>11. Unsent'
  <2>1. ASSUME NEW s \in Slot, SpanQueue[s].Active
        PROVE  SpanQueue[s].SpanID \notin sent'
    <3>1. SpanQueue[s].SpanID \notin sent
      BY <2>1 DEF SInv, Unsent, InUse
    <3>2. SpanQueue[s].SpanID \notin batch
      BY <1>3, <2>1 DEF SInv, Unsent, InUse
    <3>3. QED
      BY <1>1, <3>1, <3>2
  <2>2. QED
    BY <1>8, <2>1 DEF SInv, Unsent, InUse
<1>12. NextIsChild' /\ ChildrenOfRoot'
  BY <1>1, <1>8 DEF SInv, NextIsChild, ChildrenOfRoot, IsActive, Root
<1>13. QED
  BY <1>5, <1>6, <1>7, <1>9, <1>10, <1>11, <1>12 DEF SInv

LEMMA NextSInv == SInv /\ [Next]_vars => SInv'
<1> SUFFICES ASSUME SInv, [Next]_vars PROVE SInv'
  OBVIOUS
<1>1. CASE StartCycle
  BY <1>1, StartCycleInv
<1>2. ASSUME NEW name \in Children, StartChild(name) PROVE SInv'
  BY <1>2, StartChildInv
<1>3. CASE EndChild \/ EndCycle
  BY <1>3, EndChildInv, EndCycleInv
<1>4. CASE flushSpans
  BY <1>4, FlushInv
<1>5. CASE Pause \/ Resume \/ UNCHANGED vars
  <2>1. /\ UNCHANGED <<telemetry, CurrentSpanID, cycle, at, cycleSpanIdx, childIdx, history>>
        /\ paused' \in BOOLEAN
    BY <1>5 DEF Pause, Resume, vars, SInv, TypeOK
  <2>2. TypeOK'
    BY <2>1 DEF SInv, TypeOK, telemetry, history
  <2>3. Counted' /\ LiveOnly' /\ OnlyBegun' /\ Unsent' /\ resent' = {}
    BY <2>1 DEF SInv, telemetry, history, Counted, Flags, NoneStranded, PendingSlots,
       LiveOnly, OnlyBegun, Unsent, InUse
  <2>4. NextIsChild' /\ ChildrenOfRoot'
    BY <2>1 DEF SInv, telemetry, history, NextIsChild, ChildrenOfRoot, Root, IsActive
  <2>5. QED
    BY <2>2, <2>3, <2>4 DEF SInv
<1>6. QED
  BY <1>1, <1>2, <1>3, <1>4, <1>5 DEF Next

LEMMA Inductive == Spec => []SInv
BY InitSInv, NextSInv, PTL DEF Spec

\* Handles, head, count and slots stay in their ranges.
THEOREM TypeCorrect == Spec => []TypeOK
<1>1. SInv => TypeOK
  BY DEF SInv
<1>2. QED
  BY <1>1, Inductive, PTL

\* While a span is pending the count is not 0, whatever was taken over
\* (telemetry.go 304-308, 383-386, 544-559).
THEOREM SpansNotStranded == Spec => []NoneStranded
<1>1. SInv => NoneStranded
  BY DEF SInv, Counted
<1>2. QED
  BY <1>1, Inductive, PTL

\* The spans a flush writes out are the slots it frees (telemetry.go 311-314, 373-377,
\* 554-559; json.go 284-384).
THEOREM SpansFlushed == Spec => []FlushesWhatItFrees
<1>1. SInv => FlushesWhatItFrees
  BY DEF SInv, Counted, Flags, FlushesWhatItFrees, Completed, PendingSlots
<1>2. QED
  BY <1>1, Inductive, PTL

\* No span is written out twice (json.go 284-384).
THEOREM SpansSentOnce == Spec => []SentOnce
<1>1. SInv => SentOnce
  BY DEF SInv, SentOnce
<1>2. QED
  BY <1>1, Inductive, PTL

\* The spans of a cycle are children of its root (telemetry.go 317-333, 379-380).
THEOREM SpansOfACycle == Spec => []ChildrenOfRoot
<1>1. SInv => ChildrenOfRoot
  BY DEF SInv
<1>2. QED
  BY <1>1, Inductive, PTL

\* None stays active when main sleeps (telemetry.go 288-387).
THEOREM SlotsFreed == Spec => []NoSlotLeaks
<1>1. SInv => NoSlotLeaks
  BY DEF SInv, LiveOnly, NoSlotLeaks, Children, Names
<1>2. QED
  BY <1>1, Inductive, PTL
=============================================================================
