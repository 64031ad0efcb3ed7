------------------------ MODULE TelemetryQueueProofs -------------------------
(****************************************************************************)
(* The circular queue implements the bounded log, for every queue size and    *)
(* every kind of entry.  The work is in the wrap-around: a position taken     *)
(* modulo the size is the position itself or the position less the size.      *)
(*                                                                          *)
(* The second part follows a flush to the collector, for every length of the   *)
(* buffers: what parses has a record for each entry (WholeBody), so SentLogs    *)
(* never runs ahead of what arrived.                                         *)
(****************************************************************************)
EXTENDS TelemetryBody, FiniteSetTheorems, SequenceTheorems, WellFoundedInduction, TLAPS

\* A position less than two rounds on.
LEMMA WrapFact ==
    ASSUME NEW n \in Nat \ {0}, NEW x \in Nat, x < 2 * n
    PROVE  x % n = IF x < n THEN x ELSE x - n
<1>1. CASE x < n
  BY <1>1
<1>2. CASE x >= n
  <2>1. x = 1 * n + (x - n) /\ x - n \in 0 .. n - 1
    BY <1>2
  <2>2. QED
    BY <2>1, <1>2
<1>3. QED
  BY <1>1, <1>2

-----------------------------------------------------------------------------
(* The inductive invariant: the slots in use hold entries, never leftovers of  *)
(* the initial state.                                                        *)

SlotsInUse ==
    \A i \in 1 .. LogCount : LogQueue[(LogHead + i - 1) % QueueSize] \in Entry

Ranges ==
    /\ LogQueue \in [Slot -> Entry \cup {Blank}]
    /\ LogHead \in Slot
    /\ LogCount \in 0 .. QueueSize

IInv == TypeOK /\ SlotsInUse

\* Where the i-th entry is, without the modulus.
LEMMA PositionFact ==
    ASSUME NEW h \in Slot, NEW i \in 0 .. QueueSize
    PROVE  /\ h \in Nat
           /\ (h + i) % QueueSize =
                 IF h + i < QueueSize THEN h + i ELSE h + i - QueueSize
           /\ (h + i) % QueueSize \in Slot
<1>1. h \in Nat /\ h < QueueSize /\ QueueSize \in Nat \ {0} /\ i <= QueueSize
      /\ i \in Nat
  BY QueueAssumption DEF Slot
<1>2. h + i \in Nat /\ h + i < 2 * QueueSize
  BY <1>1
<1>3. (h + i) % QueueSize =
          IF h + i < QueueSize THEN h + i ELSE h + i - QueueSize
  <2>1. PICK x \in Nat : x = h + i
    BY <1>2
  <2>2. x < 2 * QueueSize
    BY <1>2, <2>1
  <2>3. QueueSize \in Nat \ {0}
    BY QueueAssumption
  <2>4. x % QueueSize = IF x < QueueSize THEN x ELSE x - QueueSize
    BY <2>2, <2>3, WrapFact
  <2>5. QED
    BY <1>1, <2>1, <2>4
<1>4. QED
  BY <1>1, <1>3 DEF Slot

\* BuildLogsJSON is a sequence of LogCount entries.
LEMMA BatchFact ==
    ASSUME IInv
    PROVE  /\ BuildLogsJSON \in Seq(Entry)
           /\ Len(BuildLogsJSON) = LogCount
           /\ \A i \in 1 .. LogCount :
                 BuildLogsJSON[i] = LogQueue[(LogHead + i - 1) % QueueSize]
<1>1. LogCount \in Nat
  BY QueueAssumption DEF IInv, TypeOK
<1>2. BuildLogsJSON \in [1 .. LogCount -> Entry]
  BY DEF BuildLogsJSON, IInv, SlotsInUse
<1>3. BuildLogsJSON \in Seq(Entry) /\ Len(BuildLogsJSON) = LogCount
  BY <1>1, <1>2
<1>4. QED
  BY <1>3 DEF BuildLogsJSON

\* A sequence that extends another by one entry.
LEMMA AppendIs ==
    ASSUME NEW s \in Seq(Entry), NEW e \in Entry, NEW n \in Nat, Len(s) = n,
           NEW t \in [1 .. n + 1 -> Entry],
           \A i \in 1 .. n + 1 : t[i] = IF i = n + 1 THEN e ELSE s[i]
    PROVE  t = Append(s, e)
<1> DEFINE u == Append(s, e)
<1>1. /\ u \in Seq(Entry) /\ Len(u) = n + 1
      /\ \A i \in 1 .. n : u[i] = s[i]
      /\ u[n + 1] = e
  BY AppendProperties
<1>2. u = [i \in 1 .. n + 1 |-> u[i]]
  BY <1>1, LenProperties
<1>3. \A i \in 1 .. n + 1 : i # n + 1 => i \in 1 .. n
  OBVIOUS
<1>4. \A i \in 1 .. n + 1 : t[i] = u[i]
  BY <1>1, <1>3
<1> HIDE DEF u
<1>5. t = u
  BY <1>2, <1>4
<1>6. QED
  BY <1>5 DEF u

\* Log is the abstract Record: the new entry is the last one, and only a full
\* queue loses its first.
LEMMA LogRecords ==
    ASSUME IInv, NEW e \in Entry, Log(e)
    PROVE  /\ Ranges'
           /\ SlotsInUse'
           /\ BuildLogsJSON' = IF LogCount < QueueSize
                               THEN Append(BuildLogsJSON, e)
                               ELSE Append(Tail(BuildLogsJSON), e)
<1> DEFINE new == (LogHead + LogCount) % QueueSize
<1>1. /\ QueueSize \in Nat \ {0}
      /\ LogHead \in Slot /\ LogHead \in Nat /\ LogHead < QueueSize
      /\ LogCount \in Nat /\ LogCount \in 0 .. QueueSize
      /\ LogQueue \in [Slot -> Entry \cup {Blank}]
  BY QueueAssumption DEF IInv, TypeOK, Slot
<1>2. new \in Slot
      /\ new = IF LogHead + LogCount < QueueSize
               THEN LogHead + LogCount ELSE LogHead + LogCount - QueueSize
  BY <1>1, PositionFact
<1>3. LogQueue' = [LogQueue EXCEPT ![new] = e]
  BY DEF Log
<1>4. /\ LogQueue' \in [Slot -> Entry \cup {Blank}]
      /\ \A p \in Slot : LogQueue'[p] = IF p = new THEN e ELSE LogQueue[p]
  BY <1>1, <1>2, <1>3
<1>5. CASE LogCount < QueueSize
  <2>1. LogHead' = LogHead /\ LogCount' = LogCount + 1
    BY <1>1, <1>5 DEF Log
  <2>2. Ranges'
    BY <1>1, <1>4, <1>5, <2>1 DEF Ranges
  <2>3. ASSUME NEW i \in 1 .. LogCount + 1
        PROVE  LogQueue'[(LogHead + i - 1) % QueueSize] =
                   IF i = LogCount + 1
                   THEN e
                   ELSE LogQueue[(LogHead + i - 1) % QueueSize]
    <3>1. i - 1 \in 0 .. QueueSize /\ LogHead + (i - 1) = LogHead + i - 1
      BY <1>1, <1>5
    <3>2. (LogHead + i - 1) % QueueSize \in Slot
          /\ (LogHead + i - 1) % QueueSize =
                IF LogHead + i - 1 < QueueSize
                THEN LogHead + i - 1 ELSE LogHead + i - 1 - QueueSize
      BY <1>1, <3>1, PositionFact
    <3>3. (LogHead + i - 1) % QueueSize = new <=> i = LogCount + 1
      BY <1>1, <1>2, <1>5, <3>2
    <3>4. QED
      BY <1>4, <3>2, <3>3
  <2>4. SlotsInUse'
    <3>1. ASSUME NEW i \in 1 .. LogCount + 1
          PROVE  LogQueue'[(LogHead + i - 1) % QueueSize] \in Entry
      <4>1. CASE i = LogCount + 1
        BY <4>1, <2>3
      <4>2. CASE i # LogCount + 1
        <5>1. i \in 1 .. LogCount
          BY <4>2, <1>1
        <5>2. QED
          BY <4>2, <5>1, <2>3 DEF SlotsInUse, IInv
      <4>3. QED
        BY <4>1, <4>2
    <3>2. QED
      BY <3>1, <2>1 DEF SlotsInUse
  <2>5. BuildLogsJSON' =
           [i \in 1 .. LogCount + 1 |->
               LogQueue'[(LogHead + i - 1) % QueueSize]]
    BY <2>1 DEF BuildLogsJSON
  <2>6. BuildLogsJSON' = Append(BuildLogsJSON, e)
    <3>1. \A i \in 1 .. LogCount + 1 :
             BuildLogsJSON'[i] = IF i = LogCount + 1 THEN e
                                                     ELSE BuildLogsJSON[i]
      <4>1. ASSUME NEW i \in 1 .. LogCount + 1, i # LogCount + 1
            PROVE  BuildLogsJSON[i] = LogQueue[(LogHead + i - 1) % QueueSize]
        <5>1. i \in 1 .. LogCount
          BY <4>1, <1>1
        <5>2. QED
          BY <5>1, BatchFact
      <4>2. QED
        BY <4>1, <2>3, <2>5
    <3>2. BuildLogsJSON' \in [1 .. LogCount + 1 -> Entry]
      BY <2>1, <2>4, <2>5 DEF SlotsInUse
    <3>3. QED
      BY <1>1, <3>1, <3>2, BatchFact, AppendIs
  <2>7. QED
    BY <1>5, <2>2, <2>4, <2>6
<1>6. CASE ~(LogCount < QueueSize)
  <2>1. LogCount = QueueSize /\ LogCount' = LogCount
        /\ LogHead' = (LogHead + 1) % QueueSize
    BY <1>1, <1>6 DEF Log
  <2>2. /\ LogHead' \in Slot /\ LogHead' \in Nat
        /\ LogHead' = IF LogHead + 1 < QueueSize
                      THEN LogHead + 1 ELSE LogHead + 1 - QueueSize
    BY <1>1, <2>1, PositionFact DEF Slot
  <2>3. Ranges'
    BY <1>1, <1>4, <2>1, <2>2 DEF Ranges
  <2>4. ASSUME NEW i \in 1 .. QueueSize
        PROVE  LogQueue'[(LogHead' + i - 1) % QueueSize] =
                   IF i = QueueSize
                   THEN e
                   ELSE LogQueue[(LogHead + (i + 1) - 1) % QueueSize]
    <3>1. i - 1 \in 0 .. QueueSize /\ LogHead' + (i - 1) = LogHead' + i - 1
          /\ i \in 0 .. QueueSize /\ LogHead + (i + 1) - 1 = LogHead + i
      BY <1>1, <2>2
    <3>2. (LogHead' + i - 1) % QueueSize \in Slot
          /\ (LogHead' + i - 1) % QueueSize =
                IF LogHead' + i - 1 < QueueSize
                THEN LogHead' + i - 1 ELSE LogHead' + i - 1 - QueueSize
      BY <1>1, <2>2, <3>1, PositionFact
    <3>3. (LogHead + i) % QueueSize =
                IF LogHead + i < QueueSize
                THEN LogHead + i ELSE LogHead + i - QueueSize
      BY <1>1, <3>1, PositionFact
    <3>4. (LogHead' + i - 1) % QueueSize = (LogHead + i) % QueueSize
      BY <1>1, <2>2, <3>1, <3>2, <3>3
    <3>5. (LogHead' + i - 1) % QueueSize = new <=> i = QueueSize
      BY <1>1, <1>2, <2>1, <2>2, <3>2
    <3>6. QED
      BY <1>4, <3>1, <3>2, <3>4, <3>5
  <2>5. SlotsInUse'
    <3>1. ASSUME NEW i \in 1 .. QueueSize
          PROVE  LogQueue'[(LogHead' + i - 1) % QueueSize] \in Entry
      <4>1. CASE i = QueueSize
        BY <4>1, <2>4
      <4>2. CASE i # QueueSize
        <5>1. i + 1 \in 1 .. LogCount
          BY <4>2, <1>1, <2>1
        <5>2. QED
          BY <4>2, <5>1, <2>4 DEF SlotsInUse, IInv
      <4>3. QED
        BY <4>1, <4>2
    <3>2. QED
      BY <3>1, <2>1 DEF SlotsInUse
  <2>6. BuildLogsJSON' =
           [i \in 1 .. QueueSize |->
               LogQueue'[(LogHead' + i - 1) % QueueSize]]
    BY <2>1 DEF BuildLogsJSON
  <2>7. \A i \in 1 .. QueueSize - 1 :
           BuildLogsJSON[i + 1] = LogQueue[(LogHead + (i + 1) - 1) % QueueSize]
    BY <1>1, <2>1, BatchFact
  <2>8. \A i \in 1 .. QueueSize :
           BuildLogsJSON'[i] = IF i = QueueSize THEN e ELSE BuildLogsJSON[i + 1]
    <3>1. ASSUME NEW i \in 1 .. QueueSize, i # QueueSize
          PROVE  i \in 1 .. QueueSize - 1
      BY <3>1, <1>1
    <3>2. QED
      BY <3>1, <2>4, <2>6, <2>7
  <2>9. BuildLogsJSON' = Append(Tail(BuildLogsJSON), e)
    <3>1. BuildLogsJSON # <<>>
      BY <1>1, <2>1, BatchFact
    <3>2. /\ Tail(BuildLogsJSON) \in Seq(Entry)
          /\ Len(Tail(BuildLogsJSON)) = QueueSize - 1
          /\ \A i \in 1 .. QueueSize - 1 :
                Tail(BuildLogsJSON)[i] = BuildLogsJSON[i + 1]
      BY <3>1, <2>1, BatchFact, HeadTailProperties
    <3>3. QueueSize - 1 \in Nat /\ (QueueSize - 1) + 1 = QueueSize
      BY <1>1
    <3>4. \A i \in 1 .. QueueSize :
             BuildLogsJSON'[i] = IF i = QueueSize
                                 THEN e ELSE Tail(BuildLogsJSON)[i]
      <4>1. ASSUME NEW i \in 1 .. QueueSize, i # QueueSize
            PROVE  i \in 1 .. QueueSize - 1
        BY <4>1, <1>1
      <4>2. QED
        BY <4>1, <2>8, <3>2
    <3>5. BuildLogsJSON' \in [1 .. QueueSize -> Entry]
      BY <2>1, <2>5, <2>6 DEF SlotsInUse
    <3>6. QED
      BY <3>2, <3>3, <3>4, <3>5, AppendIs
  <2>10. QED
    BY <1>6, <2>3, <2>5, <2>9
<1>7. QED
  BY <1>5, <1>6

-----------------------------------------------------------------------------
(* The steps, and the refinement.                                           *)

\* An unused queue is an empty log.
LEMMA InitInv == Init => IInv
<1> SUFFICES ASSUME Init PROVE IInv
  OBVIOUS
<1>1. body \in Seq(Entry)
  BY EmptySeq DEF Init
<1>2. 0 \in Slot /\ 0 \in 0 .. QueueSize
  BY QueueAssumption DEF Slot
<1>3. TypeOK
  BY <1>1, <1>2 DEF Init, TypeOK
<1>4. SlotsInUse
  BY DEF Init, SlotsInUse
<1>5. QED
  BY <1>3, <1>4 DEF IInv

\* Every operation keeps the slots in use filled.
LEMMA NextInv == IInv /\ [Next]_vars => IInv'
<1> SUFFICES ASSUME IInv, [Next]_vars PROVE IInv'
  OBVIOUS
<1>1. ASSUME NEW e \in Entry, Log(e) PROVE IInv'
  <2>1. UNCHANGED <<paused, body>>
    BY <1>1 DEF Log
  <2>2. Ranges' /\ SlotsInUse'
    BY <1>1, LogRecords
  <2>3. QED
    BY <2>1, <2>2 DEF IInv, TypeOK, Ranges
<1>2. CASE flushLogs
  <2>1. body' \in Seq(Entry)
    BY <1>2, BatchFact DEF flushLogs
  <2>2. QED
    BY <1>2, <2>1, QueueAssumption
    DEF flushLogs, IInv, TypeOK, SlotsInUse, Slot
<1>3. CASE Pause \/ Resume
  BY <1>3 DEF Pause, Resume, IInv, TypeOK, SlotsInUse
<1>4. CASE UNCHANGED vars
  BY <1>4 DEF vars, IInv, TypeOK, SlotsInUse
<1>5. QED
  BY <1>1, <1>2, <1>3, <1>4 DEF Next

\* The invariant holds in every reachable state.
LEMMA Inductive == Spec => []IInv
BY InitInv, NextInv, PTL DEF Spec

\* The operations keep head, count and slots in their ranges.
THEOREM TypeCorrect == Spec => []TypeOK
<1>1. IInv => TypeOK
  BY DEF IInv
<1>2. QED
  BY <1>1, Inductive, PTL

\* The circular queue is the bounded log: every operation is one of its steps
\* or changes nothing it can see (telemetry.go 153-188, 466-482).
THEOREM Implementation == Spec => ImplementsBoundedLog
<1>1. Init => Abstract!Init
  BY QueueAssumption DEF Init, Abstract!Init, BuildLogsJSON
<1>2. IInv /\ [Next]_vars => [Abstract!Next]_<<BuildLogsJSON, body>>
  <2> SUFFICES ASSUME IInv, [Next]_vars
               PROVE  [Abstract!Next]_<<BuildLogsJSON, body>>
    OBVIOUS
  <2>1. ASSUME NEW e \in Entry, Log(e) PROVE Abstract!Record(e)
    <3>1. Len(BuildLogsJSON) = LogCount
      BY BatchFact
    <3>2. QED
      BY <2>1, <3>1, LogRecords DEF Abstract!Record, Log
  <2>2. CASE flushLogs
    <3>1. BuildLogsJSON # <<>>
      BY <2>2, BatchFact DEF flushLogs
    <3>2. BuildLogsJSON' = <<>>
      BY <2>2 DEF flushLogs, BuildLogsJSON
    <3>3. QED
      BY <2>2, <3>1, <3>2 DEF flushLogs, Abstract!Drain, Abstract!Next
  <2>3. CASE Pause \/ Resume
    BY <2>3 DEF Pause, Resume, BuildLogsJSON
  <2>4. CASE UNCHANGED vars
    BY <2>4 DEF vars, BuildLogsJSON
  <2>5. QED
    BY <2>1, <2>2, <2>3, <2>4 DEF Next, Abstract!Next
<1>3. QED
  BY <1>1, <1>2, Inductive, PTL DEF Spec, ImplementsBoundedLog, Abstract!Spec

-----------------------------------------------------------------------------
(* The same with the path of a record around the queue.                      *)

\* Every step on the way from a record to the collector is a step of the queue or
\* leaves it alone.
LEMMA BodyIsQueue == BodySpec => Spec
<1>1. BodyInit => Init
  BY DEF BodyInit
<1>2. [BodyNext]_bodyVars => [Next]_vars
  <2> SUFFICES ASSUME [BodyNext]_bodyVars PROVE [Next]_vars
    OBVIOUS
  <2>1. ASSUME NEW r \in Records, NEW traced \in BOOLEAN, Handle(r, traced)
        PROVE  Next
    BY <2>1, EntryAssumption DEF Handle, Next
  <2>2. CASE Flush
    BY <2>2 DEF Flush, Next
  <2>3. CASE Answered \/ Failed
    BY <2>3 DEF Answered, Failed
  <2>4. CASE Paused
    BY <2>4 DEF Paused, Next
  <2>5. CASE UNCHANGED bodyVars
    BY <2>5 DEF bodyVars
  <2>6. QED
    BY <2>1, <2>2, <2>3, <2>4, <2>5 DEF BodyNext
<1>3. QED
  BY <1>1, <1>2, PTL DEF BodySpec, Spec

\* Whatever a record is made of, however long its body becomes, and whatever comes of
\* a POST: the queue stays in its ranges and each flush writes out the last entries,
\* in order (telemetry.go 153-188, 466-502; slog.go 38-50).
THEOREM LogPath == BodySpec => []TypeOK /\ ImplementsBoundedLog
BY BodyIsQueue, TypeCorrect, Implementation, PTL
-----------------------------------------------------------------------------
(* The writer: induction over an interval, and what FoldLeft's definition       *)
(* chooses, once for the pieces of a record and once for the records.           *)

LEMMA Climb ==
    ASSUME NEW n \in Nat, NEW S, 0 \in S,
           \A k \in 0 .. n - 1 : k \in S => k + 1 \in S
    PROVE  0 .. n \subseteq S
<1> DEFINE Missing == {k \in 0 .. n : k \notin S}
<1> SUFFICES ASSUME Missing # {} PROVE FALSE
  OBVIOUS
<1>1. Missing \in SUBSET Nat
  OBVIOUS
<1>2. PICK k \in Missing : \A j \in Missing : ~(<<j, k>> \in OpToRel(<, Nat))
  BY <1>1, NatLessThanWellFounded, WFMin
<1>3. k # 0 /\ k - 1 \in 0 .. n - 1 /\ k - 1 < k
  OBVIOUS
<1>4. k - 1 \notin Missing
  BY <1>1, <1>2, <1>3 DEF OpToRel
<1>5. k - 1 \in S
  BY <1>3, <1>4
<1>6. k \in S
  BY <1>3, <1>5
<1>7. QED
  BY <1>6

LEMMA MaxOfInterval ==
    ASSUME NEW k \in Nat \ {0}, NEW T \in SUBSET (1 .. k), k \in T
    PROVE  Max(T) = k
<1>1. \A y \in T : k >= y
  OBVIOUS
<1>2. \A x \in T : (\A y \in T : x >= y) => x = k
  OBVIOUS
<1>3. QED
  BY <1>1, <1>2 DEF Max

\* What the writer is asked for before it closes, and what it leaves.
Kinds == {"head", "{", "key", "key{", "value", "}", ",", "cut"}

Piece == [kind : Kinds, width : Nat, raw : BOOLEAN]

\* What FoldLeft's definition chooses, for the first k pieces.
IsPieceFold(fold, start, pieces, k) ==
    fold = [T \in SUBSET (1 .. k) |->
               IF T = {} THEN start
               ELSE Write(fold[T \ {Max(T)}], pieces[Max(T)])]

LEMMA PieceFoldExists ==
    ASSUME NEW start, NEW pieces, NEW n \in Nat
    PROVE  \E fold : IsPieceFold(fold, start, pieces, n)
<1> DEFINE S == {k \in 0 .. n : \E fold : IsPieceFold(fold, start, pieces, k)}
<1>1. 0 \in S
  <2>1. IsPieceFold([T \in SUBSET (1 .. 0) |-> start], start, pieces, 0)
    BY DEF IsPieceFold
  <2>2. QED
    BY <2>1
<1>2. ASSUME NEW k \in 0 .. n - 1, k \in S PROVE k + 1 \in S
  <2>1. PICK fold : IsPieceFold(fold, start, pieces, k)
    BY <1>2
  <2> DEFINE longer ==
        [T \in SUBSET (1 .. k + 1) |->
            IF k + 1 \in T THEN Write(fold[T \ {k + 1}], pieces[k + 1])
            ELSE fold[T]]
  <2>2. ASSUME NEW T \in SUBSET (1 .. k + 1)
        PROVE  longer[T] = IF T = {} THEN start
                           ELSE Write(longer[T \ {Max(T)}], pieces[Max(T)])
    <3>1. CASE k + 1 \in T
      <4>1. Max(T) = k + 1
        BY <3>1, MaxOfInterval
      <4>2. T \ {k + 1} \in SUBSET (1 .. k + 1) /\ k + 1 \notin T \ {k + 1}
        OBVIOUS
      <4>3. longer[T \ {k + 1}] = fold[T \ {k + 1}]
        BY <4>2
      <4>4. QED
        BY <3>1, <4>1, <4>3
    <3>2. CASE k + 1 \notin T
      <4>1. T \in SUBSET (1 .. k)
        BY <3>2
      <4>2. \A R \in SUBSET T : longer[R] = fold[R]
        BY <3>2
      <4>3. fold[T] = IF T = {} THEN start
                      ELSE Write(fold[T \ {Max(T)}], pieces[Max(T)])
        BY <2>1, <4>1 DEF IsPieceFold
      <4>4. longer[T] = fold[T] /\ longer[T \ {Max(T)}] = fold[T \ {Max(T)}]
        BY <4>2
      <4>5. QED
        BY <4>3, <4>4
    <3>3. QED
      BY <3>1, <3>2
  <2> HIDE DEF longer
  <2>3. longer = [T \in SUBSET (1 .. k + 1) |-> longer[T]]
    BY DEF longer
  <2>4. IsPieceFold(longer, start, pieces, k + 1)
    BY <2>2, <2>3 DEF IsPieceFold
  <2>5. QED
    BY <2>4
<1> HIDE DEF S
<1>3. 0 .. n \subseteq S
  BY <1>1, <1>2, Climb
<1>4. QED
  BY <1>3 DEF S

\* The writer after every one of some pieces.
LEMMA PieceSteps ==
    ASSUME NEW start, NEW pieces \in Seq(Piece)
    PROVE  \E ws :
              /\ ws[0] = start
              /\ \A k \in 1 .. Len(pieces) : ws[k] = Write(ws[k - 1], pieces[k])
              /\ WriteAll(start, pieces) = ws[Len(pieces)]
<1> DEFINE n == Len(pieces)
           fold == CHOOSE f : IsPieceFold(f, start, pieces, n)
           ws == [k \in 0 .. n |-> fold[1 .. k]]
<1>1. n \in Nat /\ DOMAIN pieces = 1 .. n
  OBVIOUS
<1>2. IsPieceFold(fold, start, pieces, n)
  BY <1>1, PieceFoldExists
<1>3. WriteAll(start, pieces) = fold[1 .. n]
  BY <1>1 DEF WriteAll, FoldLeft, MapThenFoldSet, IsPieceFold
<1> HIDE DEF fold
<1>4. fold[1 .. 0] = start
  BY <1>1, <1>2 DEF IsPieceFold
<1>5. ASSUME NEW k \in 1 .. n
      PROVE  fold[1 .. k] = Write(fold[1 .. k - 1], pieces[k])
  <2>1. Max(1 .. k) = k
    BY <1>1, MaxOfInterval
  <2>2. (1 .. k) \ {k} = 1 .. k - 1
    BY <1>1
  <2>3. (\A i \in 1 .. k : i \in 1 .. n) /\ k \in 1 .. k
    BY <1>1
  <2>4. fold[1 .. k] = Write(fold[(1 .. k) \ {Max(1 .. k)}], pieces[Max(1 .. k)])
    BY <1>2, <2>3, 1 .. k \in SUBSET (1 .. n), 1 .. k # {} DEF IsPieceFold
  <2>5. QED
    BY <2>1, <2>2, <2>4
<1>6. ws[0] = start /\ ws[n] = fold[1 .. n]
  BY <1>1, <1>4
<1>7. \A k \in 1 .. n : ws[k] = Write(ws[k - 1], pieces[k])
  BY <1>1, <1>5
<1> HIDE DEF ws
<1>8. QED
  BY <1>3, <1>6, <1>7

\* The records after the first.
WriteOthers(w, entries) == FoldLeft(WriteNext, w, entries)

\* What FoldLeft's definition chooses, for the first k entries.
IsRecordFold(fold, start, entries, k) ==
    fold = [T \in SUBSET (1 .. k) |->
               IF T = {} THEN start
               ELSE WriteNext(fold[T \ {Max(T)}], entries[Max(T)])]

LEMMA RecordFoldExists ==
    ASSUME NEW start, NEW entries, NEW n \in Nat
    PROVE  \E fold : IsRecordFold(fold, start, entries, n)
<1> DEFINE S == {k \in 0 .. n : \E fold : IsRecordFold(fold, start, entries, k)}
<1>1. 0 \in S
  <2>1. IsRecordFold([T \in SUBSET (1 .. 0) |-> start], start, entries, 0)
    BY DEF IsRecordFold
  <2>2. QED
    BY <2>1
<1>2. ASSUME NEW k \in 0 .. n - 1, k \in S PROVE k + 1 \in S
  <2>1. PICK fold : IsRecordFold(fold, start, entries, k)
    BY <1>2
  <2> DEFINE longer ==
        [T \in SUBSET (1 .. k + 1) |->
            IF k + 1 \in T THEN WriteNext(fold[T \ {k + 1}], entries[k + 1])
            ELSE fold[T]]
  <2>2. ASSUME NEW T \in SUBSET (1 .. k + 1)
        PROVE  longer[T] = IF T = {} THEN start
                           ELSE WriteNext(longer[T \ {Max(T)}], entries[Max(T)])
    <3>1. CASE k + 1 \in T
      <4>1. Max(T) = k + 1
        BY <3>1, MaxOfInterval
      <4>2. T \ {k + 1} \in SUBSET (1 .. k + 1) /\ k + 1 \notin T \ {k + 1}
        OBVIOUS
      <4>3. longer[T \ {k + 1}] = fold[T \ {k + 1}]
        BY <4>2
      <4>4. QED
        BY <3>1, <4>1, <4>3
    <3>2. CASE k + 1 \notin T
      <4>1. T \in SUBSET (1 .. k)
        BY <3>2
      <4>2. \A R \in SUBSET T : longer[R] = fold[R]
        BY <3>2
      <4>3. fold[T] = IF T = {} THEN start
                      ELSE WriteNext(fold[T \ {Max(T)}], entries[Max(T)])
        BY <2>1, <4>1 DEF IsRecordFold
      <4>4. longer[T] = fold[T] /\ longer[T \ {Max(T)}] = fold[T \ {Max(T)}]
        BY <4>2
      <4>5. QED
        BY <4>3, <4>4
    <3>3. QED
      BY <3>1, <3>2
  <2> HIDE DEF longer
  <2>3. longer = [T \in SUBSET (1 .. k + 1) |-> longer[T]]
    BY DEF longer
  <2>4. IsRecordFold(longer, start, entries, k + 1)
    BY <2>2, <2>3 DEF IsRecordFold
  <2>5. QED
    BY <2>4
<1> HIDE DEF S
<1>3. 0 .. n \subseteq S
  BY <1>1, <1>2, Climb
<1>4. QED
  BY <1>3 DEF S

\* The writer after every one of some entries.
LEMMA RecordSteps ==
    ASSUME NEW start, NEW entries \in Seq(Entry)
    PROVE  \E ws :
              /\ ws[0] = start
              /\ \A k \in 1 .. Len(entries) : ws[k] = WriteNext(ws[k - 1], entries[k])
              /\ WriteOthers(start, entries) = ws[Len(entries)]
<1> DEFINE n == Len(entries)
           fold == CHOOSE f : IsRecordFold(f, start, entries, n)
           ws == [k \in 0 .. n |-> fold[1 .. k]]
<1>1. n \in Nat /\ DOMAIN entries = 1 .. n
  OBVIOUS
<1>2. IsRecordFold(fold, start, entries, n)
  BY <1>1, RecordFoldExists
<1>3. WriteOthers(start, entries) = fold[1 .. n]
  BY <1>1 DEF WriteOthers, FoldLeft, MapThenFoldSet, IsRecordFold
<1> HIDE DEF fold
<1>4. fold[1 .. 0] = start
  BY <1>1, <1>2 DEF IsRecordFold
<1>5. ASSUME NEW k \in 1 .. n
      PROVE  fold[1 .. k] = WriteNext(fold[1 .. k - 1], entries[k])
  <2>1. Max(1 .. k) = k
    BY <1>1, MaxOfInterval
  <2>2. (1 .. k) \ {k} = 1 .. k - 1
    BY <1>1
  <2>3. (\A i \in 1 .. k : i \in 1 .. n) /\ k \in 1 .. k
    BY <1>1
  <2>4. fold[1 .. k] = WriteNext(fold[(1 .. k) \ {Max(1 .. k)}], entries[Max(1 .. k)])
    BY <1>2, <2>3, 1 .. k \in SUBSET (1 .. n), 1 .. k # {} DEF IsRecordFold
  <2>5. QED
    BY <2>1, <2>2, <2>4
<1>6. ws[0] = start /\ ws[n] = fold[1 .. n]
  BY <1>1, <1>4
<1>7. \A k \in 1 .. n : ws[k] = WriteNext(ws[k - 1], entries[k])
  BY <1>1, <1>5
<1> HIDE DEF ws
<1>8. QED
  BY <1>3, <1>6, <1>7

-----------------------------------------------------------------------------
(* A record that loses its "{" has less than 16 bytes, which the 21 of its      *)
(* timestamp fill: after k records the body has k brackets or no byte left, and  *)
(* a full body stays full and gets no Close.                                  *)

\* How the pieces of a record begin.
Opening == raw("{", 16)
Stamp == value(21)

Writer == [pos : 0 .. BodyLen, out : Seq(Kinds)]

Brackets(out) == HowMany(out, {"{"})

Full(w) == w.pos = BodyLen

\* A piece more in the body.
LEMMA AppendBrackets ==
    ASSUME NEW K, NEW out \in Seq(K), NEW kind \in K
    PROVE  /\ Brackets(out) \in Nat /\ Brackets(Append(out, kind)) \in Nat
           /\ Brackets(Append(out, kind)) >= Brackets(out)
           /\ kind = "{" => Brackets(Append(out, kind)) = Brackets(out) + 1
<1> DEFINE longer == Append(out, kind)
           old == {i \in DOMAIN out : out[i] \in {"{"}}
           new == {i \in DOMAIN longer : longer[i] \in {"{"}}
           n == Len(out)
<1>1. n \in Nat /\ DOMAIN out = 1 .. n /\ n + 1 \notin 1 .. n
  OBVIOUS
<1>2. /\ DOMAIN longer = (1 .. n) \cup {n + 1}
      /\ longer[n + 1] = kind /\ \A i \in 1 .. n : longer[i] = out[i]
  BY <1>1
<1> HIDE DEF longer, n
<1>3. IsFiniteSet(old) /\ IsFiniteSet(new)
  <2>1. IsFiniteSet(1 .. n)
    BY <1>1, FS_Interval
  <2>3. IsFiniteSet((1 .. n) \cup {n + 1})
    BY <2>1, FS_AddElement
  <2>2. old \subseteq 1 .. n /\ new \subseteq (1 .. n) \cup {n + 1}
    BY <1>1, <1>2
  <2>4. QED
    BY <2>1, <2>2, <2>3, FS_Subset
<1>4. old \subseteq new
  BY <1>1, <1>2
<1>5. kind = "{" => new = old \cup {n + 1} /\ n + 1 \notin old
  BY <1>1, <1>2
<1> HIDE DEF old, new
<1>6. /\ Cardinality(old) \in Nat /\ Cardinality(new) \in Nat
      /\ Cardinality(old) <= Cardinality(new)
  BY <1>3, <1>4, FS_CardinalityType, FS_Subset
<1>7. kind = "{" => Cardinality(new) = Cardinality(old) + 1
  BY <1>3, <1>5, FS_AddElement
<1>8. Brackets(out) = Cardinality(old) /\ Brackets(longer) = Cardinality(new)
  BY DEF Brackets, HowMany, old, new
<1>9. QED
  BY <1>6, <1>7, <1>8 DEF longer

\* What a piece does to the writer, whatever has room.
LEMMA WriteFact ==
    ASSUME NEW w \in Writer, NEW p \in Piece
    PROVE  /\ Write(w, p) \in Writer
           /\ Len(w.out) \in Nat /\ Len(Write(w, p).out) >= Len(w.out)
           /\ Brackets(w.out) \in Nat /\ Brackets(Write(w, p).out) \in Nat
           /\ Brackets(Write(w, p).out) >= Brackets(w.out)
           /\ Full(w) => Full(Write(w, p))
<1> DEFINE room == BodyLen - w.pos
<1>1. /\ w.pos \in Nat /\ BodyLen \in Nat /\ room \in Nat /\ w.out \in Seq(Kinds)
      /\ p.width \in Nat /\ p.kind \in Kinds /\ "cut" \in Kinds
      /\ w.pos \in 0 .. BodyLen /\ BodyLen \in 0 .. BodyLen
  <2>1. w.pos \in 0 .. BodyLen /\ w.out \in Seq(Kinds)
    BY DEF Writer
  <2>2. p.width \in Nat /\ p.kind \in Kinds /\ "cut" \in Kinds
    BY DEF Piece, Kinds
  <2>3. BodyLen \in Nat
    BY BodyAssumption
  <2>4. QED
    BY <2>1, <2>2, <2>3
<1>2. CASE p.width <= room
  <2>1. Write(w, p) = [pos |-> w.pos + p.width, out |-> Append(w.out, p.kind)]
    BY <1>2 DEF Write
  <2>2. /\ w.pos + p.width \in 0 .. BodyLen
        /\ w.pos = BodyLen => w.pos + p.width = BodyLen
    BY <1>1, <1>2
  <2>3. /\ Append(w.out, p.kind) \in Seq(Kinds)
        /\ Len(Append(w.out, p.kind)) = Len(w.out) + 1 /\ Len(w.out) \in Nat
    BY <1>1
  <2>4. /\ Brackets(w.out) \in Nat /\ Brackets(Append(w.out, p.kind)) \in Nat
        /\ Brackets(Append(w.out, p.kind)) >= Brackets(w.out)
    BY <1>1, AppendBrackets
  <2>5. QED
    BY <2>1, <2>2, <2>3, <2>4 DEF Writer, Full
<1>3. CASE ~(p.width <= room) /\ (p.raw \/ room = 0)
  <2>1. Write(w, p) = w
    BY <1>3 DEF Write
  <2>2. Brackets(w.out) \in Nat
    BY <1>1, AppendBrackets
  <2>3. Len(w.out) \in Nat
    BY <1>1
  <2>4. QED
    BY <2>1, <2>2, <2>3
<1>4. CASE ~(p.width <= room) /\ ~(p.raw \/ room = 0)
  <2>1. Write(w, p) = [pos |-> BodyLen, out |-> Append(w.out, "cut")]
    BY <1>4 DEF Write
  <2>2. /\ Append(w.out, "cut") \in Seq(Kinds)
        /\ Len(Append(w.out, "cut")) = Len(w.out) + 1 /\ Len(w.out) \in Nat
    BY <1>1
  <2>3. /\ Brackets(w.out) \in Nat /\ Brackets(Append(w.out, "cut")) \in Nat
        /\ Brackets(Append(w.out, "cut")) >= Brackets(w.out)
    BY <1>1, AppendBrackets
  <2>4. QED
    BY <1>1, <2>1, <2>2, <2>3 DEF Writer, Full
<1>5. QED
  BY <1>2, <1>3, <1>4

\* The start of a record: its bracket is in the body, or the body is full.
LEMMA OpenFact ==
    ASSUME NEW w \in Writer
    PROVE  \/ Full(Write(Write(w, Opening), Stamp))
           \/ Brackets(Write(Write(w, Opening), Stamp).out) >= Brackets(w.out) + 1
<1> DEFINE v == Write(w, Opening)
           u == Write(v, Stamp)
<1>1. Opening \in Piece /\ Stamp \in Piece
  BY DEF raw, value, Piece, Kinds, Opening, Stamp
<1>2. v \in Writer
  BY <1>1, WriteFact
<1>3. /\ Brackets(w.out) \in Nat /\ Brackets(v.out) \in Nat /\ Brackets(u.out) \in Nat
      /\ Brackets(u.out) >= Brackets(v.out)
  BY <1>1, <1>2, WriteFact
<1>4. w.pos \in 0 .. BodyLen /\ w.out \in Seq(Kinds)
  BY DEF Writer
<1>5. w.pos \in Nat /\ BodyLen \in Nat /\ w.pos <= BodyLen
  BY <1>4, BodyAssumption
<1>6. /\ Opening.kind = "{" /\ Opening.width = 16 /\ Opening.raw
      /\ Stamp.width = 21 /\ ~Stamp.raw
  BY DEF raw, value, Opening, Stamp
<1>7. CASE 16 <= BodyLen - w.pos
  <2>1. v = [pos |-> w.pos + 16, out |-> Append(w.out, "{")]
    BY <1>6, <1>7 DEF Write
  <2>2. "{" \in Kinds
    BY DEF Kinds
  <2>3. Brackets(Append(w.out, "{")) = Brackets(w.out) + 1
    BY <1>4, <2>2, AppendBrackets
  <2> HIDE DEF v, u
  <2>4. Brackets(v.out) = Brackets(w.out) + 1
    <3>1. v.out = Append(w.out, "{")
      BY <2>1
    <3>2. QED
      BY <2>3, <3>1
  <2>5. Brackets(u.out) >= Brackets(w.out) + 1
    BY <1>3, <2>4
  <2>6. QED
    BY <2>5 DEF v, u
<1>8. CASE ~(16 <= BodyLen - w.pos)
  <2>1. v = w
    BY <1>6, <1>8 DEF Write
  <2>2. ~(21 <= BodyLen - w.pos)
    BY <1>5, <1>8
  <2>3. u = IF BodyLen - w.pos = 0 THEN w
            ELSE [pos |-> BodyLen, out |-> Append(w.out, "cut")]
    BY <1>6, <2>1, <2>2 DEF Write
  <2>4. BodyLen - w.pos = 0 => w.pos = BodyLen
    BY <1>5
  <2> HIDE DEF u
  <2>5. u.pos = BodyLen
    <3>1. CASE BodyLen - w.pos = 0
      BY <2>3, <2>4, <3>1
    <3>2. CASE BodyLen - w.pos # 0
      BY <2>3, <3>2
    <3>3. QED
      BY <3>1, <3>2
  <2> USE DEF u
  <2>6. QED
    BY <2>5 DEF Full
<1>9. QED
  BY <1>7, <1>8

\* The pieces of a record after the one before it.
LEMMA RecordFact ==
    ASSUME NEW x \in Piece, NEW e, e.text \in Nat
    PROVE  /\ <<x>> \o Record(e) \in Seq(Piece)
           /\ Len(<<x>> \o Record(e)) >= 3
           /\ (<<x>> \o Record(e))[1] = x
           /\ (<<x>> \o Record(e))[2] = Opening
           /\ (<<x>> \o Record(e))[3] = Stamp
<1> DEFINE key == raw("key", 18)
           severity == value(IF e.severity < 10 THEN 1 ELSE 2)
           text == raw("key{", 23)
           message == value(e.text + 2)
           id == raw("key", 11)
           idHex == value(34)
           span == raw("key", 10)
           spanHex == value(18)
           trace == IF e.traced THEN <<id, idHex, span, spanHex>> ELSE <<>>
<1>1. Record(e) = <<Opening, Stamp, key, severity, text, message, shut>> \o trace
                  \o <<shut>>
  BY DEF Record, Opening, Stamp
<1>2. \A kind \in Kinds, width \in Nat : raw(kind, width) \in Piece
  BY DEF raw, Piece
<1>3. \A width \in Nat : value(width) \in Piece
  BY DEF value, Piece, Kinds
<1>4. shut \in Piece
  BY DEF shut, Piece, Kinds
<1>5. /\ "{" \in Kinds /\ "key" \in Kinds /\ "key{" \in Kinds
      /\ 16 \in Nat /\ 21 \in Nat /\ 18 \in Nat /\ 23 \in Nat /\ 11 \in Nat
      /\ 34 \in Nat /\ 10 \in Nat
      /\ e.text + 2 \in Nat /\ (IF e.severity < 10 THEN 1 ELSE 2) \in Nat
  BY DEF Kinds
<1>6. /\ Opening \in Piece /\ Stamp \in Piece /\ key \in Piece /\ severity \in Piece
      /\ text \in Piece /\ message \in Piece
      /\ id \in Piece /\ idHex \in Piece /\ span \in Piece /\ spanHex \in Piece
  BY <1>2, <1>3, <1>5, Zenon DEF Opening, Stamp
<1> HIDE DEF key, severity, text, message, id, idHex, span, spanHex
<1>7. trace \in Seq(Piece)
  <2>1. <<id, idHex, span, spanHex>> \in Seq(Piece)
    BY <1>6
  <2>2. <<>> \in Seq(Piece)
    OBVIOUS
  <2>3. QED
    BY <2>1, <2>2
<1> HIDE DEF trace
<1>8. <<Opening, Stamp, key, severity, text, message, shut>> \in Seq(Piece)
  BY <1>4, <1>6
<1>9. <<shut>> \in Seq(Piece)
  BY <1>4
<1> DEFINE start == <<Opening, Stamp, key, severity, text, message, shut>>
<1>10. start \in Seq(Piece) /\ Len(start) = 7 /\ start[1] = Opening /\ start[2] = Stamp
  BY <1>8
<1> HIDE DEF start
<1> DEFINE both == start \o trace
<1>11. /\ both \in Seq(Piece) /\ Len(both) >= 7
       /\ both[1] = Opening /\ both[2] = Stamp
  <2>0. start \in Seq(Piece) /\ trace \in Seq(Piece)
    BY <1>7, <1>10
  <2>1. /\ both \in Seq(Piece) /\ Len(both) = Len(start) + Len(trace)
        /\ \A i \in 1 .. Len(start) : both[i] = start[i]
    BY <2>0
  <2>2. Len(trace) \in Nat
    BY <1>7
  <2> HIDE DEF both
  <2>3. QED
    BY <1>10, <2>1, <2>2
<1> HIDE DEF both
<1> DEFINE record == both \o <<shut>>
<1>12. /\ record \in Seq(Piece) /\ Len(record) >= 7
       /\ record[1] = Opening /\ record[2] = Stamp
  BY <1>9, <1>11
<1>13. Record(e) = record
  BY <1>1 DEF start, both
<1> HIDE DEF record
<1>14. <<x>> \in Seq(Piece) /\ Len(<<x>>) = 1 /\ <<x>>[1] = x
  OBVIOUS
<1>15. /\ <<x>> \o record \in Seq(Piece) /\ Len(<<x>> \o record) >= 3
       /\ (<<x>> \o record)[1] = x /\ (<<x>> \o record)[2] = Opening
       /\ (<<x>> \o record)[3] = Stamp
  BY <1>12, <1>14
<1>16. QED
  BY <1>13, <1>15

\* A record gives the body its bracket, or fills it.
LEMMA RecordWritten ==
    ASSUME NEW w \in Writer, NEW x \in Piece, NEW e, e.text \in Nat
    PROVE  /\ WriteAll(w, <<x>> \o Record(e)) \in Writer
           /\ Full(w) => Full(WriteAll(w, <<x>> \o Record(e)))
           /\ \/ Full(WriteAll(w, <<x>> \o Record(e)))
              \/ Brackets(WriteAll(w, <<x>> \o Record(e)).out) >= Brackets(w.out) + 1
           /\ Len(WriteAll(w, <<x>> \o Record(e)).out) >= Len(Write(w, x).out)
<1> DEFINE pieces == <<x>> \o Record(e)
           n == Len(pieces)
<1> HIDE DEF pieces
<1>0. /\ pieces \in Seq(Piece) /\ Len(pieces) >= 3
      /\ pieces[1] = x /\ pieces[2] = Opening /\ pieces[3] = Stamp
  BY RecordFact DEF pieces
<1>1. n \in Nat /\ n >= 3 /\ (\A k \in 1 .. n : pieces[k] \in Piece)
  BY <1>0
<1> HIDE DEF n
<1>2. PICK ws : /\ ws[0] = w
                /\ \A k \in 1 .. n : ws[k] = Write(ws[k - 1], pieces[k])
                /\ WriteAll(w, pieces) = ws[n]
  <2>1. \E ws : /\ ws[0] = w
                /\ \A k \in 1 .. Len(pieces) : ws[k] = Write(ws[k - 1], pieces[k])
                /\ WriteAll(w, pieces) = ws[Len(pieces)]
    BY <1>0, PieceSteps, Zenon
  <2>2. QED
    BY <2>1, Zenon DEF n
<1>3. WriteAll(w, pieces) = ws[n]
  BY <1>2
<1> DEFINE S == {k \in 0 .. n :
                    /\ ws[k] \in Writer
                    /\ Brackets(ws[k].out) \in Nat /\ Brackets(w.out) \in Nat
                    /\ Brackets(ws[k].out) >= Brackets(w.out)
                    /\ Full(w) => Full(ws[k])
                    /\ k >= 3 => \/ Full(ws[k])
                                 \/ Brackets(ws[k].out) >= Brackets(w.out) + 1
                    /\ k >= 1 => Len(ws[k].out) >= Len(Write(w, x).out)}
<1>4. 0 \in S
  BY <1>1, <1>2, WriteFact
<1>5. ASSUME NEW k \in 0 .. n - 1, k \in S PROVE k + 1 \in S
  <2> DEFINE v == ws[k]
             u == ws[k + 1]
  <2>1. k \in Nat /\ k + 1 \in 1 .. n /\ (k + 1) - 1 = k /\ k + 1 \in 0 .. n
        /\ pieces[k + 1] \in Piece
    BY <1>1
  <2>2. u = Write(v, pieces[k + 1])
    BY <1>2, <2>1
  <2>3. v \in Writer /\ Brackets(w.out) \in Nat /\ Brackets(v.out) \in Nat
        /\ Brackets(v.out) >= Brackets(w.out)
    BY <1>5
  <2>4. /\ u \in Writer /\ Len(v.out) \in Nat /\ Len(u.out) >= Len(v.out)
        /\ Brackets(u.out) \in Nat /\ Brackets(u.out) >= Brackets(v.out)
        /\ Full(v) => Full(u)
    BY <2>1, <2>2, <2>3, WriteFact
  <2>5. Brackets(u.out) >= Brackets(w.out)
    BY <2>3, <2>4
  <2>6. Full(w) => Full(u)
    BY <1>5, <2>4
  <2>7. Len(u.out) >= Len(Write(w, x).out)
    <3>1. CASE k = 0
      <4>1. u = Write(w, x)
        BY <1>0, <1>1, <1>2, <2>2, <3>1
      <4>2. Len(u.out) \in Nat
        BY <2>4 DEF Writer
      <4>3. QED
        BY <4>1, <4>2
    <3>2. CASE k # 0
      <4>1. k >= 1
        BY <2>1, <3>2
      <4>2. Len(v.out) >= Len(Write(w, x).out)
        BY <1>5, <4>1
      <4>3. Len(u.out) \in Nat /\ Len(Write(w, x).out) \in Nat
        <5>1. u \in Writer /\ Write(w, x) \in Writer
          BY <2>4, WriteFact
        <5>2. QED
          BY <5>1 DEF Writer
      <4>4. Len(u.out) >= Len(v.out) /\ Len(v.out) \in Nat
        BY <2>4
      <4> HIDE DEF u, v
      <4>5. QED
        BY <4>2, <4>3, <4>4
    <3>3. QED
      BY <3>1, <3>2
  <2>8. k + 1 >= 3 => Full(u) \/ Brackets(u.out) >= Brackets(w.out) + 1
    <3>1. CASE k = 2
      <4>1. /\ 1 \in 1 .. n /\ 2 \in 1 .. n /\ 3 \in 1 .. n
            /\ 1 - 1 = 0 /\ 2 - 1 = 1 /\ 3 - 1 = 2
        BY <1>1
      <4>2. ws[1] = Write(w, x) /\ ws[2] = Write(ws[1], Opening)
            /\ ws[3] = Write(ws[2], Stamp)
        BY <1>0, <1>2, <4>1
      <4>3. ws[1] \in Writer /\ Brackets(ws[1].out) \in Nat
            /\ Brackets(ws[1].out) >= Brackets(w.out)
        BY <4>2, WriteFact
      <4>4. Full(ws[3]) \/ Brackets(ws[3].out) >= Brackets(ws[1].out) + 1
        BY <4>2, <4>3, OpenFact
      <4>5. u = ws[3]
        BY <3>1
      <4>6. Full(u) \/ Brackets(u.out) >= Brackets(ws[1].out) + 1
        BY <4>4, <4>5
      <4> HIDE DEF u
      <4>7. QED
        BY <2>3, <2>4, <4>3, <4>6
    <3>2. CASE k # 2 /\ k + 1 >= 3
      <4>1. k >= 3
        BY <2>1, <3>2
      <4>2. Full(v) \/ Brackets(v.out) >= Brackets(w.out) + 1
        BY <1>5, <4>1
      <4> HIDE DEF u, v
      <4>3. QED
        BY <2>3, <2>4, <4>2
    <3>3. QED
      BY <3>1, <3>2
  <2>9. QED
    BY <2>1, <2>3, <2>4, <2>5, <2>6, <2>7, <2>8
<1> HIDE DEF S
<1>6. n \in S
  <2>1. 0 .. n \subseteq S
    BY <1>1, <1>4, <1>5, Climb
  <2>2. n \in 0 .. n
    BY <1>1
  <2>3. QED
    BY <2>1, <2>2
<1>7. ws[n] \in Writer /\ (Full(w) => Full(ws[n]))
  BY <1>6 DEF S
<1>8. n >= 1
  BY <1>1
<1>9. Full(ws[n]) \/ Brackets(ws[n].out) >= Brackets(w.out) + 1
  BY <1>1, <1>6 DEF S
<1>10. Len(ws[n].out) >= Len(Write(w, x).out)
  BY <1>6, <1>8 DEF S
<1>11. QED
  BY <1>3, <1>7, <1>9, <1>10 DEF pieces

\* The writer after the head and the first record.
LEMMA FirstWritten ==
    ASSUME NEW e, e.text \in Nat
    PROVE  /\ WriteFirst(e) \in Writer
           /\ Len(WriteFirst(e).out) >= 1
           /\ Full(WriteFirst(e)) \/ Brackets(WriteFirst(e).out) >= 1
<1> DEFINE empty == [pos |-> 0, out |-> <<>>]
           head == raw("head", HeadLen)
<1>1. HeadLen \in Nat /\ BodyLen \in Nat /\ HeadLen <= BodyLen
  BY BodyAssumption
<1>2. head \in Piece /\ head.width = HeadLen /\ head.kind = "head"
  BY <1>1 DEF raw, Piece, Kinds
<1>3. empty \in Writer
  BY <1>1 DEF Writer
<1>4. WriteFirst(e) = WriteAll(empty, <<head>> \o Record(e))
  BY DEF WriteFirst
<1> HIDE DEF head
<1>5. Len(Write(empty, head).out) = 1
  <2>1. Write(empty, head) = [pos |-> HeadLen, out |-> Append(<<>>, "head")]
    BY <1>1, <1>2 DEF Write
  <2>2. Len(Append(<<>>, "head")) = 1
    OBVIOUS
  <2>3. QED
    BY <2>1, <2>2
<1>6. Brackets(empty.out) = 0
  <2>1. {i \in DOMAIN <<>> : <<>>[i] \in {"{"}} = {}
    OBVIOUS
  <2>2. QED
    BY <2>1, FS_EmptySet DEF Brackets, HowMany
<1> HIDE DEF empty
<1> DEFINE w == WriteAll(empty, <<head>> \o Record(e))
<1>7. /\ w \in Writer /\ Len(w.out) >= Len(Write(empty, head).out)
      /\ Full(w) \/ Brackets(w.out) >= Brackets(empty.out) + 1
  BY <1>2, <1>3, RecordWritten
<1> HIDE DEF w
<1>8. Len(w.out) >= 1 /\ (Full(w) \/ Brackets(w.out) >= 1)
  BY <1>5, <1>6, <1>7
<1>9. QED
  BY <1>4, <1>7, <1>8 DEF w

\* The writer after all the records: a bracket for each, or no byte left.
LEMMA RecordsWritten ==
    ASSUME NEW entries \in Seq(Entry), entries # <<>>
    PROVE  /\ WriteRecords(entries) \in Writer
           /\ Len(WriteRecords(entries).out) >= 1
           /\ \/ Full(WriteRecords(entries))
              \/ Brackets(WriteRecords(entries).out) >= Len(entries)
<1> DEFINE rest == Tail(entries)
           n == Len(rest)
           first == WriteFirst(entries[1])
<1>1. /\ entries[1] \in Entry /\ rest \in Seq(Entry)
      /\ n \in Nat /\ Len(entries) = n + 1 /\ (\A k \in 1 .. n : rest[k] \in Entry)
  BY HeadTailProperties
<1>2. /\ first \in Writer /\ Len(first.out) >= 1
      /\ Full(first) \/ Brackets(first.out) >= 1
  BY <1>1, EntryAssumption, FirstWritten
<1> HIDE DEF rest, first
<1>3. PICK ws : /\ ws[0] = first
                /\ \A k \in 1 .. n : ws[k] = WriteNext(ws[k - 1], rest[k])
                /\ WriteOthers(first, rest) = ws[n]
  BY <1>1, RecordSteps
<1>4. WriteRecords(entries) = ws[n]
  BY <1>3 DEF WriteRecords, WriteOthers, rest, first
<1> HIDE DEF n
<1> DEFINE S == {k \in 0 .. n :
                    /\ ws[k] \in Writer
                    /\ Len(ws[k].out) >= 1
                    /\ Full(ws[k]) \/ Brackets(ws[k].out) >= k + 1}
<1>5. 0 \in S
  BY <1>1, <1>2, <1>3
<1>6. ASSUME NEW k \in 0 .. n - 1, k \in S PROVE k + 1 \in S
  <2> DEFINE v == ws[k]
             u == ws[k + 1]
  <2>1. k \in Nat /\ k + 1 \in 1 .. n /\ (k + 1) - 1 = k /\ k + 1 \in 0 .. n
        /\ rest[k + 1] \in Entry
    BY <1>1
  <2>2. v \in Writer /\ Len(v.out) >= 1 /\ (Full(v) \/ Brackets(v.out) >= k + 1)
    BY <1>6
  <2>3. u = WriteAll(v, <<Comma>> \o Record(rest[k + 1]))
    BY <1>3, <2>1 DEF WriteNext
  <2>4. Comma \in Piece
    BY DEF Comma, Piece, Kinds
  <2>5. rest[k + 1].text \in Nat
    BY <2>1, EntryAssumption
  <2>6. /\ u \in Writer /\ (Full(v) => Full(u))
        /\ Full(u) \/ Brackets(u.out) >= Brackets(v.out) + 1
        /\ Len(u.out) >= Len(Write(v, Comma).out)
    BY <2>2, <2>3, <2>4, <2>5, RecordWritten
  <2>7. /\ Len(Write(v, Comma).out) >= Len(v.out) /\ Write(v, Comma) \in Writer
        /\ Brackets(v.out) \in Nat
    BY <2>2, <2>4, WriteFact
  <2>8. /\ Len(u.out) \in Nat /\ Len(v.out) \in Nat /\ Len(Write(v, Comma).out) \in Nat
    BY <2>2, <2>6, <2>7 DEF Writer
  <2>9. /\ Brackets(u.out) \in Nat
    BY <2>4, <2>6, WriteFact
  <2> HIDE DEF v, u
  <2>10. Len(u.out) >= 1 /\ (Full(u) \/ Brackets(u.out) >= (k + 1) + 1)
    BY <2>1, <2>2, <2>6, <2>7, <2>8, <2>9
  <2>11. QED
    BY <2>1, <2>6, <2>10 DEF u
<1> HIDE DEF S
<1>7. n \in S
  <2>1. 0 .. n \subseteq S
    BY <1>1, <1>5, <1>6, Climb
  <2>2. n \in 0 .. n
    BY <1>1
  <2>3. QED
    BY <2>1, <2>2
<1>8. QED
  BY <1>1, <1>4, <1>7 DEF S

\* A body that parses has a record for every entry.
LEMMA WholeBody ==
    ASSUME NEW entries \in Seq(Entry), entries # <<>>, Parses(Written(entries))
    PROVE  /\ Brackets(Written(entries)) \in Nat
           /\ Brackets(Written(entries)) >= Len(entries)
<1> DEFINE w == WriteRecords(entries)
           bytes == Written(entries)
<1>1. /\ w \in Writer /\ Len(w.out) >= 1
      /\ Full(w) \/ Brackets(w.out) >= Len(entries)
  BY RecordsWritten
<1>2. /\ Close.kind = "]}]}]}" /\ Close.width = 6 /\ Close.raw
      /\ "]}]}]}" \notin Kinds
  BY DEF Close, raw, Kinds
<1>3. /\ w.pos \in Nat /\ BodyLen \in Nat /\ w.out \in Seq(Kinds) /\ Len(w.out) \in Nat
      /\ Len(entries) \in Nat
  <2>1. w.pos \in 0 .. BodyLen /\ w.out \in Seq(Kinds)
    BY <1>1 DEF Writer
  <2>2. QED
    BY <2>1, BodyAssumption
<1>4. bytes = Write(w, Close).out
  BY DEF Written
<1>5. Last(bytes) = "]}]}]}"
  BY DEF Parses
<1> HIDE DEF w, bytes
<1>6. CASE 6 <= BodyLen - w.pos
  <2>1. bytes = Append(w.out, "]}]}]}")
    BY <1>2, <1>4, <1>6 DEF Write
  <2>2. ~Full(w)
    BY <1>3, <1>6 DEF Full
  <2> DEFINE all == Kinds \cup {"]}]}]}"}
  <2>3. w.out \in Seq(all) /\ "]}]}]}" \in all
    BY <1>3, Kinds \subseteq all, SeqMonotonic
  <2> HIDE DEF all
  <2>4. /\ Brackets(w.out) \in Nat /\ Brackets(Append(w.out, "]}]}]}")) \in Nat
        /\ Brackets(Append(w.out, "]}]}]}")) >= Brackets(w.out)
    BY <2>3, AppendBrackets
  <2>5. /\ Brackets(bytes) \in Nat /\ Brackets(bytes) >= Brackets(w.out)
    BY <2>1, <2>4
  <2>6. Brackets(bytes) \in Nat /\ Brackets(bytes) >= Len(entries)
    <3>1. Brackets(w.out) >= Len(entries)
      BY <1>1, <2>2, Zenon
    <3>2. Brackets(w.out) \in Nat
      BY <2>4
    <3>3. QED
      BY <1>3, <2>5, <3>1, <3>2
  <2>7. QED
    BY <2>6 DEF bytes
<1>7. CASE ~(6 <= BodyLen - w.pos)
  <2>1. bytes = w.out
    BY <1>2, <1>4, <1>7 DEF Write
  <2>2. Last(w.out) \in Kinds
    <3>1. Len(w.out) \in 1 .. Len(w.out)
      BY <1>1, <1>3
    <3>2. QED
      BY <1>3, <3>1 DEF Last
  <2>3. QED
    BY <1>2, <1>5, <2>1, <2>2
<1>8. QED
  BY <1>6, <1>7

\* The inductive invariant of the path: what is posted has, if the collector can
\* read it, a record at least for each that flushLogs will count.
Counts == posting \in Nat /\ SentLogs \in Nat /\ arrived \in Nat

Posted ==
    posting # 0 /\ Parses(BodyBuf) =>
        Brackets(BodyBuf) \in Nat /\ Brackets(BodyBuf) >= posting

BInv == Counts /\ Posted /\ CountsWhatArrived

LEMMA BodyInv ==
    IInv /\ BInv /\ [BodyNext]_bodyVars => BInv'
<1> SUFFICES ASSUME IInv, BInv, [BodyNext]_bodyVars PROVE BInv'
  OBVIOUS
<1>1. Counts /\ Posted /\ CountsWhatArrived
  BY DEF BInv
<1>2. CASE UNCHANGED <<BodyBuf, posting, SentLogs, arrived>>
  BY <1>1, <1>2 DEF BInv, Counts, Posted, CountsWhatArrived, Brackets
<1>3. CASE Flush
  <2>1. /\ flushLogs /\ BodyBuf' = Written(BuildLogsJSON) /\ posting' = LogCount
        /\ UNCHANGED <<SentLogs, arrived>>
    BY <1>3 DEF Flush
  <2>2. BuildLogsJSON \in Seq(Entry) /\ Len(BuildLogsJSON) = LogCount
    BY BatchFact
  <2>3. LogCount \in Nat /\ LogCount # 0
    BY <2>1, QueueAssumption DEF flushLogs, IInv, TypeOK
  <2>4. BuildLogsJSON # <<>>
    BY <2>2, <2>3
  <2>5. Posted'
    <3> SUFFICES ASSUME Parses(BodyBuf')
                 PROVE  Brackets(BodyBuf') \in Nat /\ Brackets(BodyBuf') >= posting'
      BY DEF Posted, Brackets
    <3>1. Parses(Written(BuildLogsJSON))
      BY <2>1
    <3>2. /\ Brackets(Written(BuildLogsJSON)) \in Nat
          /\ Brackets(Written(BuildLogsJSON)) >= Len(BuildLogsJSON)
      BY <2>2, <2>4, <3>1, WholeBody
    <3>3. QED
      BY <2>1, <2>2, <3>2
  <2>6. Counts' /\ CountsWhatArrived'
    BY <1>1, <2>1, <2>3 DEF Counts, CountsWhatArrived
  <2>7. QED
    BY <2>5, <2>6 DEF BInv
<1>4. CASE Answered
  <2>1. /\ posting # 0 /\ Parses(BodyBuf)
        /\ arrived' = arrived + Brackets(BodyBuf)
        /\ SentLogs' = SentLogs + posting \/ SentLogs' = SentLogs
        /\ posting' = 0
    BY <1>4 DEF Answered, Brackets
  <2>2. Brackets(BodyBuf) \in Nat /\ Brackets(BodyBuf) >= posting
    BY <1>1, <2>1 DEF Posted
  <2>3. Counts' /\ CountsWhatArrived'
    BY <1>1, <2>1, <2>2 DEF Counts, CountsWhatArrived
  <2>4. Posted'
    BY <2>1 DEF Posted
  <2>5. QED
    BY <2>3, <2>4 DEF BInv
<1>5. CASE Failed
  <2>1. posting' = 0 /\ UNCHANGED <<SentLogs, arrived>>
    BY <1>5 DEF Failed
  <2>2. QED
    BY <1>1, <2>1 DEF BInv, Counts, Posted, CountsWhatArrived
<1>6. CASE \E r \in Records, traced \in BOOLEAN : Handle(r, traced)
  BY <1>2, <1>6 DEF Handle
<1>7. CASE Paused
  BY <1>2, <1>7 DEF Paused
<1>8. CASE UNCHANGED bodyVars
  BY <1>2, <1>8 DEF bodyVars
<1>9. QED
  BY <1>3, <1>4, <1>5, <1>6, <1>7, <1>8 DEF BodyNext

\* SentLogs never counts a record that the collector does not have, for every size of
\* queue, message and buffer, and every record: a bracket that has no room is not
\* missed, because the timestamp after it fills the body, which then has no close
\* (telemetry.go 466-502, json.go 25-39 and 179-226).
THEOREM RecordsArrive == BodySpec => []CountsWhatArrived
<1>1. BodyInit => BInv
  BY DEF BodyInit, BInv, Counts, Posted, CountsWhatArrived
<1>2. BodySpec => []IInv
  BY BodyIsQueue, Inductive, PTL
<1>3. BInv => CountsWhatArrived
  BY DEF BInv
<1>4. QED
  BY <1>1, <1>2, <1>3, BodyInv, PTL DEF BodySpec
=============================================================================
