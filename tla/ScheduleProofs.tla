----------------------------- MODULE ScheduleProofs ----------------------------
(****************************************************************************)
(* The schedule on its way to the LEDs, for every schedule Node-RED may send,   *)
(* every number of jobs and unread messages, and without end.                  *)
(*                                                                          *)
(* The parser is a fold.  ParseSteps gives the jobs after every entry, and      *)
(* ParseFact is an induction over them.  The clock needs to know how old a      *)
(* message can be: it was made during this fetch (Recent), of which ticked is    *)
(* the length; and that an NTP offset is the clock's error until somebody else   *)
(* sets the clock (Measured).                                                *)
(****************************************************************************)
EXTENDS Schedule, FiniteSetTheorems, SequenceTheorems, WellFoundedInduction, TLAPS

-----------------------------------------------------------------------------
(* Induction over an interval, for a set in place of a formula.                *)

LEMMA Climb ==
    ASSUME NEW n \in Nat, NEW S, 0 \in S,
           \A k \in 0 .. n - 1 : k \in S => k + 1 \in S
    PROVE  0 .. n \subseteq S
<1> DEFINE Missing == {k \in 0 .. n : k \notin S}
<1> SUFFICES ASSUME Missing # {} PROVE FALSE
  OBVIOUS
<1>1. Missing \in SUBSET Nat
  OBVIOUS
<1>2. PICK k \in Missing : \A j \in Missing : ~(<<j, k>> \in OpToRel(<, Nat))
  BY <1>1, NatLessThanWellFounded, WFMin
<1>3. k # 0 /\ k - 1 \in 0 .. n - 1 /\ k - 1 < k
  OBVIOUS
<1>4. k - 1 \notin Missing
  BY <1>1, <1>2, <1>3 DEF OpToRel
<1>5. k - 1 \in S
  BY <1>3, <1>4
<1>6. k \in S
  BY <1>3, <1>5
<1>7. QED
  BY <1>6

-----------------------------------------------------------------------------
(* The parser.                                                              *)

LEMMA MaxOfInterval ==
    ASSUME NEW k \in Nat \ {0}, NEW T \in SUBSET (1 .. k), k \in T
    PROVE  Max(T) = k
<1>1. \A y \in T : k >= y
  OBVIOUS
<1>2. \A x \in T : (\A y \in T : x >= y) => x = k
  OBVIOUS
<1>3. QED
  BY <1>1, <1>2 DEF Max

\* What FoldLeft's definition chooses, for the first k entries.
IsFold(fold, entries, k) ==
    fold = [T \in SUBSET (1 .. k) |->
               IF T = {} THEN <<>>
               ELSE AddJob(fold[T \ {Max(T)}], entries[Max(T)])]

LEMMA FoldExists ==
    ASSUME NEW entries, NEW n \in Nat
    PROVE  \E fold : IsFold(fold, entries, n)
<1> DEFINE S == {k \in 0 .. n : \E fold : IsFold(fold, entries, k)}
<1>1. 0 \in S
  <2>1. IsFold([T \in SUBSET (1 .. 0) |-> <<>>], entries, 0)
    BY DEF IsFold
  <2>2. QED
    BY <2>1
<1>2. ASSUME NEW k \in 0 .. n - 1, k \in S PROVE k + 1 \in S
  <2>1. PICK fold : IsFold(fold, entries, k)
    BY <1>2
  <2> DEFINE longer ==
        [T \in SUBSET (1 .. k + 1) |->
            IF k + 1 \in T THEN AddJob(fold[T \ {k + 1}], entries[k + 1]) ELSE fold[T]]
  <2>2. ASSUME NEW T \in SUBSET (1 .. k + 1)
        PROVE  longer[T] = IF T = {} THEN <<>>
                           ELSE AddJob(longer[T \ {Max(T)}], entries[Max(T)])
    <3>1. CASE k + 1 \in T
      <4>1. Max(T) = k + 1
        BY <3>1, MaxOfInterval
      <4>2. T \ {k + 1} \in SUBSET (1 .. k + 1) /\ k + 1 \notin T \ {k + 1}
        OBVIOUS
      <4>3. longer[T \ {k + 1}] = fold[T \ {k + 1}]
        BY <4>2
      <4>4. QED
        BY <3>1, <4>1, <4>3
    <3>2. CASE k + 1 \notin T
      <4>1. T \in SUBSET (1 .. k)
        BY <3>2
      <4>2. \A R \in SUBSET T : longer[R] = fold[R]
        BY <3>2
      <4>3. fold[T] = IF T = {} THEN <<>>
                      ELSE AddJob(fold[T \ {Max(T)}], entries[Max(T)])
        BY <2>1, <4>1 DEF IsFold
      <4>4. longer[T] = fold[T] /\ longer[T \ {Max(T)}] = fold[T \ {Max(T)}]
        BY <4>2
      <4>5. QED
        BY <4>3, <4>4
    <3>3. QED
      BY <3>1, <3>2
  <2> HIDE DEF longer
  <2>3. longer = [T \in SUBSET (1 .. k + 1) |-> longer[T]]
    BY DEF longer
  <2>4. IsFold(longer, entries, k + 1)
    BY <2>2, <2>3 DEF IsFold
  <2>5. QED
    BY <2>4
<1> HIDE DEF S
<1>3. 0 .. n \subseteq S
  BY <1>1, <1>2, Climb
<1>4. QED
  BY <1>3 DEF S

\* The jobs after every entry, from none to those of the whole response.
LEMMA ParseSteps ==
    ASSUME NEW entries \in Seq(Entry)
    PROVE  \E jobs :
              /\ jobs[0] = <<>>
              /\ \A k \in 1 .. Len(entries) : jobs[k] = AddJob(jobs[k - 1], entries[k])
              /\ parseScheduleResponse(entries) = jobs[Len(entries)]
<1> DEFINE n == Len(entries)
           fold == CHOOSE f : IsFold(f, entries, n)
           jobs == [k \in 0 .. n |-> fold[1 .. k]]
<1>1. n \in Nat /\ DOMAIN entries = 1 .. n
  OBVIOUS
<1>2. IsFold(fold, entries, n)
  BY <1>1, FoldExists
<1>3. parseScheduleResponse(entries) = fold[1 .. n]
  BY <1>1 DEF parseScheduleResponse, FoldLeft, MapThenFoldSet, IsFold
<1> HIDE DEF fold
<1>4. fold[1 .. 0] = <<>>
  BY <1>1, <1>2 DEF IsFold
<1>5. ASSUME NEW k \in 1 .. n
      PROVE  fold[1 .. k] = AddJob(fold[1 .. k - 1], entries[k])
  <2>1. Max(1 .. k) = k
    BY <1>1, MaxOfInterval
  <2>2. (1 .. k) \ {k} = 1 .. k - 1
    BY <1>1
  <2>3. (\A i \in 1 .. k : i \in 1 .. n) /\ k \in 1 .. k
    BY <1>1
  <2>4. fold[1 .. k] = AddJob(fold[(1 .. k) \ {Max(1 .. k)}], entries[Max(1 .. k)])
    BY <1>2, <2>3, 1 .. k \in SUBSET (1 .. n), 1 .. k # {} DEF IsFold
  <2>5. QED
    BY <2>1, <2>2, <2>4
<1>6. jobs[0] = <<>> /\ jobs[n] = fold[1 .. n]
  BY <1>1, <1>4
<1>7. \A k \in 1 .. n : jobs[k] = AddJob(jobs[k - 1], entries[k])
  BY <1>1, <1>5
<1>8. QED
  BY <1>3, <1>6, <1>7

LEMMA RankFact ==
    ASSUME NEW entries, NEW n \in Nat
    PROVE  /\ IsFiniteSet(Valid(entries, n))
           /\ Rank(entries, n) \in Nat
           /\ Rank(entries, 0) = 0
           /\ Rank(entries, n + 1) =
                 IF IsJob(entries[n + 1]) THEN Rank(entries, n) + 1 ELSE Rank(entries, n)
           /\ \A i \in 0 .. n : Rank(entries, i) <= Rank(entries, n)
<1>1. IsFiniteSet(1 .. n)
  BY FS_Interval
<1>2. IsFiniteSet(Valid(entries, n))
  BY <1>1, FS_Subset DEF Valid
<1>3. Valid(entries, 0) = {}
  BY DEF Valid
<1>4. /\ IsJob(entries[n + 1]) => Valid(entries, n + 1) = Valid(entries, n) \cup {n + 1}
      /\ ~IsJob(entries[n + 1]) => Valid(entries, n + 1) = Valid(entries, n)
      /\ n + 1 \notin Valid(entries, n)
  BY DEF Valid
<1>5. \A i \in 0 .. n : Valid(entries, i) \subseteq Valid(entries, n)
  BY DEF Valid
<1>6. QED
  BY <1>2, <1>3, <1>4, <1>5, FS_AddElement, FS_EmptySet, FS_Subset, FS_CardinalityType
  DEF Rank

\* One entry more.
LEMMA AddJobFact ==
    ASSUME NEW entries, NEW k \in Nat, entries[k + 1] \in Entry,
           NEW jobs \in Seq(Job), AreJobsOf(jobs, entries, k)
    PROVE  /\ AddJob(jobs, entries[k + 1]) \in Seq(Job)
           /\ AreJobsOf(AddJob(jobs, entries[k + 1]), entries, k + 1)
<1> DEFINE entry == entries[k + 1]
           rank == Rank(entries, k)
           after == AddJob(jobs, entry)
<1>1. rank \in Nat /\ MaxJobs \in Nat /\ Len(jobs) = IF rank < MaxJobs THEN rank ELSE MaxJobs
  BY RankFact, ScheduleAssumption DEF AreJobsOf
<1>2. ASSUME NEW i \in Valid(entries, k)
      PROVE  /\ Rank(entries, i) \in Nat
             /\ Rank(entries, i) <= rank
             /\ Rank(entries, i) <= MaxJobs => jobs[Rank(entries, i)] = entries[i]
  <2>1. i \in 1 .. k /\ i \in Nat
    BY DEF Valid
  <2>2. Rank(entries, i) \in Nat /\ Rank(entries, i) <= rank
    BY <2>1, RankFact
  <2>3. QED
    BY <2>2 DEF AreJobsOf
<1>3. ASSUME NEW i \in Valid(entries, k) PROVE Rank(entries, i) # 0
  <2>1. i \in Valid(entries, i) /\ i \in Nat
    BY DEF Valid
  <2>2. QED
    BY <2>1, RankFact, FS_EmptySet DEF Rank
<1>4. CASE IsJob(entry)
  <2>1. Rank(entries, k + 1) = rank + 1
    BY <1>4, RankFact
  <2>2. Valid(entries, k + 1) = Valid(entries, k) \cup {k + 1}
    BY <1>4 DEF Valid
  <2>3. entry \in Job
    BY <1>4 DEF IsJob, Job, Entry
  <2>4. CASE Len(jobs) < MaxJobs
    <3>1. after = Append(jobs, entry) /\ Len(jobs) = rank
      BY <1>1, <1>4, <2>4 DEF AddJob
    <3>2. /\ after \in Seq(Job) /\ Len(after) = rank + 1
          /\ after[rank + 1] = entry
          /\ \A r \in 1 .. rank : after[r] = jobs[r]
      BY <2>3, <3>1
    <3>3. \A i \in Valid(entries, k) : Rank(entries, i) \in 1 .. rank
      BY <1>1, <1>2, <1>3
    <3>4. \A i \in Valid(entries, k + 1) :
             Rank(entries, i) <= MaxJobs => after[Rank(entries, i)] = entries[i]
      BY <1>2, <2>1, <2>2, <3>2, <3>3
    <3>5. Len(after) = IF rank + 1 < MaxJobs THEN rank + 1 ELSE MaxJobs
      BY <1>1, <2>4, <3>1, <3>2
    <3>6. AreJobsOf(after, entries, k + 1)
      BY <2>1, <3>4, <3>5 DEF AreJobsOf
    <3>7. QED
      BY <3>2, <3>6
  <2>5. CASE ~(Len(jobs) < MaxJobs)
    <3>1. after = jobs /\ Len(jobs) = MaxJobs /\ rank + 1 > MaxJobs
      BY <1>1, <2>5 DEF AddJob
    <3>2. \A i \in Valid(entries, k + 1) :
             Rank(entries, i) <= MaxJobs => after[Rank(entries, i)] = entries[i]
      BY <1>1, <1>2, <2>1, <2>2, <3>1
    <3>3. QED
      BY <1>1, <2>1, <3>1, <3>2 DEF AreJobsOf
  <2>6. QED
    BY <2>4, <2>5
<1>5. CASE ~IsJob(entry)
  <2>1. after = jobs
    BY <1>5 DEF AddJob
  <2>2. Valid(entries, k + 1) = Valid(entries, k)
    BY <1>5 DEF Valid
  <2>3. Rank(entries, k + 1) = Rank(entries, k)
    BY <2>2 DEF Rank
  <2>4. AreJobsOf(jobs, entries, k + 1)
    BY <2>2, <2>3 DEF AreJobsOf
  <2>5. QED
    BY <2>1, <2>4
<1>6. QED
  BY <1>4, <1>5

\* What the parser returns: the first jobs of the entries, in order.
LEMMA ParseFact ==
    ASSUME NEW entries \in Seq(Entry)
    PROVE  /\ parseScheduleResponse(entries) \in Seq(Job)
           /\ Len(parseScheduleResponse(entries)) <= MaxJobs
           /\ AreJobsOf(parseScheduleResponse(entries), entries, Len(entries))
<1> DEFINE n == Len(entries)
<1>1. PICK jobs : /\ jobs[0] = <<>>
                  /\ \A k \in 1 .. n : jobs[k] = AddJob(jobs[k - 1], entries[k])
                  /\ parseScheduleResponse(entries) = jobs[n]
  BY ParseSteps
<1> DEFINE S == {k \in 0 .. n : jobs[k] \in Seq(Job) /\ AreJobsOf(jobs[k], entries, k)}
<1>2. n \in Nat
  OBVIOUS
<1>3. 0 \in S
  <2>1. Rank(entries, 0) = 0
    BY <1>2, RankFact
  <2> Valid(entries, 0) = {}
    BY DEF Valid
  <2>2. Len(jobs[0]) = IF Rank(entries, 0) < MaxJobs THEN Rank(entries, 0) ELSE MaxJobs
    BY <1>1, <2>1, ScheduleAssumption
  <2>3. AreJobsOf(jobs[0], entries, 0)
    BY <2>1, <2>2 DEF AreJobsOf
  <2>4. jobs[0] \in Seq(Job)
    BY <1>1
  <2>5. 0 \in 0 .. n
    BY <1>2
  <2>6. QED
    BY <2>3, <2>4, <2>5, Zenon
<1>4. ASSUME NEW k \in 0 .. n - 1, k \in S PROVE k + 1 \in S
  <2>1. k \in Nat /\ k + 1 \in 1 .. n /\ entries[k + 1] \in Entry
    BY <1>2
  <2>2. jobs[k + 1] = AddJob(jobs[k], entries[k + 1])
    BY <1>1, <2>1
  <2>3. QED
    BY <1>4, <2>1, <2>2, AddJobFact
<1> HIDE DEF S
<1>5. n \in S
  <2>1. 0 .. n \subseteq S
    BY <1>2, <1>3, <1>4, Climb
  <2>2. QED
    BY <1>2, <2>1
<1>6. Rank(entries, n) \in Nat
  BY <1>2, RankFact
<1>7. QED
  BY <1>1, <1>5, <1>6, ScheduleAssumption DEF S, AreJobsOf

-----------------------------------------------------------------------------
(* The inductive invariant.                                                 *)

Fetching == {"dialling", "acking", "waiting"}

\* A time that a message of this fetch may have, or none.
Recent(t) == t = 0 \/ (t <= now /\ now - t <= IF ticked THEN 1 ELSE 0)

\* What has been read is the beginning of one message.
IsReading(r) ==
    /\ r.entries \in Seq(Entry)
    /\ r.n \in 0 .. Len(r.entries)
    /\ r.whole \in BOOLEAN

PartRead ==
    /\ IsReading(read) /\ IsReading(applied)
    /\ responseBuf.entries = SubSeq(read.entries, 1, read.n)

\* The messages of a fetch are no older than it is.
MessagesRecent ==
    /\ ticked => pc \in Fetching
    /\ pc \in Fetching /\ read.whole => Recent(responseBuf.time)
    /\ \A i \in 1 .. Len(inbox) : Recent(inbox[i].time)

\* An offset that was measured on the clock as it is, is its error.
Measured == \A g \in fresh : exchange[g] = <<behind>>

IInv ==
    /\ TypeOK
    /\ JobsOfOneResponse
    /\ ClockFollows
    /\ Measured
    /\ PartRead
    /\ MessagesRecent

\* A schedule, or nothing, is a sequence of entries.
LEMMA EntriesFact ==
    /\ \A message \in Message : message.time \in 0 .. Horizon /\ message.entries \in Seq(Entry)
    /\ 0 .. Horizon \subseteq Nat /\ 0 \in 0 .. Horizon
<1>1. \A s \in Schedules \cup {<<>>} : s \in Seq(Entry)
  <2>1. <<>> \in Seq(Entry)
    OBVIOUS
  <2>2. QED
    BY <2>1, ScheduleAssumption, Zenon
<1>2. 0 .. Horizon \subseteq Nat /\ 0 \in 0 .. Horizon
  BY ScheduleAssumption
<1>3. QED
  BY <1>1, <1>2 DEF Message

\* What there is to read before anything has been read.
LEMMA NothingRead ==
    /\ IsReading(Reading(<<>>, 0, FALSE))
    /\ SubSeq(Reading(<<>>, 0, FALSE).entries, 1, Reading(<<>>, 0, FALSE).n) = <<>>
    /\ ~Reading(<<>>, 0, FALSE).whole
<1>1. <<>> \in Seq(Entry) /\ Len(<<>>) = 0 /\ SubSeq(<<>>, 1, 0) = <<>>
  OBVIOUS
<1>2. QED
  BY <1>1 DEF IsReading, Reading

LEMMA InitIInv == Init => IInv
<1> SUFFICES ASSUME Init PROVE IInv
  OBVIOUS
<1> USE DEF Init
<1>1. TypeOK
  <2>1. jobStorage \in Seq(Job) /\ Len(jobStorage) <= MaxJobs
    BY ScheduleAssumption
  <2>2. inbox \in Seq(Message) /\ Len(inbox) <= MaxInbox
    BY ScheduleAssumption
  <2>3. now \in Start .. Horizon /\ responseBuf.time \in 0 .. Horizon
    BY ScheduleAssumption
  <2>4. behind \in Int /\ trusted \in BOOLEAN
    <3>1. CASE behind = Start /\ trusted = FALSE
      <4>1. behind \in Int
        BY <3>1, ScheduleAssumption
      <4>2. QED
        BY <3>1, <4>1
    <3>2. CASE behind = 0 /\ trusted = TRUE
      BY <3>2
    <3>3. QED
      BY <3>1, <3>2
  <2>5. <<>> \in Seq(Int) /\ Len(<<>>) = 0
    OBVIOUS
  <2>6. exchange \in [Syncers -> Seq(Int)] /\ \A g \in Syncers : Len(exchange[g]) <= 1
    BY <2>5
  <2>7. QED
    BY <2>1, <2>2, <2>3, <2>4, <2>6 DEF TypeOK
<1>2. JobsOfOneResponse
  <2>1. applied.entries = <<>> /\ applied.n = 0
    BY DEF Reading
  <2>2. Rank(<<>>, 0) = 0 /\ Valid(<<>>, 0) = {}
    BY FS_EmptySet DEF Rank, Valid
  <2>3. Len(jobStorage) = 0 /\ 0 < MaxJobs
    BY ScheduleAssumption
  <2>4. QED
    BY <2>1, <2>2, <2>3 DEF JobsOfOneResponse, AreJobsOf
<1>3. ClockFollows /\ Measured
  BY DEF ClockFollows, Measured
<1>4. PartRead
  BY NothingRead DEF PartRead
<1>5. MessagesRecent
  BY DEF MessagesRecent, Fetching
<1>6. QED
  BY <1>1, <1>2, <1>3, <1>4, <1>5 DEF IInv

-----------------------------------------------------------------------------
(* The steps.                                                               *)

\* Reading a message leaves the beginning of it in responseBuf.
LEMMA HandleNextFact ==
    ASSUME IInv, HandleNext
    PROVE  IInv'
<1> USE DEF IInv
<1> DEFINE message == Head(inbox)
<1>1. /\ inbox \in Seq(Message) /\ inbox # <<>>
      /\ message \in Message /\ message = inbox[1]
      /\ Tail(inbox) \in Seq(Message) /\ Len(Tail(inbox)) = Len(inbox) - 1
      /\ \A i \in 1 .. Len(inbox) - 1 : Tail(inbox)[i] = inbox[i + 1]
  BY DEF HandleNext, TypeOK
<1>2. message.time \in 0 .. Horizon /\ message.entries \in Seq(Entry)
  BY <1>1, EntriesFact
<1>3. PICK n \in 0 .. Len(message.entries), time \in 0 .. Horizon : OnMQTTMessage(n, time)
  <2>1. CutTimes \subseteq 0 .. Horizon
    BY ScheduleAssumption
  <2>2. 0 \in 0 .. Len(message.entries)
    BY <1>2
  <2>3. QED
    BY <1>2, <2>1, <2>2 DEF HandleNext
<1>4. /\ responseBuf' = [time |-> time, entries |-> SubSeq(message.entries, 1, n)]
      /\ gotResponse' = TRUE
      /\ read' = Reading(message.entries, n, time = message.time)
  BY <1>3 DEF OnMQTTMessage
<1> HIDE DEF message
<1>5. /\ UNCHANGED <<now, clock, pc, ticked, stored, leds>>
      /\ inbox' = Tail(inbox) /\ pc \in {"acking", "waiting"}
  BY DEF HandleNext
<1>6. TypeOK'
  <2>1. inbox' \in Seq(Message) /\ Len(inbox') <= MaxInbox
    BY <1>1, <1>5, ScheduleAssumption DEF TypeOK
  <2>2. responseBuf'.time \in 0 .. Horizon /\ gotResponse' \in BOOLEAN
    BY <1>4
  <2>3. QED
    BY <1>5, <2>1, <2>2 DEF clock, stored, leds, TypeOK
<1>7. JobsOfOneResponse' /\ ClockFollows' /\ Measured'
  BY <1>5 DEF clock, stored, JobsOfOneResponse, ClockFollows, Measured
<1>8. PartRead'
  BY <1>2, <1>4, <1>5 DEF stored, PartRead, IsReading, Reading
<1>9. MessagesRecent'
  <2>1. Recent(message.time)
    BY <1>1 DEF MessagesRecent
  <2>2. \A i \in 1 .. Len(inbox') : Recent(inbox'[i].time)
    BY <1>1, <1>5 DEF MessagesRecent
  <2>3. read'.whole => responseBuf'.time = message.time
    BY <1>4 DEF Reading
  <2>4. QED
    BY <1>5, <2>1, <2>2, <2>3 DEF MessagesRecent, Recent
<1>10. QED
  BY <1>6, <1>7, <1>8, <1>9

\* The jobs become those of the message read, and the clock its time.
LEMMA FetchSucceedsFact ==
    ASSUME IInv, FetchSucceeds
    PROVE  IInv'
<1> USE DEF IInv
<1> DEFINE entries == responseBuf.entries
           n == read.n
<1>1. /\ read.entries \in Seq(Entry) /\ n \in 0 .. Len(read.entries)
      /\ entries = SubSeq(read.entries, 1, n)
  BY DEF PartRead, IsReading
<1>2. /\ entries \in Seq(Entry) /\ Len(entries) = n
      /\ \A i \in 1 .. n : entries[i] = read.entries[i]
  BY <1>1
<1> HIDE DEF entries
<1>3. /\ jobStorage' \in Seq(Job) /\ Len(jobStorage') <= MaxJobs
      /\ AreJobsOf(jobStorage', entries, n)
  BY <1>2, ParseFact DEF FetchSucceeds, entries
<1>4. AreJobsOf(jobStorage', read.entries, n)
  <2>1. \A i \in 0 .. n : Valid(entries, i) = Valid(read.entries, i)
    BY <1>2 DEF Valid
  <2>2. \A i \in 0 .. n : Rank(entries, i) = Rank(read.entries, i)
    BY <2>1 DEF Rank
  <2>3. \A i \in Valid(read.entries, n) : i \in 1 .. n
    BY DEF Valid
  <2>4. n \in 0 .. n
    BY <1>1
  <2>5. QED
    BY <1>2, <1>3, <2>1, <2>2, <2>3, <2>4 DEF AreJobsOf
<1>5. JobsOfOneResponse'
  BY <1>4 DEF JobsOfOneResponse, FetchSucceeds
<1>6. responseBuf.time \in Nat /\ now \in Nat /\ now' = now
  BY EntriesFact, ScheduleAssumption DEF TypeOK, FetchSucceeds
<1>7. behind' \in Int /\ trusted' \in BOOLEAN /\ fresh' \subseteq Syncers
      /\ ClockFollows' /\ Measured'
  <2>1. CASE responseBuf.time > 0
    <3>1. behind' = now - responseBuf.time /\ fresh' = {} /\ trusted' = read.whole
      BY <2>1, Zenon DEF FetchSucceeds
    <3>2. read.whole => Recent(responseBuf.time)
      BY DEF FetchSucceeds, MessagesRecent, Fetching
    <3>3. read.whole => now - responseBuf.time \in 0 .. 1
      BY <1>6, <2>1, <3>2 DEF Recent
    <3>4. read.whole \in BOOLEAN
      BY DEF PartRead, IsReading
    <3>5. behind' \in Int /\ (trusted' => behind' \in 0 .. 1)
      BY <1>6, <3>1, <3>3
    <3>6. QED
      BY <3>1, <3>4, <3>5 DEF ClockFollows, Measured
  <2>2. CASE ~(responseBuf.time > 0)
    <3>1. UNCHANGED <<behind, fresh, trusted, exchange>>
      BY <2>2, Zenon DEF FetchSucceeds
    <3>2. QED
      BY <3>1 DEF TypeOK, ClockFollows, Measured
  <2>3. QED
    BY <2>1, <2>2
<1>8. TypeOK'
  <2>1. inbox' \in Seq(Message) /\ Len(inbox') <= MaxInbox /\ inbox' = <<>>
    BY ScheduleAssumption DEF FetchSucceeds
  <2>2. UNCHANGED <<now, exchange, gotResponse, responseBuf, ledState, bindicatorPaused>>
        /\ pc' = "leds" /\ ticked' = FALSE
    BY DEF FetchSucceeds, buffer, leds
  <2>3. QED
    BY <1>3, <1>7, <2>1, <2>2 DEF TypeOK
<1>9. PartRead'
  BY DEF PartRead, FetchSucceeds, buffer
<1>10. MessagesRecent'
  BY DEF MessagesRecent, FetchSucceeds, Fetching
<1>11. QED
  BY <1>5, <1>7, <1>8, <1>9, <1>10

\* A message that is published now.
LEMMA PublishedFact ==
    ASSUME IInv, NEW message \in Message, message.time \in {0, now},
           pc \in {"acking", "waiting"}, Len(inbox) < MaxInbox,
           inbox' = Append(inbox, message), UNCHANGED <<now, device>>
    PROVE  IInv'
<1> USE DEF IInv, device, clock, buffer, stored, leds
<1>1. /\ inbox \in Seq(Message) /\ inbox' \in Seq(Message)
      /\ Len(inbox') = Len(inbox) + 1
      /\ inbox'[Len(inbox) + 1] = message
      /\ \A i \in 1 .. Len(inbox) : inbox'[i] = inbox[i]
  BY DEF TypeOK
<1>2. TypeOK'
  BY <1>1, ScheduleAssumption DEF TypeOK
<1>3. Recent(message.time)
  BY ScheduleAssumption DEF Recent, TypeOK
<1>4. \A i \in 1 .. Len(inbox') : Recent(inbox'[i].time)
  BY <1>1, <1>3 DEF MessagesRecent
<1>5. MessagesRecent'
  BY <1>4 DEF MessagesRecent, Recent
<1>6. QED
  BY <1>2, <1>5 DEF JobsOfOneResponse, ClockFollows, Measured, PartRead

LEMMA TickFact ==
    ASSUME IInv, Tick
    PROVE  IInv'
<1> USE DEF IInv, Tick, clock, buffer, stored, leds
<1>1. TypeOK'
  BY ScheduleAssumption DEF TypeOK
<1>2. ASSUME NEW t \in Nat, Recent(t), pc \in Fetching
      PROVE  Recent(t)'
  <2>1. ~ticked /\ ticked'
    BY <1>2 DEF Fetching
  <2>2. t = 0 \/ (t <= now /\ now - t <= 0)
    BY <1>2, <2>1 DEF Recent
  <2>3. now' = now + 1 /\ now \in Nat
    BY ScheduleAssumption DEF TypeOK
  <2>4. QED
    BY <2>1, <2>2, <2>3 DEF Recent
<1>3. MessagesRecent'
  <2>1. responseBuf.time \in Nat /\ UNCHANGED <<responseBuf, read, inbox, pc>>
    BY EntriesFact DEF TypeOK
  <2>2. \A i \in 1 .. Len(inbox) : inbox[i].time \in Nat
    BY EntriesFact DEF TypeOK
  <2>3. Len(inbox) # 0 => pc \in Fetching
    BY DEF TypeOK, Fetching
  <2>4. ticked' => pc \in Fetching
    BY DEF Fetching
  <2>5. pc \in Fetching /\ read.whole => Recent(responseBuf.time)'
    BY <1>2, <2>1 DEF MessagesRecent
  <2>6. \A i \in 1 .. Len(inbox) : Recent(inbox[i].time)'
    BY <1>2, <2>1, <2>2, <2>3 DEF MessagesRecent
  <2>7. QED
    BY <2>1, <2>4, <2>5, <2>6 DEF MessagesRecent
<1>4. QED
  BY <1>1, <1>3 DEF JobsOfOneResponse, ClockFollows, Measured, PartRead

\* The steps of main that leave messages, jobs and clock alone.
LEMMA MainFact ==
    ASSUME IInv, WakeForLEDs \/ WakeForRefresh \/ Subscribe \/ Publish \/ UpdateLEDs
    PROVE  IInv'
<1> USE DEF IInv
<1>1. UNCHANGED <<now, clock, ticked, buffer, stored, bindicatorPaused, inbox>>
  BY DEF WakeForLEDs, WakeForRefresh, Subscribe, Publish, UpdateLEDs, leds
<1>2. /\ pc' \in {"asleep", "ntp", "acking", "waiting", "leds"}
      /\ pc \in Fetching <=> pc' \in Fetching
      /\ inbox # <<>> => pc' \in {"acking", "waiting"}
      /\ ledState' \subseteq Bins
  BY DEF WakeForLEDs, WakeForRefresh, Subscribe, Publish, UpdateLEDs, Fetching, TypeOK, leds
<1> USE DEF clock, buffer, stored
<1>3. TypeOK'
  BY <1>1, <1>2 DEF TypeOK
<1>4. MessagesRecent'
  BY <1>1, <1>2 DEF MessagesRecent, Recent
<1>5. QED
  BY <1>1, <1>3, <1>4 DEF JobsOfOneResponse, ClockFollows, Measured, PartRead

\* An offset is measured on the clock as it is, and right only for that one.
LEMMA SyncFact ==
    ASSUME IInv, NEW g \in Syncers, DoNTP(g) \/ AdjustTimeOffset(g) \/ SyncFails(g)
    PROVE  IInv'
<1> USE DEF IInv
<1>1. UNCHANGED <<now, ticked, buffer, stored, leds, inbox>>
  BY DEF DoNTP, AdjustTimeOffset, SyncFails
<1>2. pc' = pc \/ (pc = "ntp" /\ pc' = "ready")
  BY DEF DoNTP, AdjustTimeOffset, SyncFails, Syncing, Return
<1>3. /\ behind' \in Int /\ trusted' \in BOOLEAN /\ fresh' \subseteq Syncers
      /\ exchange' \in [Syncers -> Seq(Int)]
      /\ \A h \in Syncers : Len(exchange'[h]) <= 1
      /\ ClockFollows' /\ Measured'
  <2>1. /\ behind \in Int /\ exchange \in [Syncers -> Seq(Int)]
        /\ \A h \in Syncers : Len(exchange[h]) <= 1
        /\ fresh \subseteq Syncers /\ trusted \in BOOLEAN
    BY DEF TypeOK
  <2>2. /\ <<>> \in Seq(Int) /\ Len(<<>>) = 0
        /\ <<behind>> \in Seq(Int) /\ Len(<<behind>>) = 1
    BY <2>1
  <2>3. CASE DoNTP(g)
    <3>1. /\ exchange' = [exchange EXCEPT ![g] = <<behind>>]
          /\ fresh' = fresh \cup {g} /\ UNCHANGED <<behind, trusted>>
      BY <2>3 DEF DoNTP
    <3>2. \A h \in Syncers : exchange'[h] = IF h = g THEN <<behind>> ELSE exchange[h]
      BY <2>1, <3>1
    <3>3. exchange' \in [Syncers -> Seq(Int)] /\ \A h \in Syncers : Len(exchange'[h]) <= 1
      BY <2>1, <2>2, <3>1, <3>2
    <3>4. Measured'
      BY <2>1, <3>1, <3>2 DEF Measured
    <3>5. QED
      BY <2>1, <3>1, <3>3, <3>4 DEF ClockFollows
  <2>4. CASE AdjustTimeOffset(g)
    <3>1. /\ exchange' = [exchange EXCEPT ![g] = <<>>] /\ exchange[g] # <<>>
          /\ behind' = behind - exchange[g][1]
          /\ fresh' = {} /\ trusted' = (g \in fresh)
      BY <2>4 DEF AdjustTimeOffset
    <3>2. exchange[g] \in Seq(Int) /\ exchange[g][1] \in Int
      BY <2>1, <3>1
    <3>3. behind' \in Int
      BY <2>1, <3>1, <3>2
    <3>4. exchange' \in [Syncers -> Seq(Int)] /\ \A h \in Syncers : Len(exchange'[h]) <= 1
      BY <2>1, <2>2, <3>1
    <3>5. ClockFollows'
      <4>1. g \in fresh => exchange[g] = <<behind>>
        BY DEF Measured
      <4>2. <<behind>>[1] = behind
        OBVIOUS
      <4>3. g \in fresh => behind' = 0
        <5>1. SUFFICES ASSUME g \in fresh PROVE behind' = 0
          OBVIOUS
        <5>2. exchange[g][1] = behind
          BY <4>1, <4>2, <5>1
        <5>3. behind' = behind - behind /\ behind \in Int
          BY <2>1, <3>1, <5>2
        <5>4. QED
          BY <5>3
      <4>4. trusted' => g \in fresh
        BY <3>1, Zenon
      <4>5. trusted' => behind' \in 0 .. 1
        BY <4>3, <4>4
      <4>6. QED
        BY <4>5 DEF ClockFollows
    <3>6. Measured' /\ trusted' \in BOOLEAN
      BY <3>1 DEF Measured
    <3>7. QED
      BY <3>1, <3>3, <3>4, <3>5, <3>6
  <2>5. CASE SyncFails(g)
    <3>1. /\ exchange' = [exchange EXCEPT ![g] = <<>>]
          /\ fresh' = fresh \ {g} /\ UNCHANGED <<behind, trusted>>
      BY <2>5 DEF SyncFails
    <3>2. exchange' \in [Syncers -> Seq(Int)] /\ \A h \in Syncers : Len(exchange'[h]) <= 1
      BY <2>1, <2>2, <3>1
    <3>3. Measured'
      BY <2>1, <3>1 DEF Measured
    <3>4. QED
      BY <2>1, <3>1, <3>2, <3>3 DEF ClockFollows
  <2>6. QED
    BY <2>3, <2>4, <2>5
<1> USE DEF buffer, stored, leds
<1>4. TypeOK'
  BY <1>1, <1>2, <1>3 DEF TypeOK
<1>5. MessagesRecent'
  BY <1>1, <1>2 DEF MessagesRecent, Recent, Fetching
<1>6. QED
  BY <1>1, <1>3, <1>4, <1>5 DEF JobsOfOneResponse, PartRead

\* A fetch begins with nothing read.
LEMMA BeginFact ==
    ASSUME IInv, BeginFetch
    PROVE  IInv'
<1> USE DEF IInv, BeginFetch, clock, stored, leds
<1>1. TypeOK'
  BY EntriesFact DEF TypeOK
<1>2. PartRead'
  BY NothingRead DEF PartRead
<1>3. MessagesRecent'
  BY NothingRead DEF MessagesRecent, Fetching, Recent
<1>4. QED
  BY <1>1, <1>2, <1>3 DEF JobsOfOneResponse, ClockFollows, Measured

\* A fetch that fails changes neither jobs nor clock.
LEMMA FetchFailsFact ==
    ASSUME IInv, FetchFails
    PROVE  IInv'
<1> USE DEF IInv, clock, buffer, stored, leds
<1>1. inbox' \in Seq(Message) /\ Len(inbox') <= MaxInbox /\ inbox' = <<>>
  BY ScheduleAssumption DEF FetchFails
<1>2. TypeOK'
  BY <1>1 DEF FetchFails, TypeOK
<1>3. MessagesRecent'
  BY <1>1 DEF FetchFails, MessagesRecent, Fetching
<1>4. QED
  BY <1>2, <1>3 DEF FetchFails, JobsOfOneResponse, ClockFollows, Measured, PartRead

\* Console and OTA server.
LEMMA OthersFact ==
    ASSUME IInv, \/ \E b \in Bins : ToggleLED(b)
                 \/ \E p \in BOOLEAN : SetBindicatorPaused(p)
    PROVE  IInv'
<1> USE DEF IInv, clock, buffer, stored
<1>1. UNCHANGED <<now, clock, pc, ticked, buffer, stored, inbox>>
  BY DEF ToggleLED, SetBindicatorPaused
<1>2. ledState' \subseteq Bins /\ bindicatorPaused' \in BOOLEAN
  BY DEF ToggleLED, SetBindicatorPaused, TypeOK
<1>3. TypeOK'
  BY <1>1, <1>2 DEF TypeOK
<1>4. QED
  BY <1>1, <1>3
  DEF JobsOfOneResponse, ClockFollows, Measured, PartRead, MessagesRecent, Recent

LEMMA ReplyFact ==
    ASSUME IInv, Reply \/ EmptyMessage
    PROVE  IInv'
<1>1. now \in 0 .. Horizon
  BY ScheduleAssumption DEF IInv, TypeOK
<1>2. CASE Reply
  <2>1. PICK s \in Schedules : inbox' = Append(inbox, [time |-> now, entries |-> s])
    BY <1>2 DEF Reply
  <2>2. [time |-> now, entries |-> s] \in Message
    BY <1>1 DEF Message
  <2>3. QED
    BY <1>2, <2>1, <2>2, PublishedFact DEF Reply
<1>3. CASE EmptyMessage
  <2>1. [time |-> 0, entries |-> <<>>] \in Message
    BY EntriesFact DEF Message
  <2>2. QED
    BY <1>3, <2>1, PublishedFact DEF EmptyMessage
<1>4. QED
  BY <1>2, <1>3

LEMMA NextIInv == IInv /\ [Next]_vars => IInv'
<1> SUFFICES ASSUME IInv, [Next]_vars PROVE IInv'
  OBVIOUS
<1>1. CASE Main
  BY <1>1, MainFact, BeginFact, HandleNextFact, FetchFailsFact, FetchSucceedsFact
  DEF Main
<1>2. CASE UNCHANGED vars
  BY <1>2 DEF vars, device, clock, buffer, stored, leds, IInv, TypeOK,
              JobsOfOneResponse, ClockFollows, Measured, PartRead, MessagesRecent, Recent
<1>3. QED
  BY <1>1, <1>2, SyncFact, OthersFact, TickFact, ReplyFact DEF Next

LEMMA Inductive == Spec => []IInv
BY InitIInv, NextIInv, PTL DEF Spec

-----------------------------------------------------------------------------
(* The theorems.                                                            *)

\* The jobs fit their storage, have dates and bins, and nothing is unread outside a
\* fetch (mqtt.go 63-65, parse.go 32-63).
THEOREM TypeCorrect == Spec => []TypeOK
BY Inductive, PTL DEF IInv

\* Whatever arrives, in whatever pieces and for whichever unit, the jobs are the first
\* ones of what was read of the response parsed last, and failed fetches leave them
\* alone (parse.go 11-75, mqtt.go 180-189, 205-220).
THEOREM OneResponse == Spec => []JobsOfOneResponse
BY Inductive, PTL DEF IInv

\* A clock that was set last by a whole timestamp, or by an NTP exchange during which
\* nobody else set it, is behind by a fetch at most, whoever syncs when (mqtt.go 191-199,
\* main.go 578-594, console.go 591).
THEOREM ClockIsClose == Spec => []ClockFollows
BY Inductive, PTL DEF IInv

\* The windows of the code are the half days of the README.
LEMMA WindowFact ==
    ASSUME NEW t \in Int, NEW d \in Nat
    PROVE  t > 4 * d - 2 /\ t < 4 * d + 2
              <=> \/ t % 4 < 2 /\ d = t \div 4
                  \/ t % 4 > 2 /\ d = t \div 4 + 1
<1> DEFINE q == t \div 4
           r == t % 4
<1>1. q \in Int
  OBVIOUS
<1>2. t = 4 * q + r
  OBVIOUS
<1>3. r \in Int /\ 0 <= r /\ r <= 3
  OBVIOUS
<1> HIDE DEF q, r
<1>4. r = 0 \/ r = 1 \/ r = 2 \/ r = 3
  BY <1>3
<1>5. (t > 4 * d - 2 /\ t < 4 * d + 2)
         <=> \/ r < 2 /\ d = q
             \/ r > 2 /\ d = q + 1
  BY <1>1, <1>2, <1>4
<1>6. QED
  BY <1>5 DEF q, r

\* An update outside an OTA session leaves the LEDs as the README promises, for every
\* schedule, at every instant and after any history (bindicator.go 136-211).
THEOREM LedsFollow == Spec => LedsFollowSchedule
<1>1. ASSUME IInv, UpdateLEDs, ~bindicatorPaused
      PROVE  LedsRight'
  <2>1. Clock \in Int
    BY <1>1, ScheduleAssumption DEF IInv, TypeOK, Clock
  <2>2. \A i \in 1 .. Len(jobStorage) : jobStorage[i] \in Job
    BY <1>1 DEF IInv, TypeOK
  <2>3. ASSUME NEW b \in Bins
        PROVE  (\E i \in 1 .. Len(jobStorage) :
                   jobStorage[i].bin = b /\ InWindow(jobStorage[i], Clock)) <=> Due(b)
    <3> DEFINE Collected(d) == [day |-> d, bin |-> b] \in ToSet(jobStorage)
    <3>1. \A d : Collected(d) <=> \E i \in 1 .. Len(jobStorage) :
                                    jobStorage[i].bin = b /\ jobStorage[i].day = d
      <4>1. ToSet(jobStorage) = {jobStorage[i] : i \in 1 .. Len(jobStorage)}
        BY <1>1 DEF ToSet, IInv, TypeOK
      <4>2. \A d : \A i \in 1 .. Len(jobStorage) :
               jobStorage[i] = [day |-> d, bin |-> b]
                 <=> jobStorage[i].bin = b /\ jobStorage[i].day = d
        BY <2>2 DEF Job
      <4>3. QED
        BY <4>1, <4>2, Zenon
    <3>2. \A i \in 1 .. Len(jobStorage) :
             InWindow(jobStorage[i], Clock)
                <=> \/ Clock % 4 < 2 /\ jobStorage[i].day = Clock \div 4
                    \/ Clock % 4 > 2 /\ jobStorage[i].day = Clock \div 4 + 1
      BY <2>1, <2>2, WindowFact DEF InWindow, Midnight, Noon, Job
    <3>3. Due(b) <=> \/ Clock % 4 < 2 /\ Collected(Clock \div 4)
                     \/ Clock % 4 > 2 /\ Collected(Clock \div 4 + 1)
      BY DEF Due, Noon
    <3> HIDE DEF Collected
    <3>4. QED
      BY <3>1, <3>2, <3>3
  <2>4. ledState' = {b \in Bins : Due(b)}
    BY <1>1, <2>3 DEF UpdateLEDs
  <2>5. \A b : Due(b)' <=> Due(b)
    BY <1>1 DEF UpdateLEDs, Due, Clock, clock, stored
  <2>6. QED
    BY <2>4, <2>5 DEF LedsRight
<1>2. IInv /\ [Next]_vars => [UpdateLEDs /\ ~bindicatorPaused => LedsRight']_vars
  BY <1>1
<1>3. QED
  BY <1>2, Inductive, PTL DEF Spec, LedsFollowSchedule
=============================================================================
