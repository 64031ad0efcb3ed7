-------------------------- MODULE WakeCycleProofs ----------------------------
(****************************************************************************)
(* Theorems about WakeCycle, for every value of its constants.              *)
(*                                                                          *)
(* The ages of the LED pass and of the last good refresh grow with main's     *)
(* blocking calls, so neither bound is inductive: Within says how much of the *)
(* longest cycle may be used up at each location of main, and IInv charges a  *)
(* whole cycle to every failed refresh.                                      *)
(****************************************************************************)
EXTENDS WakeCycle, TLAPS

\* How old age may be at each location of main, over a base it had at the last
\* LED pass.
Within(age, base) ==
    /\ pc \in {"start", "ntp", "received"} => age <= base + LongestNap
    /\ pc = "fetch" =>
          age <= base + LongestNap + NtpMax + attempt * LongestTry
    /\ pc = "backoff" =>
          age + MqttMaxBackoff
            <= base + LongestNap + NtpMax + attempt * LongestTry
    /\ pc \in {"sleep", "select"} => age <= base + elapsed

\* A schedule no refresh has failed for is at most the refresh interval old
\* when main goes to sleep; every failed refresh adds a cycle.
Base == ScheduleRefreshInterval + consecutiveFailures * LongestCycle

LedBudget ==
    /\ Within(sinceLeds, 0)
    /\ pc = "leds" => sinceLeds <= LongestCycle
    /\ pc \in {"boot", "fatal"} => sinceLeds = 0

RefreshBudget ==
    /\ Within(sinceSuccess, Base)
    /\ pc = "leds" => sinceSuccess <= Base
    /\ pc \in {"boot", "fatal"} => sinceSuccess = 0

\* The two timestamps agree once there has been a fetch.
FetchAge == sinceFetch = sinceSuccess \/ sinceFetch = Never

\* An unhealthy device does not outlive the first backoff.
Doomed ==
    /\ systemHealthy => consecutiveFailures < MaxConsecutiveFailures
    /\ ~systemHealthy /\ pc = "fetch" => attempt = 0

\* main blocks in the select only while sleep is left.
Asleep == pc = "select" => elapsed < duration

IInv ==
    /\ TypeOK
    /\ Asleep
    /\ LedBudget
    /\ RefreshBudget
    /\ FetchAge
    /\ Doomed

-----------------------------------------------------------------------------
(* Lemmas on the helpers and on the derived intervals.                      *)

\* A saturated age never exceeds the exact one, and stays in its range.
LEMMA OlderFact ==
    ASSUME NEW age \in 0 .. AgeCap, NEW d \in Nat
    PROVE  /\ Older(age, d) \in 0 .. AgeCap
           /\ Older(age, d) <= age + d
           /\ age = AgeCap => Older(age, d) = AgeCap
BY IntervalsAssumption DEF Older, Lesser

\* The derived intervals are natural numbers.
LEMMA IntervalFact ==
    /\ LongestNap \in Nat
    /\ LongestTry \in Nat
    /\ MqttMaxRetries * LongestTry \in Nat
    /\ LongestRefresh \in Nat
    /\ LongestCycle \in Nat
    /\ LongestRefresh = NtpMax + MqttMaxRetries * LongestTry + FetchMax
    /\ LongestCycle = LongestRefresh + LongestNap
    /\ LongestTry = FetchMax + MqttMaxBackoff
    /\ LongestNap = LongestSleep + CheckInterval
<1>1. LongestTry \in Nat
  BY IntervalsAssumption, RetryAssumption DEF LongestTry
<1>2. MqttMaxRetries * LongestTry \in Nat
  BY <1>1, RetryAssumption
<1>3. QED
  BY <1>1, <1>2, IntervalsAssumption
  DEF LongestNap, LongestTry, LongestRefresh, LongestCycle

\* A product with one factor more, and with a larger factor.
LEMMA ProductFact ==
    ASSUME NEW n \in Nat, NEW k \in Nat
    PROVE  /\ n * k \in Nat
           /\ (n + 1) * k = n * k + k
           /\ \A m \in Nat : n <= m => n * k <= m * k
OBVIOUS

\* What d ticks do to the three ages.
LEMMA AgeFact ==
    ASSUME TypeOK, NEW d \in Nat, Age(d)
    PROVE  /\ sinceFetch' \in 0 .. AgeCap
           /\ sinceSuccess' \in 0 .. AgeCap
           /\ sinceLeds' \in 0 .. AgeCap
           /\ owedFor' \in 0 .. AgeCap
           /\ sinceSuccess' <= sinceSuccess + d
           /\ sinceLeds' <= sinceLeds + d
           /\ owedFor' <= owedFor + d
           /\ ~owed => owedFor' = 0
           /\ FetchAge => FetchAge'
<1>1. /\ sinceFetch \in 0 .. AgeCap
      /\ sinceSuccess \in 0 .. AgeCap
      /\ sinceLeds \in 0 .. AgeCap
      /\ owedFor \in 0 .. AgeCap
      /\ 0 \in 0 .. AgeCap
  BY IntervalsAssumption DEF TypeOK
<1>2. /\ sinceFetch' = Older(sinceFetch, d)
      /\ sinceSuccess' = Older(sinceSuccess, d)
      /\ sinceLeds' = Older(sinceLeds, d)
      /\ owedFor' = IF owed THEN Older(owedFor, d) ELSE 0
  BY DEF Age
<1>3. FetchAge => FetchAge'
  BY <1>1, <1>2, OlderFact DEF FetchAge, Never
<1>4. /\ owedFor' \in 0 .. AgeCap
      /\ owedFor' <= owedFor + d
      /\ ~owed => owedFor' = 0
  <2>1. CASE owed
    BY <1>1, <1>2, <2>1, OlderFact
  <2>2. CASE ~owed
    BY <1>1, <1>2, <2>2
  <2>3. QED
    BY <2>1, <2>2
<1>5. QED
  BY <1>1, <1>2, <1>3, <1>4, OlderFact

-----------------------------------------------------------------------------
(* The invariant.                                                           *)

\* A device that has just been reset has spent none of its budgets.
LEMMA InitInv == Init => IInv
<1> SUFFICES ASSUME Init PROVE IInv
  OBVIOUS
<1>1. TypeOK
  <2>1. pc \in Locations
    BY DEF Init, Locations
  <2>2. /\ sinceFetch \in 0 .. AgeCap
        /\ sinceSuccess \in 0 .. AgeCap
        /\ sinceLeds \in 0 .. AgeCap
        /\ owedFor \in 0 .. AgeCap
        /\ duration \in 0 .. LongestSleep
        /\ elapsed \in 0 .. LongestSleep + CheckInterval
    BY IntervalsAssumption DEF Init, Never
  <2>3. /\ consecutiveFailures \in 0 .. MaxConsecutiveFailures
        /\ attempt \in 0 .. MqttMaxRetries
        /\ mqttBackoff \in MqttMinBackoff .. MqttMaxBackoff
        /\ unfed \in 0 .. WatchdogTimeout
    BY RetryAssumption DEF Init
  <2>4. systemHealthy \in BOOLEAN /\ forceScheduleRefresh \in BOOLEAN
    BY DEF Init
  <2>5. owed \in BOOLEAN
    BY DEF Init
  <2>6. refreshChan \in 0 .. 1
    BY DEF Init
  <2>7. debugSleepDuration \in {0} \cup DebugSleeps
    BY DEF Init
  <2>8. QED
    BY <2>1, <2>2, <2>3, <2>4, <2>5, <2>6, <2>7 DEF TypeOK, Locations
<1>2. LedBudget /\ RefreshBudget
  BY DEF Init, LedBudget, RefreshBudget, Within
<1>3. FetchAge /\ Doomed /\ Asleep
  BY RetryAssumption DEF Init, FetchAge, Doomed, Asleep
<1>4. QED
  BY <1>1, <1>2, <1>3 DEF IInv

\* Every reset starts from those values again.
LEMMA ResetInv == Reset => IInv'
<1> SUFFICES ASSUME Reset PROVE IInv'
  OBVIOUS
<1>1. TypeOK'
  <2>1. pc' \in Locations
    BY DEF Reset, Locations
  <2>2. /\ sinceFetch' \in 0 .. AgeCap
        /\ sinceSuccess' \in 0 .. AgeCap
        /\ sinceLeds' \in 0 .. AgeCap
        /\ owedFor' \in 0 .. AgeCap
        /\ duration' \in 0 .. LongestSleep
        /\ elapsed' \in 0 .. LongestSleep + CheckInterval
    BY IntervalsAssumption DEF Reset, Never
  <2>3. /\ consecutiveFailures' \in 0 .. MaxConsecutiveFailures
        /\ attempt' \in 0 .. MqttMaxRetries
        /\ mqttBackoff' \in MqttMinBackoff .. MqttMaxBackoff
        /\ unfed' \in 0 .. WatchdogTimeout
    BY RetryAssumption DEF Reset
  <2>4. systemHealthy' \in BOOLEAN /\ forceScheduleRefresh' \in BOOLEAN
    BY DEF Reset
  <2>5. owed' \in BOOLEAN
    BY DEF Reset
  <2>6. refreshChan' \in 0 .. 1
    BY DEF Reset
  <2>7. debugSleepDuration' \in {0} \cup DebugSleeps
    BY DEF Reset
  <2>8. QED
    BY <2>1, <2>2, <2>3, <2>4, <2>5, <2>6, <2>7 DEF TypeOK, Locations
<1>2. LedBudget' /\ RefreshBudget'
  BY DEF Reset, LedBudget, RefreshBudget, Within
<1>3. FetchAge' /\ Doomed' /\ Asleep'
  BY RetryAssumption DEF Reset, FetchAge, Doomed, Asleep
<1>4. QED
  BY <1>1, <1>2, <1>3 DEF IInv

\* Boot, the decision at the loop's head and the console's commands take no
\* time.
LEMMA UntimedInv ==
    ASSUME IInv,
           \/ BootOk \/ BootFails \/ CycleStart \/ SleepCheck \/ SleepRefresh
           \/ RequestRefresh \/ \E dur \in DebugSleeps : SetDebugSleep(dur)
    PROVE  IInv'
<1> USE IntervalFact DEF IInv
<1>1. CASE BootOk
  <2>1. TypeOK'
    BY <1>1, IntervalsAssumption
    DEF BootOk, TypeOK, Locations, Running, health, requests, retry, nap, Never
  <2>2. LedBudget' /\ RefreshBudget'
    BY <1>1, <2>1, IntervalsAssumption, ProductFact
    DEF BootOk, TypeOK, LedBudget, RefreshBudget, Within, Base, health, retry, nap
  <2>3. FetchAge' /\ Doomed' /\ Asleep'
    BY <1>1 DEF BootOk, FetchAge, Doomed, Asleep, health, retry, nap
  <2>4. QED
    BY <2>1, <2>2, <2>3
<1>2. CASE BootFails
  <2>1. TypeOK'
    BY <1>2
    DEF BootFails, TypeOK, Locations, Running, ages, requests, retry, nap
  <2>2. LedBudget' /\ RefreshBudget'
    BY <1>2
    DEF BootFails, LedBudget, RefreshBudget, Within, ages
  <2>3. FetchAge' /\ Doomed' /\ Asleep'
    BY <1>2 DEF BootFails, FetchAge, Doomed, Asleep, ages, nap
  <2>4. QED
    BY <2>1, <2>2, <2>3
<1>3. CASE CycleStart
  <2>1. TypeOK'
    <3>1. pc' \in Locations
      BY <1>3 DEF CycleStart, Locations, Running
    <3>2. owedFor' \in 0 .. AgeCap
      BY <1>3, IntervalsAssumption DEF CycleStart, TypeOK
    <3>3. forceScheduleRefresh' \in BOOLEAN /\ owed' \in BOOLEAN
      BY <1>3 DEF CycleStart, TypeOK
    <3>4. QED
      BY <1>3, <3>1, <3>2, <3>3
      DEF CycleStart, TypeOK, health, retry, nap
  <2>2. LedBudget'
    BY <1>3, <2>1, IntervalsAssumption
    DEF CycleStart, LedBudget, Within, TypeOK, ages, retry, nap
  <2>3. RefreshBudget'
    <3>1. consecutiveFailures * LongestCycle \in Nat
      BY ProductFact DEF TypeOK
    <3>2. ~NeedsScheduleRefresh => sinceSuccess <= Base
      BY <3>1, IntervalsAssumption
      DEF NeedsScheduleRefresh, FetchAge, Never, TypeOK, Base
    <3>3. QED
      BY <1>3, <3>2
      DEF CycleStart, RefreshBudget, Within, Base, ages, health, retry, nap
  <2>4. FetchAge' /\ Doomed' /\ Asleep'
    BY <1>3 DEF CycleStart, FetchAge, Doomed, Asleep, ages, health, retry, nap
  <2>5. QED
    BY <2>1, <2>2, <2>3, <2>4
<1>4. CASE SleepCheck
  <2>1. TypeOK'
    BY <1>4
    DEF SleepCheck, TypeOK, Locations, Running, ages, health, retry, nap
  <2>2. LedBudget'
    BY <1>4, IntervalsAssumption
    DEF SleepCheck, LedBudget, Within, TypeOK, ages, retry, nap
  <2>3. RefreshBudget'
    <3>1. Base \in Nat
      BY ProductFact, IntervalsAssumption DEF TypeOK, Base
    <3>2. Base' = Base
      BY <1>4 DEF SleepCheck, Base, health
    <3>3. QED
      BY <1>4, <3>1, <3>2, IntervalsAssumption
      DEF SleepCheck, RefreshBudget, Within, TypeOK, ages, retry, nap
  <2>4. FetchAge' /\ Doomed' /\ Asleep'
    BY <1>4 DEF SleepCheck, FetchAge, Doomed, Asleep, ages, health, retry, nap
  <2>5. QED
    BY <2>1, <2>2, <2>3, <2>4
<1>5. CASE SleepRefresh
  <2>1. TypeOK'
    BY <1>5
    DEF SleepRefresh, TypeOK, Locations, Running, ages, health, retry, nap
  <2>2. LedBudget' /\ RefreshBudget'
    BY <1>5
    DEF SleepRefresh, LedBudget, RefreshBudget, Within, Base, ages, health,
        retry, nap
  <2>3. FetchAge' /\ Doomed' /\ Asleep'
    BY <1>5 DEF SleepRefresh, FetchAge, Doomed, Asleep, ages, health, retry, nap
  <2>4. QED
    BY <2>1, <2>2, <2>3
<1>6. CASE RequestRefresh
  <2>1. TypeOK'
    BY <1>6
    DEF RequestRefresh, TypeOK, Locations, Running, ages, health, retry, nap
  <2>2. LedBudget'
    BY <1>6, IntervalsAssumption
    DEF RequestRefresh, LedBudget, Within, TypeOK, Running, ages, retry, nap
  <2>3. RefreshBudget'
    <3>1. Base \in Nat
      BY ProductFact, IntervalsAssumption DEF TypeOK, Base
    <3>2. Base' = Base
      BY <1>6 DEF RequestRefresh, Base, health
    <3>3. QED
      BY <1>6, <3>1, <3>2, IntervalsAssumption
      DEF RequestRefresh, RefreshBudget, Within, TypeOK, Running, ages, retry, nap
  <2>4. FetchAge' /\ Doomed' /\ Asleep'
    BY <1>6 DEF RequestRefresh, FetchAge, Doomed, Asleep, ages, health, retry, nap
  <2>5. QED
    BY <2>1, <2>2, <2>3, <2>4
<1>7. ASSUME NEW dur \in DebugSleeps, SetDebugSleep(dur)
      PROVE  IInv'
  <2>1. TypeOK'
    BY <1>7, IntervalsAssumption
    DEF SetDebugSleep, TypeOK, ages, health, requests, retry, nap
  <2>2. LedBudget' /\ RefreshBudget'
    BY <1>7
    DEF SetDebugSleep, LedBudget, RefreshBudget, Within, Base, ages, health,
        retry, nap
  <2>3. FetchAge' /\ Doomed' /\ Asleep'
    BY <1>7 DEF SetDebugSleep, FetchAge, Doomed, Asleep, ages, health, retry, nap
  <2>4. QED
    BY <2>1, <2>2, <2>3
<1>8. QED
  BY <1>1, <1>2, <1>3, <1>4, <1>5, <1>6, <1>7

\* A blocking step leaves the hardware watchdog within its period, and lets an
\* unhealthy system block for no longer than that.
LEMMA ElapseFact ==
    ASSUME TypeOK, NEW d \in Nat, Elapse(d)
    PROVE  /\ unfed' \in 0 .. WatchdogTimeout
           /\ ~systemHealthy => d <= WatchdogTimeout
BY RetryAssumption DEF TypeOK, Elapse

\* The NTP exchange is charged to the refresh it precedes.
LEMMA NtpInv ==
    ASSUME IInv, NEW d \in 0 .. NtpMax, NtpSync(d)
    PROVE  IInv'
<1> USE IntervalFact DEF IInv
<1>1. d \in Nat /\ d <= NtpMax
  BY IntervalsAssumption
<1>2. TypeOK'
  BY <1>1, AgeFact, ElapseFact, RetryAssumption
  DEF NtpSync, TypeOK, Locations, Running, health, requests, nap
<1>3. attempt' = 0 /\ attempt' * LongestTry = 0
  BY DEF NtpSync
<1>4. LedBudget'
  BY <1>1, <1>2, <1>3, AgeFact, IntervalsAssumption
  DEF NtpSync, LedBudget, Within, TypeOK
<1>5. RefreshBudget'
  <2>1. Base \in Nat /\ Base' = Base
    BY ProductFact, IntervalsAssumption DEF TypeOK, Base, NtpSync, health
  <2>2. QED
    BY <1>1, <1>2, <1>3, <2>1, AgeFact, IntervalsAssumption
    DEF NtpSync, RefreshBudget, Within, TypeOK
<1>6. FetchAge' /\ Doomed' /\ Asleep'
  BY <1>1, <1>3, AgeFact DEF NtpSync, Doomed, Asleep, health, nap
<1>7. QED
  BY <1>2, <1>4, <1>5, <1>6

\* A failed attempt and the backoff after it are one LongestTry; an unhealthy
\* system is reset during its first backoff.
LEMMA FetchFailsInv ==
    ASSUME IInv, NEW d \in 0 .. FetchMax, FetchFails(d)
    PROVE  IInv'
<1> USE IntervalFact DEF IInv
<1>1. d \in Nat /\ d <= FetchMax
  BY IntervalsAssumption
<1>2. TypeOK'
  BY <1>1, AgeFact, ElapseFact, RetryAssumption
  DEF FetchFails, TypeOK, Locations, Running, health, requests, nap
<1>3. /\ attempt \in Nat
      /\ attempt * LongestTry \in Nat
      /\ attempt' * LongestTry = attempt * LongestTry + LongestTry
  BY ProductFact, RetryAssumption DEF FetchFails, TypeOK
<1>4. LedBudget'
  <2>1. sinceLeds' + MqttMaxBackoff
          <= LongestNap + NtpMax + (attempt * LongestTry + LongestTry)
    BY <1>1, <1>3, AgeFact, IntervalsAssumption, RetryAssumption
    DEF FetchFails, LedBudget, Within, TypeOK
  <2>2. sinceLeds' + MqttMaxBackoff
          <= 0 + LongestNap + NtpMax + attempt' * LongestTry
    BY <1>1, <1>3, <2>1, IntervalsAssumption
  <2>3. QED
    BY <2>2 DEF FetchFails, LedBudget, Within
<1>5. RefreshBudget'
  <2>1. Base \in Nat /\ Base' = Base
    BY ProductFact, IntervalsAssumption DEF TypeOK, Base, FetchFails, health
  <2>2. sinceSuccess' + MqttMaxBackoff
          <= Base + LongestNap + NtpMax + (attempt * LongestTry + LongestTry)
    BY <1>1, <1>3, <2>1, AgeFact, IntervalsAssumption, RetryAssumption
    DEF FetchFails, RefreshBudget, Within, TypeOK
  <2>3. sinceSuccess' + MqttMaxBackoff
          <= Base' + LongestNap + NtpMax + attempt' * LongestTry
    BY <1>3, <2>1, <2>2
  <2>4. QED
    BY <2>3 DEF FetchFails, RefreshBudget, Within
<1>6. FetchAge' /\ Doomed' /\ Asleep'
  BY <1>1, AgeFact DEF FetchFails, Doomed, Asleep, health, nap
<1>7. QED
  BY <1>2, <1>4, <1>5, <1>6

\* A backoff is charged to the attempt it follows.
LEMMA BackoffInv ==
    ASSUME IInv, BackoffSleep
    PROVE  IInv'
<1> USE IntervalFact DEF IInv
<1>1. mqttBackoff \in Nat /\ mqttBackoff <= MqttMaxBackoff
  BY RetryAssumption DEF TypeOK
<1>2. TypeOK'
  <2>1. mqttBackoff' \in MqttMinBackoff .. MqttMaxBackoff
    BY <1>1, RetryAssumption DEF BackoffSleep, Lesser, TypeOK
  <2>2. QED
    BY <1>1, <2>1, AgeFact, ElapseFact
    DEF BackoffSleep, TypeOK, Locations, Running, health, requests, nap
<1>3. attempt' = attempt /\ attempt * LongestTry \in Nat
  BY ProductFact, RetryAssumption DEF BackoffSleep, TypeOK
<1>4. LedBudget'
  BY <1>1, <1>2, <1>3, AgeFact, IntervalsAssumption, RetryAssumption
  DEF BackoffSleep, LedBudget, Within, TypeOK
<1>5. RefreshBudget'
  <2>1. Base \in Nat /\ Base' = Base
    BY ProductFact, IntervalsAssumption DEF TypeOK, Base, BackoffSleep, health
  <2>2. QED
    BY <1>1, <1>2, <1>3, <2>1, AgeFact, IntervalsAssumption, RetryAssumption
    DEF BackoffSleep, RefreshBudget, Within, TypeOK
<1>6. systemHealthy
  BY <1>1, ElapseFact, RetryAssumption DEF BackoffSleep, TypeOK
<1>7. FetchAge' /\ Doomed' /\ Asleep'
  BY <1>1, <1>6, AgeFact DEF BackoffSleep, Doomed, Asleep, health, nap
<1>8. QED
  BY <1>2, <1>4, <1>5, <1>7

\* The last attempt: the cycle's whole budget is moved to the failure count.
LEMMA RefreshFailsInv ==
    ASSUME IInv, NEW d \in 0 .. FetchMax, RefreshFails(d)
    PROVE  IInv'
<1> USE IntervalFact DEF IInv
<1>1. d \in Nat /\ d <= FetchMax
  BY IntervalsAssumption
<1>2. systemHealthy
  BY RetryAssumption DEF RefreshFails, Doomed
<1>3. /\ consecutiveFailures \in Nat
      /\ consecutiveFailures < MaxConsecutiveFailures
      /\ consecutiveFailures' = consecutiveFailures + 1
  BY <1>2 DEF RefreshFails, Doomed, TypeOK
<1>4. systemHealthy' \in BOOLEAN
  BY DEF RefreshFails, CheckSystemHealth
<1>5. TypeOK'
  BY <1>1, <1>3, <1>4, AgeFact, ElapseFact, RetryAssumption
  DEF RefreshFails, TypeOK, Locations, Running, requests, retry, nap
<1>6. attempt = MqttMaxRetries /\ attempt * LongestTry = MqttMaxRetries * LongestTry
  BY DEF RefreshFails
<1>7. LedBudget'
  BY <1>1, <1>5, <1>6, AgeFact, IntervalsAssumption
  DEF RefreshFails, LedBudget, Within, TypeOK
<1>8. RefreshBudget'
  <2>1. Base \in Nat /\ Base' = Base + LongestCycle
    BY <1>3, ProductFact, IntervalsAssumption DEF Base
  <2>2. QED
    BY <1>1, <1>5, <1>6, <2>1, AgeFact, IntervalsAssumption
    DEF RefreshFails, RefreshBudget, Within, TypeOK
<1>9. FetchAge' /\ Doomed' /\ Asleep'
  BY <1>1, <1>3, AgeFact DEF RefreshFails, CheckSystemHealth, Doomed, Asleep, nap
<1>10. QED
  BY <1>5, <1>7, <1>8, <1>9

\* A fetched schedule gives the staleness budget back.
LEMMA FetchSucceedsInv ==
    ASSUME IInv, NEW d \in 0 .. FetchMax, FetchSucceeds(d)
    PROVE  IInv'
<1> USE IntervalFact DEF IInv
<1>1. d \in Nat /\ d <= FetchMax
  BY IntervalsAssumption
<1>2. /\ sinceLeds' \in 0 .. AgeCap /\ sinceLeds' <= sinceLeds + d
      /\ owedFor' \in 0 .. AgeCap /\ owedFor' <= owedFor + d
      /\ 0 \in 0 .. AgeCap
  <2>1. CASE owed
    BY <1>1, <2>1, OlderFact, IntervalsAssumption DEF FetchSucceeds, TypeOK
  <2>2. CASE ~owed
    BY <1>1, <2>2, OlderFact, IntervalsAssumption DEF FetchSucceeds, TypeOK
  <2>3. QED
    BY <2>1, <2>2
<1>3. TypeOK'
  BY <1>1, <1>2, ElapseFact, IntervalsAssumption, RetryAssumption
  DEF FetchSucceeds, TypeOK, Locations, Running, requests, retry, nap
<1>4. LedBudget'
  <2>1. attempt * LongestTry <= MqttMaxRetries * LongestTry
    BY ProductFact, RetryAssumption DEF TypeOK
  <2>2. attempt * LongestTry \in Nat
    BY ProductFact, RetryAssumption DEF TypeOK
  <2>3. QED
    BY <1>1, <1>2, <2>1, <2>2, IntervalsAssumption
    DEF FetchSucceeds, LedBudget, Within, TypeOK
<1>5. RefreshBudget'
  <2>1. Base' = ScheduleRefreshInterval
    BY IntervalsAssumption DEF FetchSucceeds, Base
  <2>2. QED
    BY <2>1, IntervalsAssumption DEF FetchSucceeds, RefreshBudget, Within
<1>6. FetchAge' /\ Doomed' /\ Asleep'
  BY RetryAssumption DEF FetchSucceeds, FetchAge, Doomed, Asleep, nap
<1>7. QED
  BY <1>3, <1>4, <1>5, <1>6

\* An LED pass ends the cycle's LED budget, and a sleep begins.
LEMMA UpdateLEDsInv ==
    ASSUME IInv, UpdateLEDs
    PROVE  IInv'
<1> USE IntervalFact DEF IInv
<1>1. TypeOK'
  <2>1. duration' \in 0 .. LongestSleep
    BY IntervalsAssumption DEF UpdateLEDs, TypeOK
  <2>2. QED
    BY <2>1, IntervalsAssumption
    DEF UpdateLEDs, TypeOK, Locations, Running, health, requests, retry
<1>2. LedBudget'
  BY DEF UpdateLEDs, LedBudget, Within
<1>3. RefreshBudget'
  <2>1. Base \in Nat /\ Base' = Base
    BY ProductFact, IntervalsAssumption DEF TypeOK, Base, UpdateLEDs, health
  <2>2. QED
    BY <2>1 DEF UpdateLEDs, RefreshBudget, Within, TypeOK
<1>4. FetchAge' /\ Doomed' /\ Asleep'
  BY DEF UpdateLEDs, FetchAge, Doomed, Asleep, health, nap
<1>5. QED
  BY <1>1, <1>2, <1>3, <1>4

\* An iteration of the sleep is charged to elapsed.
LEMMA SleepTimerInv ==
    ASSUME IInv, SleepTimer
    PROVE  IInv'
<1> USE IntervalFact DEF IInv
<1> DEFINE d == Lesser(CheckInterval, duration)
<1>1. d \in Nat /\ d <= CheckInterval /\ d <= duration
  BY IntervalsAssumption DEF Lesser, TypeOK
<1>2. Elapse(d) /\ Age(d) /\ elapsed' = elapsed + d
  BY DEF SleepTimer
<1> HIDE DEF d
<1>3. elapsed' \in 0 .. LongestSleep + CheckInterval
  BY <1>1, <1>2, IntervalsAssumption DEF SleepTimer, Asleep, TypeOK
<1>4. TypeOK'
  BY <1>1, <1>2, <1>3, AgeFact, ElapseFact
  DEF SleepTimer, TypeOK, Locations, Running, health, requests, retry
<1>5. LedBudget'
  BY <1>1, <1>2, <1>4, AgeFact DEF SleepTimer, LedBudget, Within, TypeOK
<1>6. RefreshBudget'
  <2>1. Base \in Nat /\ Base' = Base
    BY ProductFact, IntervalsAssumption DEF TypeOK, Base, SleepTimer, health
  <2>2. QED
    BY <1>1, <1>2, <1>4, <2>1, AgeFact
    DEF SleepTimer, RefreshBudget, Within, TypeOK
<1>7. FetchAge' /\ Doomed' /\ Asleep'
  BY <1>1, <1>2, AgeFact DEF SleepTimer, Doomed, Asleep, health, retry, nap
<1>8. QED
  BY <1>4, <1>5, <1>6, <1>7

\* Every step of the system preserves the invariant.
LEMMA NextInv == IInv /\ [Next]_vars => IInv'
<1> SUFFICES ASSUME IInv, [Next]_vars PROVE IInv'
  OBVIOUS
<1>1. CASE UNCHANGED vars
  BY <1>1
  DEF vars, ages, health, requests, retry, nap, IInv, TypeOK, LedBudget,
      RefreshBudget, Within, Base, FetchAge, Doomed, Asleep
<1>2. CASE Main
  <2>1. CASE BootOk \/ BootFails \/ CycleStart \/ SleepCheck \/ SleepRefresh
    BY <2>1, UntimedInv
  <2>2. ASSUME NEW d \in 0 .. NtpMax, NtpSync(d) PROVE IInv'
    BY <2>2, NtpInv
  <2>3. ASSUME NEW d \in 0 .. FetchMax, FetchFails(d) PROVE IInv'
    BY <2>3, FetchFailsInv
  <2>4. ASSUME NEW d \in 0 .. FetchMax, RefreshFails(d) PROVE IInv'
    BY <2>4, RefreshFailsInv
  <2>5. ASSUME NEW d \in 0 .. FetchMax, FetchSucceeds(d) PROVE IInv'
    BY <2>5, FetchSucceedsInv
  <2>6. CASE BackoffSleep \/ UpdateLEDs \/ SleepTimer
    BY <2>6, BackoffInv, UpdateLEDsInv, SleepTimerInv
  <2>7. QED
    BY <1>2, <2>1, <2>2, <2>3, <2>4, <2>5, <2>6 DEF Main
<1>3. CASE Console
  BY <1>3, UntimedInv, ResetInv DEF Console, ConsoleReboot
<1>4. CASE Hardware
  BY <1>4, ResetInv DEF Hardware, WatchdogReset, SoftwareReset
<1>5. QED
  BY <1>1, <1>2, <1>3, <1>4 DEF Next

\* The inductive invariant holds in every reachable state.
LEMMA Inductive == Spec => []IInv
BY InitInv, NextInv, PTL DEF Spec

-----------------------------------------------------------------------------
(* The theorems.                                                            *)

\* Every variable of the main loop stays in its range; in particular the
\* failure count never passes maxConsecutiveFailures (main.go 368).
THEOREM TypeCorrect == Spec => []TypeOK
<1>1. IInv => TypeOK
  BY DEF IInv
<1>2. QED
  BY <1>1, Inductive, PTL

\* A healthy device has fewer failures than the threshold, and an unhealthy one
\* is reset before it can complete another failing refresh (main.go 368-376,
\* 470-479).
THEOREM FailureThreshold == Spec => []FailuresBelowThreshold
<1>1. IInv => FailuresBelowThreshold
  BY RetryAssumption DEF IInv, Doomed, FailuresBelowThreshold
<1>2. QED
  BY <1>1, Inductive, PTL

\* How late an LED pass can be, for every configuration of the intervals
\* (main.go 331-428).
THEOREM LedsFresh == Spec => []LedFreshness
<1>1. ASSUME IInv PROVE LedFreshness
  <2> USE IntervalFact
  <2>1. /\ attempt \in Nat
        /\ attempt * LongestTry \in Nat
        /\ attempt * LongestTry <= MqttMaxRetries * LongestTry
    BY <1>1, ProductFact, RetryAssumption DEF IInv, TypeOK
  <2>2. QED
    BY <1>1, <2>1, IntervalsAssumption, RetryAssumption
    DEF IInv, TypeOK, LedBudget, Within, LedFreshness, Locations, Running
<1>2. QED
  BY <1>1, Inductive, PTL

\* How old a healthy device's last good refresh can be (main.go 294-401,
\* 470-491).
THEOREM StalenessBounded == Spec => []StalenessBound
<1>1. ASSUME IInv, systemHealthy
      PROVE  sinceSuccess <=
               ScheduleRefreshInterval + MaxConsecutiveFailures * LongestCycle
  <2> USE IntervalFact
  <2>1. /\ attempt \in Nat
        /\ attempt * LongestTry \in Nat
        /\ attempt * LongestTry <= MqttMaxRetries * LongestTry
    BY <1>1, ProductFact, RetryAssumption DEF IInv, TypeOK
  <2> DEFINE total == MaxConsecutiveFailures * LongestCycle
  <2>2. /\ consecutiveFailures \in Nat
        /\ consecutiveFailures + 1 \in Nat
        /\ consecutiveFailures + 1 <= MaxConsecutiveFailures
        /\ MaxConsecutiveFailures \in Nat
    BY <1>1, RetryAssumption DEF IInv, TypeOK, Doomed
  <2>3. /\ (consecutiveFailures + 1) * LongestCycle <= total
        /\ (consecutiveFailures + 1) * LongestCycle
             = consecutiveFailures * LongestCycle + LongestCycle
        /\ consecutiveFailures * LongestCycle \in Nat
        /\ total \in Nat
    BY <2>2, ProductFact
  <2> HIDE DEF total
  <2>4. Base \in Nat /\ Base + LongestCycle <= ScheduleRefreshInterval + total
    BY <2>2, <2>3, IntervalsAssumption DEF Base
  <2>5. sinceSuccess <= Base + LongestCycle
    BY <1>1, <2>1, <2>4, IntervalsAssumption, RetryAssumption
    DEF IInv, TypeOK, RefreshBudget, Within, Locations, Running
  <2>6. sinceSuccess <= ScheduleRefreshInterval + total
    BY <1>1, <2>3, <2>4, <2>5, IntervalsAssumption DEF IInv, TypeOK
  <2>7. QED
    BY <2>6 DEF total
<1>2. IInv => StalenessBound
  BY <1>1 DEF StalenessBound
<1>3. QED
  BY <1>2, Inductive, PTL

\* When the intervals leave room for it, no healthy device reaches 12 hours
\* without a refresh, so the second test of checkSystemHealth is never needed
\* and the rule of README.md:82 holds (main.go 481-490).
THEOREM TwelveHours ==
    ASSUME ScheduleRefreshInterval + MaxConsecutiveFailures * LongestCycle
             < MaxWithoutRefresh
    PROVE  Spec => []TwelveHourRule
<1>1. TypeOK /\ StalenessBound => TwelveHourRule
  <2>1. MaxConsecutiveFailures * LongestCycle \in Nat
    BY IntervalFact, ProductFact, RetryAssumption
  <2>2. QED
    BY <2>1, IntervalsAssumption DEF TypeOK, StalenessBound, TwelveHourRule
<1>2. QED
  BY <1>1, TypeCorrect, StalenessBounded, PTL

\* A healthy device's last judgement found less than 12 hours, and one cycle at most
\* has passed since: Within charges what it takes to that judgement's limit.
Limit == MaxWithoutRefresh - 1

HourBudget ==
    systemHealthy =>
        /\ Within(sinceSuccess, Limit)
        /\ pc = "leds" => sinceSuccess <= Limit
        /\ pc \in {"boot", "fatal"} => sinceSuccess = 0

\* Where a refresh is due before the 12 hours are over.
LimitFits == ScheduleRefreshInterval <= MaxWithoutRefresh

LEMMA HoursTimed ==
    ASSUME IInv, IInv', HourBudget,
           \/ \E d \in 0 .. NtpMax : NtpSync(d)
           \/ \E d \in 0 .. FetchMax : \/ FetchFails(d)
                                       \/ RefreshFails(d)
                                       \/ FetchSucceeds(d)
           \/ BackoffSleep
           \/ SleepTimer
    PROVE  HourBudget'
<1> USE IntervalFact DEF IInv
<1>1. Limit \in Nat /\ Limit + 1 = MaxWithoutRefresh
  BY IntervalsAssumption DEF Limit
<1> HIDE DEF IInv
<1>2. TypeOK /\ TypeOK' /\ sinceSuccess \in Nat /\ attempt \in Nat
      /\ attempt * LongestTry \in Nat
  BY ProductFact, RetryAssumption, IntervalsAssumption DEF IInv, TypeOK
<1>3. ASSUME NEW d \in 0 .. NtpMax, NtpSync(d) PROVE HourBudget'
  <2>1. attempt' * LongestTry = 0 /\ d \in Nat /\ d <= NtpMax
    BY <1>3, IntervalsAssumption DEF NtpSync
  <2>2. sinceSuccess' \in Nat /\ sinceSuccess' <= sinceSuccess + d
    BY <1>2, <1>3, <2>1, AgeFact, IntervalsAssumption DEF NtpSync
  <2>3. QED
    BY <1>1, <1>2, <1>3, <2>1, <2>2, IntervalsAssumption
    DEF NtpSync, HourBudget, Within, health
<1>4. ASSUME NEW d \in 0 .. FetchMax, FetchFails(d) PROVE HourBudget'
  <2>1. /\ attempt' * LongestTry = attempt * LongestTry + LongestTry
        /\ d \in Nat /\ d <= FetchMax
    BY <1>2, <1>4, ProductFact, IntervalsAssumption DEF FetchFails
  <2>2. sinceSuccess' \in Nat /\ sinceSuccess' <= sinceSuccess + d
    BY <1>2, <1>4, <2>1, AgeFact, IntervalsAssumption DEF FetchFails
  <2>3. ASSUME systemHealthy
        PROVE  sinceSuccess' + MqttMaxBackoff
                 <= Limit + LongestNap + NtpMax + (attempt * LongestTry + LongestTry)
    <3>1. sinceSuccess <= Limit + LongestNap + NtpMax + attempt * LongestTry
      BY <1>4, <2>3 DEF FetchFails, HourBudget, Within
    <3> DEFINE spent == attempt * LongestTry
    <3>2. spent \in Nat /\ sinceSuccess <= Limit + LongestNap + NtpMax + spent
      BY <1>2, <3>1
    <3> HIDE DEF spent
    <3>3. sinceSuccess' + MqttMaxBackoff
            <= Limit + LongestNap + NtpMax + (spent + LongestTry)
      <4>1. /\ sinceSuccess \in Nat /\ sinceSuccess' \in Nat /\ d \in Nat
            /\ Limit \in Nat /\ LongestNap \in Nat /\ NtpMax \in Nat
            /\ FetchMax \in Nat /\ MqttMaxBackoff \in Nat
            /\ sinceSuccess' <= sinceSuccess + d /\ d <= FetchMax
            /\ LongestTry = FetchMax + MqttMaxBackoff
        BY <1>1, <1>2, <2>1, <2>2, IntervalsAssumption, RetryAssumption
      <4>2. QED
        BY <3>2, <4>1
    <3>4. QED
      BY <3>3 DEF spent
  <2>4. QED
    BY <1>1, <1>2, <1>4, <2>1, <2>3 DEF FetchFails, HourBudget, Within, health
<1>5. ASSUME NEW d \in 0 .. FetchMax, RefreshFails(d) PROVE HourBudget'
  <2>1. systemHealthy' => sinceSuccess' < MaxWithoutRefresh
    BY <1>5 DEF RefreshFails, CheckSystemHealth
  <2>2. sinceSuccess' \in Nat
    BY <1>2 DEF TypeOK
  <2>3. QED
    BY <1>1, <1>5, <2>1, <2>2 DEF RefreshFails, HourBudget, Within
<1>6. ASSUME NEW d \in 0 .. FetchMax, FetchSucceeds(d) PROVE HourBudget'
  BY <1>1, <1>6 DEF FetchSucceeds, HourBudget, Within
<1>7. CASE BackoffSleep
  <2>1. mqttBackoff \in Nat /\ mqttBackoff <= MqttMaxBackoff
    BY <1>2, RetryAssumption DEF TypeOK
  <2>2. sinceSuccess' \in Nat /\ sinceSuccess' <= sinceSuccess + mqttBackoff
    BY <1>2, <1>7, <2>1, AgeFact, IntervalsAssumption DEF BackoffSleep
  <2>3. QED
    BY <1>1, <1>2, <1>7, <2>1, <2>2, IntervalsAssumption, RetryAssumption
    DEF BackoffSleep, HourBudget, Within, health
<1>8. CASE SleepTimer
  <2> DEFINE d == Lesser(CheckInterval, duration)
  <2>1. d \in Nat /\ Age(d) /\ elapsed' = elapsed + d
    BY <1>2, <1>8, IntervalsAssumption DEF SleepTimer, Lesser, TypeOK
  <2> HIDE DEF d
  <2>2. sinceSuccess' \in Nat /\ sinceSuccess' <= sinceSuccess + d
    BY <1>2, <2>1, AgeFact, IntervalsAssumption
  <2>3. elapsed \in Nat
    BY <1>2 DEF TypeOK
  <2>4. QED
    BY <1>1, <1>2, <1>8, <2>1, <2>2, <2>3 DEF SleepTimer, HourBudget, Within, health
<1>9. QED
  BY <1>3, <1>4, <1>5, <1>6, <1>7, <1>8

LEMMA HoursUntimed ==
    ASSUME LimitFits, IInv, IInv', HourBudget,
           \/ BootOk \/ BootFails \/ CycleStart \/ UpdateLEDs \/ SleepCheck
           \/ SleepRefresh \/ RequestRefresh
           \/ \E dur \in DebugSleeps : SetDebugSleep(dur)
    PROVE  HourBudget'
<1> USE IntervalFact
<1>1. Limit \in Nat /\ Limit + 1 = MaxWithoutRefresh
  BY IntervalsAssumption DEF Limit
<1>2. /\ sinceSuccess \in 0 .. AgeCap /\ sinceFetch \in 0 .. AgeCap
      /\ elapsed \in Nat /\ elapsed <= LongestNap
  BY IntervalsAssumption DEF IInv, TypeOK
<1>3. CASE BootOk \/ BootFails
  BY <1>1, <1>3, IntervalsAssumption DEF BootOk, BootFails, ages, health, HourBudget, Within
<1>4. CASE CycleStart
  <2>1. ~NeedsScheduleRefresh => sinceSuccess <= Limit
    BY <1>1, <1>2, IntervalsAssumption
    DEF LimitFits, NeedsScheduleRefresh, IInv, FetchAge, Never
  <2>2. QED
    BY <1>1, <1>2, <1>4, <2>1 DEF CycleStart, health, HourBudget, Within
<1>5. CASE UpdateLEDs
  BY <1>1, <1>2, <1>5 DEF UpdateLEDs, health, HourBudget, Within
<1>6. CASE SleepCheck
  BY <1>1, <1>2, <1>6 DEF SleepCheck, ages, health, nap, HourBudget, Within
<1>7. CASE SleepRefresh
  BY <1>1, <1>2, <1>7 DEF SleepRefresh, ages, health, HourBudget, Within
<1>8. CASE RequestRefresh
  BY <1>1, <1>2, <1>8
  DEF RequestRefresh, Running, ages, health, retry, nap, HourBudget, Within
<1>9. CASE \E dur \in DebugSleeps : SetDebugSleep(dur)
  BY <1>1, <1>2, <1>9 DEF SetDebugSleep, ages, health, retry, nap, HourBudget, Within
<1>10. QED
  BY <1>3, <1>4, <1>5, <1>6, <1>7, <1>8, <1>9

\* However long the console makes the sleeps, a healthy device is at most one cycle
\* past its 12 hours without a refresh (main.go 331-457, 481-490).
THEOREM TwelveHoursPassSoon ==
    ASSUME LimitFits
    PROVE  Spec => []TwelveHoursSoon
<1>1. Init => HourBudget
  BY DEF Init, HourBudget, Within
<1>2. IInv /\ IInv' /\ HourBudget /\ [Next]_vars => HourBudget'
  <2> SUFFICES ASSUME IInv, IInv', HourBudget, [Next]_vars PROVE HourBudget'
    OBVIOUS
  <2>1. CASE UNCHANGED vars
    BY <2>1 DEF vars, ages, health, retry, nap, HourBudget, Within
  <2>2. CASE Reset
    BY <2>2 DEF Reset, HourBudget, Within
  <2>3. CASE Main
    BY <2>3, LimitFits, HoursTimed, HoursUntimed DEF Main
  <2>4. CASE Console
    BY <2>2, <2>4, LimitFits, HoursUntimed DEF Console, ConsoleReboot
  <2>5. CASE Hardware
    BY <2>2, <2>5 DEF Hardware, WatchdogReset, SoftwareReset
  <2>6. QED
    BY <2>1, <2>3, <2>4, <2>5 DEF Next
<1>3. IInv /\ HourBudget => TwelveHoursSoon
  <2> SUFFICES ASSUME IInv, HourBudget, systemHealthy
               PROVE  sinceSuccess < MaxWithoutRefresh + LongestCycle
    BY DEF TwelveHoursSoon
  <2> USE IntervalFact
  <2>1. Limit \in Nat /\ Limit + 1 = MaxWithoutRefresh
    BY IntervalsAssumption DEF Limit
  <2>2. /\ attempt * LongestTry \in Nat
        /\ attempt * LongestTry <= MqttMaxRetries * LongestTry
    BY ProductFact, RetryAssumption DEF IInv, TypeOK
  <2>3. /\ sinceSuccess \in Nat /\ elapsed \in Nat /\ elapsed <= LongestNap
        /\ pc \in Locations
    BY IntervalsAssumption DEF IInv, TypeOK
  <2>4. sinceSuccess <= Limit + LongestCycle
    BY <2>1, <2>2, <2>3, IntervalsAssumption, RetryAssumption
    DEF HourBudget, Within, Locations, Running
  <2>5. QED
    BY <2>1, <2>3, <2>4
<1>4. QED
  BY <1>1, <1>2, <1>3, Inductive, PTL DEF Spec

-----------------------------------------------------------------------------
(* Console refreshes.                                                       *)

\* How long the oldest request may have waited at each location: main sets the
\* force flag only on its way to the loop's head, and blocks in the select only
\* with an empty channel, so a request can wait for a refresh in progress and
\* for nothing else.
RequestBudget ==
    /\ forceScheduleRefresh => pc = "start"
    /\ pc = "select" => refreshChan = 0
    /\ ~owed => owedFor = 0
    /\ pc \in {"ntp", "boot", "fatal", "select"} => owedFor = 0
    /\ pc = "fetch" => owedFor <= NtpMax + attempt * LongestTry
    /\ pc = "backoff" =>
          owedFor + MqttMaxBackoff <= NtpMax + attempt * LongestTry
    /\ pc \in {"start", "leds", "sleep", "received"} =>
          owedFor <= LongestRefresh

RInv == RequestKept /\ RequestBudget

\* A reset forgets every request.
LEMMA RInvReset == Reset => RInv'
BY DEF Reset, RInv, RequestKept, RequestBudget

\* The steps that take time: the budget of a request grows with them.
LEMMA RInvTimed ==
    ASSUME TypeOK, TypeOK', RInv,
           \/ \E d \in 0 .. NtpMax : NtpSync(d)
           \/ \E d \in 0 .. FetchMax : \/ FetchFails(d)
                                       \/ RefreshFails(d)
                                       \/ FetchSucceeds(d)
           \/ BackoffSleep
           \/ SleepTimer
    PROVE  RInv'
<1> USE IntervalFact DEF RInv
<1>1. RequestKept'
  BY DEF NtpSync, FetchFails, RefreshFails, FetchSucceeds, BackoffSleep,
         SleepTimer, requests, RequestKept
<1>2. ASSUME NEW d \in 0 .. NtpMax, NtpSync(d) PROVE RequestBudget'
  <2>1. d \in Nat /\ d <= NtpMax /\ attempt' = 0 /\ attempt' * LongestTry = 0
    BY <1>2, IntervalsAssumption DEF NtpSync
  <2>2. owedFor' \in Nat /\ owedFor' <= d /\ (~owed => owedFor' = 0)
    BY <1>2, <2>1, AgeFact, IntervalsAssumption
    DEF NtpSync, RequestBudget, TypeOK
  <2>3. QED
    BY <1>2, <2>1, <2>2, IntervalsAssumption DEF NtpSync, RequestBudget, requests
<1>3. ASSUME NEW d \in 0 .. FetchMax, FetchFails(d) PROVE RequestBudget'
  <2>1. d \in Nat /\ d <= FetchMax
    BY IntervalsAssumption
  <2>2. /\ attempt * LongestTry \in Nat
        /\ attempt' * LongestTry = attempt * LongestTry + LongestTry
    BY <1>3, ProductFact, RetryAssumption DEF FetchFails, TypeOK
  <2>3. owedFor' \in Nat /\ owedFor' <= owedFor + d /\ (~owed => owedFor' = 0)
    BY <1>3, <2>1, AgeFact, IntervalsAssumption DEF FetchFails, TypeOK
  <2>4. owedFor \in Nat /\ owedFor <= NtpMax + attempt * LongestTry
    BY <1>3 DEF FetchFails, RequestBudget, TypeOK
  <2>5. owedFor' + MqttMaxBackoff <= NtpMax + (attempt * LongestTry + LongestTry)
    BY <2>1, <2>2, <2>3, <2>4, IntervalsAssumption, RetryAssumption
  <2>6. owedFor' + MqttMaxBackoff <= NtpMax + attempt' * LongestTry
    BY <2>2, <2>5
  <2>7. QED
    BY <1>3, <2>3, <2>6 DEF FetchFails, RequestBudget, requests
<1>4. ASSUME NEW d \in 0 .. FetchMax, RefreshFails(d) \/ FetchSucceeds(d)
      PROVE  RequestBudget'
  <2>1. d \in Nat /\ d <= FetchMax
    BY IntervalsAssumption
  <2>2. /\ attempt * LongestTry \in Nat
        /\ attempt * LongestTry <= MqttMaxRetries * LongestTry
    BY ProductFact, RetryAssumption DEF TypeOK
  <2>3. owedFor' = IF owed THEN Older(owedFor, d) ELSE 0
    BY <1>4 DEF RefreshFails, FetchSucceeds, Age
  <2>4. owedFor' \in Nat /\ owedFor' <= owedFor + d /\ (~owed => owedFor' = 0)
    <3>1. CASE owed
      BY <2>1, <2>3, <3>1, OlderFact, IntervalsAssumption DEF TypeOK
    <3>2. CASE ~owed
      BY <2>1, <2>3, <3>2 DEF TypeOK
    <3>3. QED
      BY <3>1, <3>2
  <2>5. pc = "fetch" /\ pc' = "leds"
    BY <1>4 DEF RefreshFails, FetchSucceeds
  <2>6. owedFor' <= LongestRefresh
    BY <2>1, <2>2, <2>4, <2>5, IntervalsAssumption DEF RequestBudget, TypeOK
  <2>7. ~forceScheduleRefresh'
    BY <1>4, <2>5 DEF RefreshFails, FetchSucceeds, RequestBudget, requests
  <2>8. owed' = owed
    BY <1>4 DEF RefreshFails, FetchSucceeds, requests
  <2>9. QED
    BY <2>4, <2>5, <2>6, <2>7, <2>8 DEF RequestBudget
<1>5. CASE BackoffSleep
  <2>1. mqttBackoff \in Nat /\ mqttBackoff <= MqttMaxBackoff
    BY RetryAssumption DEF TypeOK
  <2>2. attempt' = attempt /\ attempt * LongestTry \in Nat
    BY <1>5, ProductFact, RetryAssumption DEF BackoffSleep, TypeOK
  <2>3. /\ owedFor' \in Nat
        /\ owedFor' <= owedFor + mqttBackoff
        /\ ~owed => owedFor' = 0
    BY <1>5, <2>1, AgeFact, IntervalsAssumption DEF BackoffSleep, TypeOK
  <2>4. owedFor' <= NtpMax + attempt * LongestTry
    BY <1>5, <2>1, <2>2, <2>3, IntervalsAssumption, RetryAssumption
    DEF BackoffSleep, RequestBudget, TypeOK
  <2>5. pc' = "fetch" /\ ~forceScheduleRefresh' /\ (~owed' => owedFor' = 0)
    BY <1>5, <2>3 DEF BackoffSleep, RequestBudget, requests
  <2>6. QED
    BY <1>1, <2>2, <2>3, <2>4, <2>5 DEF RequestBudget
<1>6. CASE SleepTimer
  <2>1. ~owed
    BY <1>6 DEF SleepTimer, RequestKept, RequestBudget
  <2>2. owedFor' = 0
    BY <1>6, <2>1 DEF SleepTimer, Age
  <2>3. pc' = "sleep" /\ ~forceScheduleRefresh'
    BY <1>6 DEF SleepTimer, RequestBudget, requests
  <2>4. 0 <= LongestRefresh
    OBVIOUS
  <2>5. QED
    BY <1>1, <2>2, <2>3, <2>4 DEF RequestBudget
<1>7. QED
  BY <1>1, <1>2, <1>3, <1>4, <1>5, <1>6

\* The steps that take none: requests are made, received and served.
LEMMA RInvUntimed ==
    ASSUME TypeOK, TypeOK', RInv,
           \/ BootOk \/ BootFails \/ CycleStart \/ UpdateLEDs \/ SleepCheck
           \/ SleepRefresh \/ RequestRefresh
           \/ \E dur \in DebugSleeps : SetDebugSleep(dur)
    PROVE  RInv'
<1> USE IntervalFact DEF RInv
<1>1. CASE BootOk \/ BootFails
  BY <1>1 DEF BootOk, BootFails, requests, ages, retry, RequestKept, RequestBudget
<1>2. CASE CycleStart
  BY <1>2 DEF CycleStart, NeedsScheduleRefresh, RequestKept, RequestBudget
<1>3. CASE UpdateLEDs
  BY <1>3 DEF UpdateLEDs, requests, RequestKept, RequestBudget
<1>4. CASE SleepCheck
  BY <1>4 DEF SleepCheck, ages, RequestKept, RequestBudget
<1>5. CASE SleepRefresh
  BY <1>5 DEF SleepRefresh, ages, RequestKept, RequestBudget
<1>6. CASE RequestRefresh
  <2>1. RequestKept'
    BY <1>6 DEF RequestRefresh, RequestKept
  <2>2. RequestBudget'
    BY <1>6
    DEF RequestRefresh, ages, retry, Running, RequestBudget
  <2>3. QED
    BY <2>1, <2>2
<1>7. CASE \E dur \in DebugSleeps : SetDebugSleep(dur)
  BY <1>7 DEF SetDebugSleep, ages, requests, retry, RequestKept, RequestBudget
<1>8. QED
  BY <1>1, <1>2, <1>3, <1>4, <1>5, <1>6, <1>7

\* The invariant of the requests holds in every reachable state.
LEMMA RequestInductive == Spec => []RInv
<1>1. Init => RInv
  BY DEF Init, RInv, RequestKept, RequestBudget
<1>2. TypeOK /\ TypeOK' /\ RInv /\ [Next]_vars => RInv'
  <2> SUFFICES ASSUME TypeOK, TypeOK', RInv, [Next]_vars PROVE RInv'
    OBVIOUS
  <2>1. CASE UNCHANGED vars
    BY <2>1 DEF vars, ages, requests, retry, RInv, RequestKept, RequestBudget
  <2>2. CASE Main
    BY <2>2, RInvTimed, RInvUntimed DEF Main
  <2>3. CASE Console
    BY <2>3, RInvUntimed, RInvReset DEF Console, ConsoleReboot
  <2>4. CASE Hardware
    BY <2>4, RInvReset DEF Hardware, WatchdogReset, SoftwareReset
  <2>5. QED
    BY <2>1, <2>2, <2>3, <2>4 DEF Next
<1>3. QED
  BY <1>1, <1>2, TypeCorrect, PTL DEF Spec

\* No console refresh is lost (main.go 294-297, 446-456; console.go 283-290).
THEOREM RequestsKept == Spec => []RequestKept
<1>1. RInv => RequestKept
  BY DEF RInv
<1>2. QED
  BY <1>1, RequestInductive, PTL

\* A console refresh waits for the refresh in progress and never for a sleep
\* (main.go 331-428, 446-456).
THEOREM RequestsPrompt == Spec => []RequestPrompt
<1>1. ASSUME TypeOK, RInv PROVE RequestPrompt
  <2> USE IntervalFact
  <2>1. /\ attempt \in Nat
        /\ attempt * LongestTry \in Nat
        /\ attempt * LongestTry <= MqttMaxRetries * LongestTry
    BY <1>1, ProductFact, RetryAssumption DEF TypeOK
  <2>2. QED
    BY <1>1, <2>1, IntervalsAssumption, RetryAssumption
    DEF RInv, RequestBudget, RequestPrompt, TypeOK, Locations, Running
<1>2. QED
  BY <1>1, TypeCorrect, RequestInductive, PTL

=============================================================================
