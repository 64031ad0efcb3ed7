------------------------------ MODULE WakeCycle ------------------------------
(****************************************************************************)
(* The control of the firmware's main goroutine (src/main.go): boot, the     *)
(* wake cycle with its schedule refresh and MQTT retries, the functional     *)
(* watchdog, and the sleep that a console command can cut short.             *)
(*                                                                          *)
(* The scheduler is cooperative: another goroutine runs only where main       *)
(* blocks, so what main does between two blocking points is one action, and   *)
(* the console's commands interleave with main at its blocking points.       *)
(* Time is counted in abstract ticks.  A blocking action of main takes some   *)
(* ticks, and the ages of main's timestamps grow by that much.               *)
(*                                                                          *)
(* What the cycle does with the schedule itself (jobs, LEDs, the clock) is   *)
(* data this module leaves out: an LED pass is the moment sinceLeds is 0.    *)
(****************************************************************************)
EXTENDS Integers

CONSTANTS
    WakeInterval,             \* wakeInterval: sleep between two LED passes
    ScheduleRefreshInterval,  \* scheduleRefreshInterval: age at which to fetch
    CheckInterval,            \* 5 s: the longest wait of one sleep iteration
    DebugSleeps,              \* durations the console's sleep command can set
    LongestSleep,             \* bound of WakeInterval and DebugSleeps
    NtpMax,                   \* longest syncNTP
    FetchMax,                 \* longest fetchScheduleViaMQTT
    MqttMaxRetries,           \* mqttMaxRetries
    MqttMinBackoff,           \* mqttMinBackoff
    MqttMaxBackoff,           \* mqttMaxBackoff
    MaxConsecutiveFailures,   \* maxConsecutiveFailures
    MaxWithoutRefresh,        \* maxHoursWithoutRefresh, in ticks
    WatchdogTimeout,          \* 8 s: the hardware watchdog's period
    AgeCap                    \* ages saturate here: a bound of the model

\* The intervals a configuration can hold, and AgeCap beyond every threshold
\* an age is compared with.
ASSUME IntervalsAssumption ==
    /\ WakeInterval \in Nat \ {0}
    /\ ScheduleRefreshInterval \in Nat \ {0}
    /\ CheckInterval \in Nat \ {0}
    /\ LongestSleep \in Nat
    /\ WakeInterval <= LongestSleep
    /\ DebugSleeps \subseteq 0 .. LongestSleep
    /\ NtpMax \in Nat
    /\ FetchMax \in Nat
    /\ MaxWithoutRefresh \in Nat \ {0}
    /\ AgeCap \in Nat
    /\ ScheduleRefreshInterval <= AgeCap
    /\ MaxWithoutRefresh <= AgeCap

\* The constants of the retry loop and of the watchdog.  The first backoff
\* (16 s) outlasts the hardware watchdog (8 s).
ASSUME RetryAssumption ==
    /\ MqttMaxRetries \in Nat \ {0}
    /\ MqttMinBackoff \in Nat \ {0}
    /\ MqttMaxBackoff \in Nat
    /\ MqttMinBackoff <= MqttMaxBackoff
    /\ MaxConsecutiveFailures \in Nat \ {0}
    /\ WatchdogTimeout \in Nat
    /\ WatchdogTimeout < MqttMinBackoff

VARIABLES
    pc,                    \* where main is blocked, or about to run from
    sinceFetch,            \* time.Since(lastScheduleFetch)
    sinceSuccess,          \* time.Since(lastSuccessfulRefresh)
    consecutiveFailures,   \* refreshes in a row that used up their retries
    systemHealthy,         \* FALSE: nobody feeds the hardware watchdog
    forceScheduleRefresh,  \* the next cycle fetches whatever the age
    refreshChan,           \* values buffered in refreshChan (capacity 1)
    debugSleepDuration,    \* the console's override of the sleep, 0 for none
    attempt,               \* attempt of the retry loop
    mqttBackoff,           \* the wait before the next attempt
    duration, elapsed,     \* locals of sleepWithRefreshCheck
    unfed,                 \* ticks since the hardware watchdog was last fed
    sinceLeds,             \* history: ticks since the last LED pass
    owed,                  \* history: a console refresh no cycle has begun for
    owedFor                \* history: ticks the oldest such request has waited

ages == <<sinceFetch, sinceSuccess, sinceLeds, owedFor>>
health == <<consecutiveFailures, systemHealthy>>
requests == <<forceScheduleRefresh, refreshChan, owed>>
retry == <<attempt, mqttBackoff>>
nap == <<duration, elapsed>>
vars == <<pc, ages, health, requests, debugSleepDuration, retry, nap, unfed>>

Running == {"start", "ntp", "fetch", "backoff", "leds", "sleep", "select",
            "received"}
Locations == Running \cup {"boot", "fatal"}

TypeOK ==
    /\ pc \in Locations
    /\ sinceFetch \in 0 .. AgeCap
    /\ sinceSuccess \in 0 .. AgeCap
    /\ sinceLeds \in 0 .. AgeCap
    /\ consecutiveFailures \in 0 .. MaxConsecutiveFailures
    /\ systemHealthy \in BOOLEAN
    /\ forceScheduleRefresh \in BOOLEAN
    /\ refreshChan \in 0 .. 1
    /\ owed \in BOOLEAN
    /\ owedFor \in 0 .. AgeCap
    /\ debugSleepDuration \in {0} \cup DebugSleeps
    /\ attempt \in 0 .. MqttMaxRetries
    /\ mqttBackoff \in MqttMinBackoff .. MqttMaxBackoff
    /\ duration \in 0 .. LongestSleep
    /\ elapsed \in 0 .. LongestSleep + CheckInterval
    /\ unfed \in 0 .. WatchdogTimeout

-----------------------------------------------------------------------------
(* Time.                                                                    *)

Lesser(a, b) == IF a < b THEN a ELSE b

Older(age, d) == Lesser(age + d, AgeCap)

\* lastScheduleFetch is the zero time until the first fetch.
Never == AgeCap

\* d ticks pass while main blocks.  A healthy system is fed throughout, by main
\* and by loopForeverStack; an unhealthy one by nobody, and no more time passes
\* than the hardware watchdog allows.
Elapse(d) ==
    /\ unfed' = IF systemHealthy THEN 0 ELSE unfed + d
    /\ unfed' <= WatchdogTimeout

Age(d) ==
    /\ sinceFetch' = Older(sinceFetch, d)
    /\ sinceSuccess' = Older(sinceSuccess, d)
    /\ sinceLeds' = Older(sinceLeds, d)
    /\ owedFor' = IF owed THEN Older(owedFor, d) ELSE 0

-----------------------------------------------------------------------------
(* Boot and reset.                                                          *)

\* The values of a device that has just been reset: main's package variables
\* at their initial values.
Init ==
    /\ pc = "boot"
    /\ sinceFetch = Never
    /\ sinceSuccess = 0
    /\ sinceLeds = 0
    /\ consecutiveFailures = 0
    /\ systemHealthy = TRUE
    /\ forceScheduleRefresh = FALSE
    /\ refreshChan = 0
    /\ owed = FALSE
    /\ owedFor = 0
    /\ debugSleepDuration = 0
    /\ attempt = 0
    /\ mqttBackoff = MqttMinBackoff
    /\ duration = 0
    /\ elapsed = 0
    /\ unfed = 0

\* Every reset loses all of RAM.
Reset ==
    /\ pc' = "boot"
    /\ sinceFetch' = Never
    /\ sinceSuccess' = 0
    /\ sinceLeds' = 0
    /\ consecutiveFailures' = 0
    /\ systemHealthy' = TRUE
    /\ forceScheduleRefresh' = FALSE
    /\ refreshChan' = 0
    /\ owed' = FALSE
    /\ owedFor' = 0
    /\ debugSleepDuration' = 0
    /\ attempt' = 0
    /\ mqttBackoff' = MqttMinBackoff
    /\ duration' = 0
    /\ elapsed' = 0
    /\ unfed' = 0

\* Broker address, WiFi and DHCP are there: main reaches its loop, with
\* lastSuccessfulRefresh = now and lastScheduleFetch = 0.
BootOk ==
    /\ pc = "boot"
    /\ pc' = "start"
    /\ sinceSuccess' = 0
    /\ sinceFetch' = Never
    /\ sinceLeds' = 0
    /\ UNCHANGED <<owedFor, health, requests, debugSleepDuration, retry, nap,
                   unfed>>

\* fatalError: main stops feeding and waits for a reset.
BootFails ==
    /\ pc = "boot"
    /\ pc' = "fatal"
    /\ systemHealthy' = FALSE
    /\ UNCHANGED <<ages, consecutiveFailures, requests, debugSleepDuration,
                   retry, nap, unfed>>

\* The hardware watchdog bites once nobody feeds it.
WatchdogReset ==
    /\ ~systemHealthy
    /\ Reset

\* fatalError's fallback when the watchdog has not bitten within 15 s.
SoftwareReset ==
    /\ pc = "fatal"
    /\ Reset

-----------------------------------------------------------------------------
(* The wake cycle.                                                          *)

NeedsScheduleRefresh ==
    \/ sinceFetch >= ScheduleRefreshInterval
    \/ forceScheduleRefresh

\* The head of the loop: decide on a refresh and drop the force flag.  A cycle
\* that refreshes serves every request made before it.
CycleStart ==
    /\ pc = "start"
    /\ forceScheduleRefresh' = FALSE
    /\ \/ /\ NeedsScheduleRefresh
          /\ pc' = "ntp"
          /\ owed' = FALSE
          /\ owedFor' = 0
       \/ /\ ~NeedsScheduleRefresh
          /\ pc' = "leds"
          /\ UNCHANGED <<owed, owedFor>>
    /\ UNCHANGED <<sinceFetch, sinceSuccess, sinceLeds, health, refreshChan,
                   debugSleepDuration, retry, nap, unfed>>

\* syncNTP, whose failure the cycle ignores, then the retry loop's first attempt.
NtpSync(d) ==
    /\ pc = "ntp"
    /\ Elapse(d)
    /\ Age(d)
    /\ attempt' = 0
    /\ mqttBackoff' = MqttMinBackoff
    /\ pc' = "fetch"
    /\ UNCHANGED <<health, requests, debugSleepDuration, nap>>

\* Mutant: unhealthy one failure too late.
CheckSystemHealthLate(f, age) ==
    systemHealthy' = (systemHealthy /\ f <= MaxConsecutiveFailures
                                    /\ age < MaxWithoutRefresh)

\* Mutant: only failures in a row are looked at.
CheckSystemHealthUntimed(f, age) ==
    systemHealthy' = (systemHealthy /\ f < MaxConsecutiveFailures)

\* checkSystemHealth after the failed refresh that makes it f in a row.  It
\* only ever declares the system unhealthy.
CheckSystemHealth(f, age) ==
    systemHealthy' = (systemHealthy /\ f < MaxConsecutiveFailures
                                    /\ age < MaxWithoutRefresh)

\* fetchScheduleViaMQTT returns an error and retries are left.
FetchFails(d) ==
    /\ pc = "fetch"
    /\ attempt < MqttMaxRetries
    /\ Elapse(d)
    /\ Age(d)
    /\ attempt' = attempt + 1
    /\ pc' = "backoff"
    /\ UNCHANGED <<health, requests, debugSleepDuration, mqttBackoff, nap>>

\* Mutant: the failure is not counted, as by an early "continue".
RefreshFailsUncounted(d) ==
    /\ pc = "fetch"
    /\ attempt = MqttMaxRetries
    /\ Elapse(d)
    /\ Age(d)
    /\ pc' = "leds"
    /\ UNCHANGED <<health, requests, debugSleepDuration, retry, nap>>

\* Mutant: a failed refresh goes round the loop again at once.
RefreshFailsAndRepeats(d) ==
    /\ pc = "fetch"
    /\ attempt = MqttMaxRetries
    /\ Elapse(d)
    /\ Age(d)
    /\ consecutiveFailures' = consecutiveFailures + 1
    /\ CheckSystemHealth(consecutiveFailures', sinceSuccess')
    /\ pc' = "start"
    /\ UNCHANGED <<requests, debugSleepDuration, retry, nap>>

\* The last attempt fails: one more failure, and the only place outside
\* fatalError where the health of the system is judged.
RefreshFails(d) ==
    /\ pc = "fetch"
    /\ attempt = MqttMaxRetries
    /\ Elapse(d)
    /\ Age(d)
    /\ consecutiveFailures' = consecutiveFailures + 1
    /\ CheckSystemHealth(consecutiveFailures', sinceSuccess')
    /\ pc' = "leds"
    /\ UNCHANGED <<requests, debugSleepDuration, retry, nap>>

\* Mutant: neither timestamp of the refresh is set.
FetchSucceedsUnstamped(d) ==
    /\ pc = "fetch"
    /\ Elapse(d)
    /\ Age(d)
    /\ consecutiveFailures' = 0
    /\ pc' = "leds"
    /\ UNCHANGED <<systemHealthy, requests, debugSleepDuration, retry, nap>>

\* fetchScheduleViaMQTT returns a schedule.
FetchSucceeds(d) ==
    /\ pc = "fetch"
    /\ Elapse(d)
    /\ sinceFetch' = 0
    /\ sinceSuccess' = 0
    /\ sinceLeds' = Older(sinceLeds, d)
    /\ owedFor' = IF owed THEN Older(owedFor, d) ELSE 0
    /\ consecutiveFailures' = 0
    /\ pc' = "leds"
    /\ UNCHANGED <<systemHealthy, requests, debugSleepDuration, retry, nap>>

\* sleepWithWatchdog before the next attempt: 16 s, 32 s, 60 s.
BackoffSleep ==
    /\ pc = "backoff"
    /\ Elapse(mqttBackoff)
    /\ Age(mqttBackoff)
    /\ mqttBackoff' = Lesser(2 * mqttBackoff, MqttMaxBackoff)
    /\ pc' = "fetch"
    /\ UNCHANGED <<health, requests, debugSleepDuration, attempt, nap>>

\* Mutant: the override is used even when it is 0.
UpdateLEDsThenOverride ==
    /\ pc = "leds"
    /\ sinceLeds' = 0
    /\ duration' = debugSleepDuration
    /\ elapsed' = 0
    /\ pc' = "sleep"
    /\ UNCHANGED <<sinceFetch, sinceSuccess, owedFor, health, requests,
                   debugSleepDuration, retry, unfed>>

\* The LED pass, and the entry of sleepWithRefreshCheck.
UpdateLEDs ==
    /\ pc = "leds"
    /\ sinceLeds' = 0
    /\ duration' = IF debugSleepDuration > 0 THEN debugSleepDuration
                                             ELSE WakeInterval
    /\ elapsed' = 0
    /\ pc' = "sleep"
    /\ UNCHANGED <<sinceFetch, sinceSuccess, owedFor, health, requests,
                   debugSleepDuration, retry, unfed>>

-----------------------------------------------------------------------------
(* sleepWithRefreshCheck.                                                   *)

\* Mutant: the channel is looked at when the sleep is over.
SleepCheckAtEnd ==
    /\ pc = "sleep"
    /\ \/ /\ elapsed >= duration
          /\ refreshChan' = 0
          /\ pc' = IF refreshChan = 1 THEN "received" ELSE "start"
       \/ /\ elapsed < duration
          /\ pc' = "select"
          /\ UNCHANGED refreshChan
    /\ UNCHANGED <<ages, health, forceScheduleRefresh, owed,
                   debugSleepDuration, retry, nap, unfed>>

\* The head of its loop.  A buffered request is taken at once, otherwise main
\* blocks in the select; at the end of the sleep the channel is not looked at.
SleepCheck ==
    /\ pc = "sleep"
    /\ \/ /\ elapsed >= duration
          /\ pc' = "start"
          /\ UNCHANGED refreshChan
       \/ /\ elapsed < duration
          /\ refreshChan = 1
          /\ refreshChan' = 0
          /\ pc' = "received"
       \/ /\ elapsed < duration
          /\ refreshChan = 0
          /\ pc' = "select"
          /\ UNCHANGED refreshChan
    /\ UNCHANGED <<ages, health, forceScheduleRefresh, owed,
                   debugSleepDuration, retry, nap, unfed>>

\* time.After fires first.
SleepTimer ==
    /\ pc = "select"
    /\ LET d == Lesser(CheckInterval, duration)
       IN  /\ Elapse(d)
           /\ Age(d)
           /\ elapsed' = elapsed + d
    /\ pc' = "sleep"
    /\ UNCHANGED <<health, requests, debugSleepDuration, retry, duration>>

\* Mutant: the wake-up does not force a refresh.
SleepRefreshUnforced ==
    /\ pc = "received"
    /\ pc' = "start"
    /\ UNCHANGED <<ages, health, requests, debugSleepDuration, retry, nap,
                   unfed>>

\* The refresh case of the select, once the value has been received.
SleepRefresh ==
    /\ pc = "received"
    /\ forceScheduleRefresh' = TRUE
    /\ pc' = "start"
    /\ UNCHANGED <<ages, health, refreshChan, owed, debugSleepDuration, retry,
                   nap, unfed>>

-----------------------------------------------------------------------------
(* The console's commands, between two steps of main.                       *)

\* Mutant: an unbounded channel.
RequestRefreshQueued ==
    /\ pc \in Running
    /\ owed' = TRUE
    /\ refreshChan < 3
    /\ refreshChan' = refreshChan + 1
    /\ UNCHANGED <<pc, ages, health, forceScheduleRefresh, debugSleepDuration,
                   retry, nap, unfed>>

\* "refresh": a non-blocking send.  A main blocked in the select receives the
\* value directly; otherwise it is buffered, or dropped because one is pending.
RequestRefresh ==
    /\ pc \in Running
    /\ owed' = TRUE
    /\ \/ /\ pc = "select"
          /\ pc' = "received"
          /\ UNCHANGED refreshChan
       \/ /\ pc # "select"
          /\ refreshChan' = 1
          /\ UNCHANGED pc
    /\ UNCHANGED <<ages, health, forceScheduleRefresh, debugSleepDuration,
                   retry, nap, unfed>>

\* "sleep <duration>": effective from the next sleep on.
SetDebugSleep(dur) ==
    /\ pc \in Running
    /\ debugSleepDuration' = dur
    /\ UNCHANGED <<pc, ages, health, requests, retry, nap, unfed>>

\* "reboot".
ConsoleReboot ==
    /\ pc \in Running
    /\ Reset

-----------------------------------------------------------------------------

Main ==
    \/ BootOk
    \/ BootFails
    \/ CycleStart
    \/ \E d \in 0 .. NtpMax : NtpSync(d)
    \/ \E d \in 0 .. FetchMax : \/ FetchFails(d)
                                \/ RefreshFails(d)
                                \/ FetchSucceeds(d)
    \/ BackoffSleep
    \/ UpdateLEDs
    \/ SleepCheck
    \/ SleepTimer
    \/ SleepRefresh

Console ==
    \/ RequestRefresh
    \/ \E dur \in DebugSleeps : SetDebugSleep(dur)
    \/ ConsoleReboot

Hardware == WatchdogReset \/ SoftwareReset

Next == Main \/ Console \/ Hardware

Spec == Init /\ [][Next]_vars

\* Main's blocking calls all have timeouts, and the hardware watchdog runs on.
\* Nobody has to use the console.
Fairness == WF_vars(Main) /\ WF_vars(Hardware)

FairSpec == Spec /\ Fairness

-----------------------------------------------------------------------------
(* Properties.                                                              *)

\* The longest sleep, the longest refresh with all of its retries, and the
\* longest time between two LED passes.
LongestNap == LongestSleep + CheckInterval
LongestTry == FetchMax + MqttMaxBackoff
LongestRefresh == NtpMax + MqttMaxRetries * LongestTry + FetchMax
LongestCycle == LongestRefresh + LongestNap

\* A console refresh the device has answered "triggered" or "already pending"
\* is on its way to main until a refresh begins: no path of the sleep, of the
\* loop's head or of a full channel drops it (main.go 294-297, 446-456;
\* console.go 283-290).
RequestKept ==
    owed => refreshChan = 1 \/ forceScheduleRefresh \/ pc = "received"

\* Such a request never waits for a sleep: at most the refresh in progress has
\* to end first (main.go 331-428, 446-456).
RequestPrompt == owedFor <= LongestRefresh

\* While the device is healthy, the last good refresh (or boot) is at most the
\* refresh interval plus one cycle per failure allowed ago, however the
\* failures, the retries and the sleeps fall (main.go 294-401, 470-491).
StalenessBound ==
    systemHealthy =>
        sinceSuccess <=
            ScheduleRefreshInterval + MaxConsecutiveFailures * LongestCycle

\* Two LED passes are at most one sleep and one failing refresh apart, so this
\* is how late the LEDs may follow the 12-hour thresholds (main.go 331-428).
LedFreshness == sinceLeds <= LongestCycle

\* A healthy device has had fewer than maxConsecutiveFailures failed refreshes
\* in a row, in every interleaving with requests and resets, and an unhealthy
\* one never completes another failing refresh (main.go 368-376, 470-479).
FailuresBelowThreshold ==
    /\ systemHealthy => consecutiveFailures < MaxConsecutiveFailures
    /\ ~systemHealthy /\ pc = "fetch" => attempt < MqttMaxRetries

\* What README.md:82 says of the functional watchdog: after 12 hours without a
\* successful refresh the hardware watchdog is no longer fed.
TwelveHourRule ==
    systemHealthy /\ pc \in Running => sinceSuccess < MaxWithoutRefresh

\* A sleep override can take a device past those 12 hours, because the rule is looked
\* at after failed refreshes only; but however long sleeps and failures take and
\* however they mix with requests, never by more than one cycle (main.go 331-457,
\* 481-490).
TwelveHoursSoon ==
    systemHealthy => sinceSuccess < MaxWithoutRefresh + LongestCycle

\* Every console refresh is followed by a refresh that begins after it, unless
\* the device is reset (main.go 294-297, 446-456).
RequestServed == owed ~> ~owed

\* A schedule past its refresh interval is replaced, or the device is reset: no
\* mix of failures, sleeps and requests leaves it running with a stale one for
\* good (main.go 294-401, 470-491).
StaleResolved ==
    (pc \in Running /\ sinceFetch >= ScheduleRefreshInterval)
        ~> (pc = "boot" \/ sinceFetch < ScheduleRefreshInterval)

=============================================================================
