------------------------------- MODULE Schedule -------------------------------
(****************************************************************************)
(* From the broker to the LEDs: fetchScheduleViaMQTT and onMQTTMessage         *)
(* (src/mqtt.go), parseScheduleResponse (src/parse.go), the clock the response *)
(* and NTP set, and updateLEDsFromSchedule (src/bindicator.go).  WakeCycle     *)
(* says when main's loop does these things; here it may do them at any time.   *)
(*                                                                          *)
(* Node-RED answers every request on bindicator/request, whichever unit sent   *)
(* it, with one message on bindicator/response that all subscribed units get.  *)
(*                                                                          *)
(* Time is in quarters of a day since 1970.  A fetch, which its timeouts keep   *)
(* under a minute, may see one of these instants go by.  The clock is never set  *)
(* to a time but moved by an offset, which NTP measures in an exchange that      *)
(* other goroutines run during.                                             *)
(****************************************************************************)
EXTENDS Integers, SequencesExt

CONSTANTS
    Bins,        \* the bins with an LED
    BinUnknown,  \* what parseBinType makes of anything else
    MaxJobs,     \* maxJobs
    Schedules,   \* what Node-RED may send: sequences of entries [day, bin]
    Start,       \* the true time when the device boots
    CutTimes,    \* what is left of a timestamp that is cut off
    Syncers,     \* the goroutines that run syncNTP: "main", "console"
    MaxError,    \* bound of the model: the greatest error of a clock that NTP corrects
    Horizon,     \* bound of the model: the last instant
    MaxInbox     \* bound of the model: messages unread on the connection

Entry == [day : Nat, bin : Bins \cup {BinUnknown}]

ASSUME ScheduleAssumption ==
    /\ BinUnknown \notin Bins
    /\ MaxJobs \in Nat \ {0}
    /\ Schedules \subseteq Seq(Entry)
    /\ Start \in Nat \ {0}
    /\ CutTimes \subseteq 1 .. Start
    /\ Syncers \subseteq {"main", "console"}
    /\ MaxError \in Nat
    /\ Horizon \in Nat /\ Horizon >= Start /\ MaxInbox \in Nat

VARIABLES
    now,               \* the true time
    behind,            \* by how much the clock is behind
    exchange,          \* per goroutine in syncNTP: the offset DoNTP has measured
    pc,                \* where main's loop is
    ticked,            \* an instant has gone by during this fetch
    gotResponse,       \* set by onMQTTMessage
    responseBuf,       \* what it has read: a timestamp (0 for none), entries
    jobStorage,        \* the jobs
    ledState,          \* the LEDs that are on
    bindicatorPaused,  \* an OTA session is under way
    inbox,             \* messages that wait on the connection
    read,              \* history: what responseBuf is read from
    applied,           \* history: what jobStorage comes from
    fresh,             \* history: whose offset was measured on the clock as it is
    trusted            \* history: that clock was set from one of these, or by a
                       \* whole timestamp

clock == <<behind, exchange, fresh, trusted>>
buffer == <<gotResponse, responseBuf, read>>
stored == <<jobStorage, applied>>
leds == <<ledState, bindicatorPaused>>
device == <<clock, pc, ticked, buffer, stored, leds>>
vars == <<now, device, inbox>>

Message == [time : 0 .. Horizon, entries : Schedules \cup {<<>>}]

\* Of a message, the entries that one Read got and whether it got the timestamp.
Reading(entries, n, whole) == [entries |-> entries, n |-> n, whole |-> whole]

Job == [day : Nat \ {0}, bin : Bins]

TypeOK ==
    /\ now \in Start .. Horizon
    /\ behind \in Int
    /\ exchange \in [Syncers -> Seq(Int)]
    /\ \A g \in Syncers : Len(exchange[g]) <= 1
    /\ pc \in {"asleep", "ntp", "ready", "dialling", "acking", "waiting", "leds"}
    /\ ticked \in BOOLEAN /\ gotResponse \in BOOLEAN
    /\ bindicatorPaused \in BOOLEAN
    /\ responseBuf.time \in 0 .. Horizon
    /\ jobStorage \in Seq(Job) /\ Len(jobStorage) <= MaxJobs
    /\ ledState \subseteq Bins
    /\ inbox \in Seq(Message) /\ Len(inbox) <= MaxInbox
    /\ inbox # <<>> => pc \in {"acking", "waiting"}
    /\ fresh \subseteq Syncers /\ trusted \in BOOLEAN

\* The clock starts in 1970.  The sync before the loop, while nobody else is there,
\* may have set it.
Init ==
    /\ now = Start
    /\ \/ behind = Start /\ trusted = FALSE
       \/ behind = 0 /\ trusted = TRUE
    /\ exchange = [g \in Syncers |-> <<>>]
    /\ pc = "asleep"
    /\ ticked = FALSE
    /\ gotResponse = FALSE
    /\ responseBuf = [time |-> 0, entries |-> <<>>]
    /\ jobStorage = <<>>
    /\ ledState = {}
    /\ bindicatorPaused = FALSE
    /\ inbox = <<>>
    /\ read = Reading(<<>>, 0, FALSE)
    /\ applied = Reading(<<>>, 0, FALSE)
    /\ fresh = {}

-----------------------------------------------------------------------------
(* The schedule and the clock.                                              *)

\* What time.Now() returns.
Clock == now - behind

Midnight(day) == 4 * day
Noon == 2

\* An entry with a date, and a colon and a bin's name after it.
IsJob(entry) == entry.day > 0 /\ entry.bin \in Bins

\* An entry's job, if it has one and there is room, goes behind the others.
AddJob(jobs, entry) ==
    IF Len(jobs) < MaxJobs /\ IsJob(entry) THEN Append(jobs, entry) ELSE jobs

\* Mutant: the jobs of the last response are not cleared.
ParseMore(entries) == FoldLeft(AddJob, jobStorage, entries)

\* Mutant: the capacity is found out after the job has been stored.
ParsePastEnd(entries) ==
    FoldLeft(LAMBDA jobs, e : IF Len(jobs) <= MaxJobs /\ IsJob(e)
                              THEN Append(jobs, e) ELSE jobs,
             <<>>, entries)

\* parseScheduleResponse fills a cleared jobStorage up to its capacity.
parseScheduleResponse(entries) == FoldLeft(AddJob, <<>>, entries)

\* Mutant: the window opens at the midnight before the collection.
InWindowLate(job, t) ==
    /\ t > Midnight(job.day)
    /\ t < Midnight(job.day) + Noon

\* From noon on the day before the collection to noon on its day, both excluded.
InWindow(job, t) ==
    /\ t > Midnight(job.day) - Noon
    /\ t < Midnight(job.day) + Noon

-----------------------------------------------------------------------------
(* main's loop.                                                             *)

\* A cycle without a refresh goes straight to the LEDs.
WakeForLEDs ==
    /\ pc = "asleep"
    /\ pc' = "leds"
    /\ UNCHANGED <<now, clock, ticked, buffer, stored, leds, inbox>>

\* One with a refresh synchronizes the clock by NTP first.
WakeForRefresh ==
    /\ pc = "asleep"
    /\ pc' = "ntp"
    /\ UNCHANGED <<now, clock, ticked, buffer, stored, leds, inbox>>

\* Mutant: the response of an earlier fetch is still there.
BeginFetchUnreset ==
    /\ pc = "ready"
    /\ pc' = "dialling"
    /\ UNCHANGED <<now, clock, ticked, buffer, stored, leds, inbox>>

\* fetchScheduleViaMQTT up to the dial.
BeginFetch ==
    /\ pc = "ready"
    /\ pc' = "dialling"
    /\ gotResponse' = FALSE
    /\ responseBuf' = [time |-> 0, entries |-> <<>>]
    /\ read' = Reading(<<>>, 0, FALSE)
    /\ UNCHANGED <<now, clock, ticked, stored, leds, inbox>>

\* The broker has accepted the connection and the subscription.
Subscribe ==
    /\ pc = "dialling"
    /\ pc' = "acking"
    /\ UNCHANGED <<now, clock, ticked, buffer, stored, leds, inbox>>

\* Mutant: a message does not set the length, so that what is left of a longer
\* one stays behind it.
OnMQTTMessageTail(n, time) ==
    LET entries == Head(inbox).entries IN
    /\ responseBuf' =
          [time    |-> time,
           entries |-> SubSeq(entries, 1, n) \o
                       SubSeq(responseBuf.entries, n + 1, Len(responseBuf.entries))]
    /\ gotResponse' = TRUE
    /\ read' = Reading(entries, n, time = Head(inbox).time)

\* onMQTTMessage: one Read puts the first n entries of a message into responseBuf,
\* whose size or the TCP segment may not hold the rest.  An entry that is cut has no
\* bin's full name left and is no job.
OnMQTTMessage(n, time) ==
    /\ responseBuf' = [time    |-> time,
                       entries |-> SubSeq(Head(inbox).entries, 1, n)]
    /\ gotResponse' = TRUE
    /\ read' = Reading(Head(inbox).entries, n, time = Head(inbox).time)

\* client.HandleNext, in the wait for the acknowledgment of the subscription or for
\* the response.  In the first, a message to another unit's request is taken as well.
\* A Read that ends inside the timestamp gets a smaller number and no entry.
HandleNext ==
    /\ inbox # <<>>
    /\ pc = "acking" \/ (pc = "waiting" /\ ~gotResponse)
    /\ \/ \E n \in 0 .. Len(Head(inbox).entries) : OnMQTTMessage(n, Head(inbox).time)
       \/ Head(inbox).time > 0 /\ \E time \in CutTimes : OnMQTTMessage(0, time)
    /\ inbox' = Tail(inbox)
    /\ UNCHANGED <<now, clock, pc, ticked, stored, leds>>

\* The request goes out.  Nobody has to answer it.
Publish ==
    /\ pc = "acking"
    /\ pc' = "waiting"
    /\ UNCHANGED <<now, clock, ticked, buffer, stored, leds, inbox>>

\* Mutant: the jobs are cleared when the fetch begins to parse, response or not.
FetchFailsClears ==
    /\ \/ pc \in {"dialling", "acking"}
       \/ pc = "waiting" /\ ~gotResponse
    /\ pc' \in {"ready", "leds"}
    /\ jobStorage' = <<>>
    /\ ticked' = FALSE
    /\ inbox' = <<>>
    /\ UNCHANGED <<now, clock, buffer, applied, leds>>

\* A step of the fetch fails or the wait for the response times out: another
\* attempt, or the LEDs with the jobs there are.
FetchFails ==
    /\ \/ pc \in {"dialling", "acking"}
       \/ pc = "waiting" /\ ~gotResponse
    /\ pc' \in {"ready", "leds"}
    /\ ticked' = FALSE
    /\ inbox' = <<>>
    /\ UNCHANGED <<now, clock, buffer, stored, leds>>

\* The response is parsed.  The difference between its timestamp and the clock is
\* taken and applied without a pause: the clock is at the timestamp.
FetchSucceeds ==
    /\ pc = "waiting"
    /\ gotResponse
    /\ pc' = "leds"
    /\ jobStorage' = parseScheduleResponse(responseBuf.entries)
    /\ applied' = read
    /\ IF responseBuf.time > 0
       THEN /\ behind' = now - responseBuf.time
            /\ fresh' = {} /\ trusted' = read.whole
       ELSE UNCHANGED <<behind, fresh, trusted>>
    /\ ticked' = FALSE
    /\ inbox' = <<>>
    /\ UNCHANGED <<now, exchange, buffer, leds>>

\* Mutant: an LED that is on is not switched off.
UpdateLEDsOnly ==
    /\ pc = "leds"
    /\ pc' = "asleep"
    /\ ledState' =
          IF bindicatorPaused THEN ledState
          ELSE ledState \cup
               {b \in Bins : \E i \in 1 .. Len(jobStorage) :
                   jobStorage[i].bin = b /\ InWindow(jobStorage[i], Clock)}
    /\ UNCHANGED <<now, clock, ticked, buffer, stored, bindicatorPaused, inbox>>

\* updateLEDsFromSchedule, which does nothing during an OTA session.
UpdateLEDs ==
    /\ pc = "leds"
    /\ pc' = "asleep"
    /\ ledState' =
          IF bindicatorPaused THEN ledState
          ELSE {b \in Bins : \E i \in 1 .. Len(jobStorage) :
                   jobStorage[i].bin = b /\ InWindow(jobStorage[i], Clock)}
    /\ UNCHANGED <<now, clock, ticked, buffer, stored, bindicatorPaused, inbox>>

-----------------------------------------------------------------------------
(* syncNTP, in main's loop or for the console's ntp-sync.                      *)

\* main is in it between its wake-up and the fetch; the console may always be.
Syncing(g) == g = "main" => pc = "ntp"

\* main goes on to the fetch.
Return(g) == pc' = IF g = "main" THEN "ready" ELSE pc

\* DoNTP compares the clock with a server's, in the middle of its exchange.  The
\* goroutine hears of it when it runs again.
DoNTP(g) ==
    /\ Syncing(g)
    /\ behind \in -MaxError .. MaxError
    /\ exchange' = [exchange EXCEPT ![g] = <<behind>>]
    /\ fresh' = fresh \cup {g}
    /\ UNCHANGED <<now, behind, trusted, pc, ticked, buffer, stored, leds, inbox>>

\* Mutant: the offset is taken the wrong way round.
AdjustTimeOffsetBack(g) ==
    /\ Syncing(g)
    /\ exchange[g] # <<>>
    /\ behind' = behind + exchange[g][1]
    /\ exchange' = [exchange EXCEPT ![g] = <<>>]
    /\ fresh' = {} /\ trusted' = (g \in fresh)
    /\ Return(g)
    /\ UNCHANGED <<now, ticked, buffer, stored, leds, inbox>>

\* The offset moves the clock, from wherever it is by now.
AdjustTimeOffset(g) ==
    /\ Syncing(g)
    /\ exchange[g] # <<>>
    /\ behind' = behind - exchange[g][1]
    /\ exchange' = [exchange EXCEPT ![g] = <<>>]
    /\ fresh' = {} /\ trusted' = (g \in fresh)
    /\ Return(g)
    /\ UNCHANGED <<now, ticked, buffer, stored, leds, inbox>>

\* No server has a name or answers in time.
SyncFails(g) ==
    /\ Syncing(g)
    /\ exchange' = [exchange EXCEPT ![g] = <<>>]
    /\ fresh' = fresh \ {g}
    /\ Return(g)
    /\ UNCHANGED <<now, behind, trusted, ticked, buffer, stored, leds, inbox>>

-----------------------------------------------------------------------------
(* The console, the OTA server, and the world outside.                       *)

\* led-green, led-black, led-brown.
ToggleLED(b) ==
    /\ ledState' = (ledState \ {b}) \cup ({b} \ ledState)
    /\ UNCHANGED <<now, clock, pc, ticked, buffer, stored, bindicatorPaused, inbox>>

SetBindicatorPaused(p) ==
    /\ bindicatorPaused # p
    /\ bindicatorPaused' = p
    /\ UNCHANGED <<now, clock, pc, ticked, buffer, stored, ledState, inbox>>

\* Time passes, and at most one instant goes by during a fetch.
Tick ==
    /\ now < Horizon
    /\ pc \in {"dialling", "acking", "waiting"} => ~ticked
    /\ now' = now + 1
    /\ ticked' = (pc \in {"dialling", "acking", "waiting"})
    /\ UNCHANGED <<clock, pc, buffer, stored, leds, inbox>>

\* Node-RED publishes a response with the time it is made, which reaches this unit
\* if it is subscribed.  Any unit may have sent the request.
Reply ==
    /\ pc \in {"acking", "waiting"}
    /\ Len(inbox) < MaxInbox
    /\ \E s \in Schedules : inbox' = Append(inbox, [time |-> now, entries |-> s])
    /\ UNCHANGED <<now, device>>

\* Somebody publishes an empty message on the topic.
EmptyMessage ==
    /\ pc \in {"acking", "waiting"}
    /\ Len(inbox) < MaxInbox
    /\ inbox' = Append(inbox, [time |-> 0, entries |-> <<>>])
    /\ UNCHANGED <<now, device>>

Main ==
    \/ WakeForLEDs
    \/ WakeForRefresh
    \/ BeginFetch
    \/ Subscribe
    \/ HandleNext
    \/ Publish
    \/ FetchFails
    \/ FetchSucceeds
    \/ UpdateLEDs

Next ==
    \/ Main
    \/ \E b \in Bins : ToggleLED(b)
    \/ \E p \in BOOLEAN : SetBindicatorPaused(p)
    \/ \E g \in Syncers : DoNTP(g) \/ AdjustTimeOffset(g) \/ SyncFails(g)
    \/ Tick
    \/ Reply
    \/ EmptyMessage

Spec == Init /\ [][Next]_vars

\* main's loop goes round: every wait in a fetch has a timeout, the attempts are
\* counted (WakeCycle), and the loop sleeps for a bounded time.
FairSpec ==
    /\ Spec
    /\ WF_vars(WakeForLEDs \/ UpdateLEDs)
    /\ WF_vars(AdjustTimeOffset("main") \/ SyncFails("main"))
    /\ WF_vars(BeginFetch \/ Subscribe \/ Publish \/ FetchFails \/ FetchSucceeds)
    /\ SF_vars(FetchFails /\ pc' = "leds")

-----------------------------------------------------------------------------
(* Properties.                                                              *)

\* jobs are the first ones among the first n entries, each in its rank's place.
Valid(entries, n) == {i \in 1 .. n : IsJob(entries[i])}

Rank(entries, i) == Cardinality(Valid(entries, i))

AreJobsOf(jobs, entries, n) ==
    /\ Len(jobs) = IF Rank(entries, n) < MaxJobs THEN Rank(entries, n) ELSE MaxJobs
    /\ \A i \in Valid(entries, n) :
          Rank(entries, i) <= MaxJobs => jobs[Rank(entries, i)] = entries[i]

\* The jobs are the first ones of what was read of the response that was parsed last:
\* nothing of another stays among them, whatever was cut off, and failed fetches leave
\* them as they are (parse.go 11-75, mqtt.go 180-189, 205-220; README.md:42).
JobsOfOneResponse == AreJobsOf(jobStorage, applied.entries, applied.n)

\* A clock that was set last by a response whose timestamp was read whole, or by an
\* NTP exchange during which nobody else set it, is behind by no more than the
\* duration of a fetch: the response was made during the fetch, and not before it
\* (mqtt.go 63-65, 191-199, main.go 578-594).
ClockFollows == trusted => behind \in 0 .. 1

\* "The device syncs time via NTP immediately after WiFi connection and on each schedule
\* refresh cycle. This ensures accurate timestamps for telemetry and LED timing from
\* boot." (README.md:168): a sync that succeeds leaves the clock right (main.go 578-594).
SyncsTime ==
    [][\A g \in Syncers : AdjustTimeOffset(g) => behind' \in 0 .. 1]_vars

\* "Maintains LED state on network errors" (README.md:42): while Node-RED sends nothing
\* but schedules with jobs, the jobs that light the LEDs are replaced by others, never
\* by none (mqtt.go 180-189, parse.go 11-17).
JobsKept == [][jobStorage # <<>> => jobStorage' # <<>>]_vars

\* What the README promises for an LED (README.md:39-40): it is on in the afternoon
\* before a collection of its bin and in the morning of that day.
Due(b) ==
    LET day     == Clock \div 4
        quarter == Clock % 4
        Collected(d) == [day |-> d, bin |-> b] \in ToSet(jobStorage)
    IN  \/ quarter < Noon /\ Collected(day)
        \/ quarter > Noon /\ Collected(day + 1)

LedsRight == ledState = {b \in Bins : Due(b)}

\* Outside an OTA session an update leaves every LED as promised, whatever the
\* console has done to it and whatever fetches failed before (bindicator.go 136-211).
LedsFollowSchedule ==
    [][UpdateLEDs /\ ~bindicatorPaused => LedsRight']_vars

\* The LEDs become right again and again, unless OTA sessions never end
\* (main.go 284-428; bindicator.go 136-211).
LedsSettle == <>[](~bindicatorPaused) => []<>LedsRight

=============================================================================
