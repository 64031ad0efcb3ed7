# Bindicator: TLA+ models and proofs

This directory is a verification development for the firmware of the Openenterprise
Bindicator, a Raspberry Pi Pico 2 W (RP2350) that shows on three LEDs which rubbish bins
to put out. The firmware is Go for TinyGo. It fetches a collection schedule over MQTT,
keeps the clock by NTP, sends logs, metrics and traces to an OpenTelemetry collector, and
offers a debug console and over-the-air updates on two TCP ports. All paths below are
relative to the root of the repository (`main.go` is `src/main.go` here), and all line
numbers refer to the commit these files were written for.

`PROJECT.json` has the machine-readable side: which definition stands for which lines,
the runs, a mutant for every property, the hazards, the findings and the theorems.

## 1. Inventory

### 1.1 Concurrency

There is no parallelism. The program is built with `-scheduler=tasks` (`Makefile:27`), a
cooperative scheduler: a goroutine runs until it blocks in a sleep, a channel operation or
a call into the network library. What lies between two such points is atomic, and the
models use that: an action is a piece of code from one blocking point to the next. Where
this matters for correctness it is said below.

| goroutine | code | what it does |
|---|---|---|
| main loop | `main.go:284-428` | wake cycle: refresh, LEDs, sleep |
| network stack | `main.go:503-517` (`loopForeverStack`) | polls the WiFi chip; also feeds the hardware watchdog |
| console | `console.go:69-165` | one telnet client at a time |
| OTA server | `ota_server.go:127-225` | one update client at a time, while enabled |
| telemetry sender | `telemetry/telemetry.go:413-431` | flushes the queues every 30 s |

### 1.2 Components

**Wake cycle** (`main.go`). *State*: timestamps of the last fetch and the last success,
the count of consecutive failures, `systemHealthy`, the flag `forceScheduleRefresh`, the
one-slot channel `refreshChan`, the console's sleep override. *Operations*: boot, the
decision to refresh, NTP, up to four MQTT attempts with backoffs of 16, 32 and 60 s, the
health check, the LED pass, a sleep in steps of 5 s that a console request cuts short,
resets. *Hard*: a request can arrive at any of these points, the failure of one part must
not delay the others for good, and three timeouts (refresh interval, sleep, watchdog) act
on each other. *Correct when*: no request is lost or waits for a sleep, staleness and LED
latency have a bound, the failure threshold is exact, a stale schedule is replaced or the
device resets.

**Schedule and LEDs** (`mqtt.go`, `parse.go`, `bindicator.go`, and the flow in
`nodered/bindicator-flow.json`). *State*: `responseBuf` and `gotResponse`, the jobs, the
LEDs, `bindicatorPaused`, the clock and the offsets that NTP has measured for it.
*Operations*: connect, subscribe, publish, receive, parse, move the clock by a response or
by NTP, update LEDs, console toggles. *Hard*: every unit hears the responses to every other,
messages come before the request or not at all, entries and timestamps are cut off, and two
goroutines measure offsets that each applies later. *Correct when*: the jobs are those of
one response and outlive failures, the clock is not behind by more than a fetch, the LEDs
are what the schedule says.

**OTA session, flash and partitions** (`ota_server.go:229-450`, `ota/ota.go`). *State*:
the two partitions, which one runs and which one a reset boots, the erased sectors, the
write position, the hash, the chunk. *Operations*: read a chunk, erase the sectors it
touches for the first time, program its pages, compare the hash at `DONE`, reboot, confirm,
and the boot ROM's choice of a partition. *Hard*: chunks share sectors and may end inside
pages, offsets are 32-bit, a reset may come between any two flash operations, the hash line
may come in parts, confirming can fail. *Correct when*: the
target holds the hashed stream, nothing is programmed over data, the running partition is
untouched, `VERIFIED` means the client's image, and seen from outside the device goes from
one whole firmware to another in a single step.

**Firmware push** (`cmd/cli/main.go`, `otaPush` with `extractUF2Binary` and `otaEnable`).
*State*: the file, the offset sent, the connection, unread answers. *Operations*: extract
the firmware from UF2 blocks, enable, connect, `OTA`/`READY`, chunk/`ACK`, `DONE`/`VERIFIED`.
*Hard*: the client's timeouts are not the device's, an answer may come in pieces, each side
can give up while a message is under way, another client may be served in between.
*Correct when*: "Firmware verified!" is only said of a device whose target partition holds
what the file spells out.

**OTA window** (`ota_server.go:22-225`). *State*: enabled, since when, for how long; the
connection; the pauses of telemetry and LEDs. *Operations*: `OTAEnable`, `OTADisable`,
`OTAIsEnabled` (which closes an expired window), listen, accept, session, clean up. *Hard*:
expiry races the client and the next enable; `telemetry.Pause` waits for other goroutines.
*Correct when*: one session per enable, no POST during a session, everything resumes.

**Telemetry queues** (`telemetry/telemetry.go`, `telemetry/json.go`). Circular log and
metric queues; log, flush, pause; the JSON writer with its fixed `BodyBuf`; statistics.
*Hard*: a body that is too long is cut anywhere and sent all the same, after the queue was
cleared. *Correct when*: a flush sends the last entries in order, and `SentLogs` counts no
record that the collector does not have.

**Log handler** (`telemetry/slog.go`). Makes an entry of a record: level, message,
attributes as far as they fit. It keeps no changing state.

**Telemetry spans** (`telemetry/telemetry.go:255-387`). Four slots, a current parent;
start, end, flush. A handle outlives the slot it names when the slot is taken over.
*Correct when*: no span is sent twice, leaks its slot or gets the wrong parent.

**Telemetry sender** (`telemetry/telemetry.go:412-691`). Three goroutines may flush (the
sender, the console's `telemetry-flush`, the OTA server before its reboot); they share one
body buffer and one wait group.

**Debug console** (`console.go`). *State*: authentication failures and the time of the
last one, the line buffer, the telnet skip counter. *Hard*: input is cut into arbitrary
chunks, telnet sequences have several lengths, and three ways to give a wrong answer must
count alike. *Correct when*: commands are the lines without telnet's sequences, the lockout
holds, the console comes back after a client.

**NTP** (`syncNTP`, `main.go:526-613`). *State*: none but the clock. *Operations*: measure an
offset in an exchange with a server, apply it, fail. *Hard*: main and the console's `ntp-sync`
run it side by side, and a response sets the clock as well.

The other commands of the **command-line client**, **configuration**, **network stack** (a
library): see section 7.

### 1.3 Interactions

- console -> wake cycle: `refreshChan`, `debugSleepDuration`, `reboot`
- console -> LEDs: toggles; console -> clock: `ntp-sync`
- console -> OTA window: `OTAEnable`; console -> telemetry: `telemetry-flush`
- wake cycle -> schedule: fetch, LED pass; -> spans: start and end; -> queues: log, metrics
- OTA server -> telemetry: `Pause`, `Resume`, final flush; -> LEDs: `SetBindicatorPaused`
- OTA session -> flash -> boot ROM -> a new boot of everything
- command-line client -> console (`ota-enable`) -> OTA window -> OTA session
- `slog` -> log handler -> queue -> writer -> collector

Each interaction is an action of the module of the component acted upon: the console's
`refresh` is `WakeCycle!RequestRefresh`, `ota-enable` is `OtaServer!OTAEnable`, and so on.

## 2. Modules

| module | models | extends |
|---|---|---|
| `WakeCycle` | main loop, health, sleep, console requests, resets | |
| `Schedule` | fetch, parser, clock, NTP, LEDs | |
| `FirmwareUpdate` | abstract: one whole firmware, replaced in one step | |
| `OtaSession` | update session, flash, partitions, boot and confirmation; implements `FirmwareUpdate` | |
| `UF2` | `extractUF2Binary`, and what a UF2 file spells out | |
| `OtaPush` | the client's push, the connection and the session on the device | `OtaSession`, `UF2` |
| `OtaServer` | OTA window and loop, composed with the flushers | `TelemetrySender` |
| `TelemetrySender` | the flushers, the body buffer, pause | |
| `BoundedLog` | abstract: the last N entries in order | |
| `TelemetryQueue` | the circular queue; implements `BoundedLog` | |
| `TelemetryBody` | log record to collector: handler, queue, JSON in `BodyBuf`, statistics | `TelemetryQueue` |
| `SpanQueue` | span slots, composed with the wake cycle that uses them | |
| `Console` | connections, lockout, authentication, line splitting | |
| `MCWakeCycle`, `MCSchedule`, `MCOtaSession`, `MCOtaPush`, `MCTelemetryBody`, `MCConsole` | small instances | the module named |
| `WakeCycleProofs`, `OtaSessionProofs`, `OtaPushProofs`, `OtaServerProofs`, `SpanQueueProofs`, `ScheduleProofs`, `ConsoleProofs` | theorems | the module named, `TLAPS` |
| `TelemetryQueueProofs` | theorems | `TelemetryBody`, `TLAPS` |

The other modules are checked as they are. Definitions keep the source's names where there
is one (`flushLogs`, `getLockoutDuration`, `sendingWg`). A definition whose comment begins
with `Mutant:` is not part of a specification: it is a plausible bug in the definition that
follows, used to see that a property can fail. Variables marked `history` are read by
properties only.

### How state and actions correspond to the code

**WakeCycle.** `pc` is where main blocks: `ntp` in `syncNTP`, `fetch` in
`fetchScheduleViaMQTT`, `backoff` in `sleepWithWatchdog`, `select` in the sleep's select;
`start`, `leds`, `sleep` and `received` are where the code goes on from there. Timestamps
are ages (`sinceFetch` is `time.Since(lastScheduleFetch)`), which blocking actions increase
by what they take, up to `AgeCap`. A failing refresh goes through all the retries, as in
the code. `systemHealthy` becomes false in `CheckSystemHealth` and `fatalError` only; from
then on `unfed` grows and no more time can pass than the watchdog's period. `Reset` is
every reset: all of RAM is lost.

**Schedule.** `pc` follows `fetchScheduleViaMQTT`; `HandleNext` is possible in the wait for
the subscription's acknowledgement as well as in the wait for the response. A message is a
timestamp and a sequence of entries; `OnMQTTMessage(n, time)` is the single `Read` that may
get only the first n entries, or a part of the timestamp, which parses to a smaller number
(`CutTimes`). Time is in quarters of a day, so noon and midnight, where the LED rule has its
strict comparisons, are instants of their own. Jobs and LEDs are used by
`updateLEDsFromSchedule` in the same terms. The clock is `now - behind`, and what the code
does to it is to move it: `FetchSucceeds` takes the difference to the timestamp and applies
it without blocking in between, so there the clock is set. `syncNTP` blocks in between:
`DoNTP(g)` notes the offset in `exchange[g]` at the instant of the exchange at which it is
exact, `AdjustTimeOffset(g)` applies it to the clock as it is by then, for g the main loop or
the console, with any other step between the two. `fresh` and `trusted` are history: whose
offset still fits the clock, and whether the clock was last set from such an offset or from a
whole timestamp. `read` and `applied` say which part of which message was read and parsed
last.

**OtaSession.** `flash` is a function from addresses to cells: the partition table, the two
partitions, and what lies beyond. The chip erases sectors and programs pages. A write of a
chunk programs every page that it touches (`Program`): the data goes to the chunk's own cells
if they are erased and the write begins on a page; the rest of the last page, cells that are
programmed twice, and everything in a write that begins inside a page get contents that
nobody specifies. That is what the ROM's `flash_range_program` is documented to need
(datasheet, 5.4.8: an aligned address and a multiple of 256 bytes), and the code passes it any
length. `hashed` is the stream fed to SHA-256 and stands for the hash. The erase loop is one
action per sector, a chunk's programming one, so that a reset can come between any two of
them. `endSector` is computed modulo `WordSize`, as in `uint32`. `EraseSector` and `WriteChunk` of
`ota/ota.go` never return an error (a missing ROM function makes them do nothing), so the
error branches after them have no action.

`current` is the partition that runs and `bought` the one a normal boot takes; the running
firmware is on trial when they differ. `RebootToPartition` boots the target on trial, `Reset`
is every other start of the device: power loss, the watchdog, the end of the 16.7 s of a
trial. It takes the bought partition, and none is left once a session has erased a sector of
it (`phase = "dead"`). `ConfirmPartition` is the first thing a boot does. It may succeed or return an
error (`BuyResults`), and main goes on in both cases, so a session may begin on unconfirmed
firmware. The ROM's `explicit_buy` (external, `Bought`) is taken to be atomic: it marks the
running firmware, which `bought` stands for instead of a cell, and it may erase the first
sector of the other partition, as the datasheet says it does for some layouts.

`FirmwareUpdate` sees what runs, what a reset would boot, and whether the two differ;
sessions, erasing and programming are stutters as long as the bought partition is not the
target. The reboot is `Install`, a confirmation that succeeds `Confirm`, a reset `Revert`; the
first erase by a session of unconfirmed firmware is `Forfeit`, a reset after it `Die`.

**UF2.** A block is a record (magic right or not, address, claimed size, payload). Addresses
are 32-bit and wrap. `extractUF2Binary` says for each byte which block wrote it last;
`SpeltBy` says what a firmware has to be for a file, from the blocks alone.

**OtaPush.** `step` follows `otaPush`; `request` and `answer` are what is under way in each
direction. Client and device take turns, so one message each is enough. An answer may be
read in part (`stale`), and what is left spoils the next one. `ReportFailure` is every error
return, timeout and interrupt of the client; what it had sent may still arrive. The device's
steps are those of `OtaSession`, with the connection as their input for this client and
`OtherSends` for others, whom the port serves while nobody is pushing. There is one user:
another client's session does not begin during a push (the window allows one connection, and
it is the user who opened it). Others send cells of `OtherData`, any subset of `Data`.

**OtaServer, TelemetrySender.** `pc` follows `otaServerLoop`; `at[f]` where each flusher is:
outside, between two queues, or in a POST. Taking a queue, building the body and announcing
the POST (`sendingWg.Add`) is one step, because nothing in it blocks. A POST writes its
body in parts with a sleep before each; `BodyBuf` says which flush each part is from.

**TelemetryQueue.** Slots, head and count as in the code. `BuildLogsJSON` is the sequence
of entries in the order they are written; `body` what a flush wrote. The metric queue is
the same code with other names.

**TelemetryBody.** An entry is its severity, the length of its text and whether it belongs to
a trace. `Record` is what `BuildLogsJSON` asks the `jsonWriter` for, in order and with the
widths of the source, and `WriteRecords` its loop over the queue: a fixed fragment is left out
whole when it does not fit (`Write`), a value is cut off at the end. The collector (external) takes a body that `Parses`: every piece may
follow the one before and what was opened is closed. The answer may get lost.

**SpanQueue.** A slot has `Active`, `Pending`, `Ended` (`EndTime # 0`) and its three
identifiers. `StartSpan` and `EndSpan` are relations that the wake cycle's actions use with
its real handles (`cycleSpanIdx`, `childIdx`), in the order of the main loop, with a flush,
`Pause` or `Resume` between any two.

**Console.** A byte is a printable character, a line end, one of telnet's own (IAC, the four
negotiations, SB, SE) or another one that is not printed. `arrived` is what has not been
read; every read takes at most `ReadSize` bytes of it; `ScanByte` is the loop body of
`handleConsoleSession`, with its skip of two bytes after an IAC, `Complete` its branch for a
line end. The properties do not scan. They take telnet's sequences from RFC 854: `InSequence`
says that a sequence has two bytes, three for a negotiation, and that a subnegotiation goes up
to an IAC SE that is not part of a pair; a sequence begins at every IAC that belongs to no
earlier one (`AreBeginnings`). From that follows which bytes are visible, and in which column
of which line each is. `CommandsAreLines` says it of clients that send negotiations only,
which is what telnet clients do when they connect, and for which the code's rule is right;
`TelnetIsLeftOut` says it of all of telnet's commands and does not hold (section 6).
`rejected` and `sinceRejected` count wrong answers independently of `authFailures` and
`lastFailureTime`.

## 3. Runs

*pass* runs explore their whole state space and find no error; *violation* runs
check one statement of a document or comment and find a behaviour of the code against it.

| run | module, configuration | what it checks |
|---|---|---|
| `wake_cycle` | `MCWakeCycle`, `WakeCycle.cfg` | requests kept, prompt and served; bounds on staleness and LED latency; failure threshold; the 12-hour rule is late by less than a cycle; a stale schedule does not stay |
| `schedule` | `MCSchedule`, `Schedule.cfg` | jobs of one response, kept by failed fetches; a clock set last by a whole timestamp or an undisturbed NTP exchange is behind by a fetch at most; LED rule; LEDs recover |
| `ota_session` | `MCOtaPush`, `OtaPush.cfg` | pushes, other clients, resets and confirmations that fail: flash holds the stream; erased pages only; VERIFIED; a reported push is true; running partition; implements `FirmwareUpdate`; the session ends |
| `ota_server` | `OtaServer`, `OtaServer.cfg` | no POST in a session; one session per enable; pauses end; the port closes |
| `telemetry_queue` | `MCTelemetryBody`, `TelemetryQueue.cfg` | implements `BoundedLog`; no record counted that did not arrive |
| `spans` | `SpanQueue`, `SpanQueue.cfg` | no span stranded, sent twice, wrongly parented; no slot leaks |
| `console` | `MCConsole`, `Console.cfg` | commands are lines without telnet's negotiations; lockout; the console comes back |
| `late_hash`, `zero_chunk`, `lost_enable`, `mixed_bodies`, `telnet_commands` | see section 6 | findings |

Five more configurations are no runs of `PROJECT.json`, but have a violation each, which section 6
explains: `RaggedChunks.cfg`, `Unconfirmed.cfg`, `TwoSyncs.cfg`, `WipedJobs.cfg`, `SpanLost.cfg`.

Deadlock is checked in every passing run; only `lost_enable` and `mixed_bodies`, which are
about one step each, switch that off.

### Bounds, and why they are enough

- **WakeCycle**: one tick is about 5 s scaled; sleep 2, override shorter and longer than it
  and `sleep 0`, refresh interval 8, retries and failure threshold at their real values (3
  and 3), three growing backoffs with the last one capped. `MaxWithoutRefresh` (44) is early
  enough for a cycle to begin before it and end behind it; `AgeCap` (90) lies beyond the bounds
  that `StalenessBound` and `TwelveHoursSoon` give, so neither is met by saturation. The
  theorems remove these bounds.
- **Schedule**: two bins, room for two jobs, one schedule with an entry that is no job, two bins
  on one day, consecutive days and one entry too many; its cuts give every shorter one. Three
  instants around the first collection's windows, for a clock that may be ahead or behind by
  `MaxError` and, with a cut timestamp, at its first instant. One unread message; main and the
  console in `syncNTP` at once. `MaxError` bounds the error of a clock that is corrected: offsets
  applied twice could otherwise grow without end. At most one instant goes by during a fetch,
  whose timeouts keep it under a minute. Cuts fall between entries (an entry cut in two is no
  job) or inside the timestamp, which leaves one small number of the possible ones. NTP is exact
  at one instant of its exchange; what rounding and network delay leave is not modelled.
- **OtaSession, OtaPush** (`ota_session`): partitions of two sectors of two pages of two cells.
  Three tracked sectors, one more than a partition has, as the code's 512 are more than 496. Every
  value of `BuyResults`. The client sends a firmware of three cells (a whole chunk, one that ends
  inside a page, `DONE`) with two values of data, from files in and out of order, with a gap,
  with a block written over, and two that are refused; its hash may come late. Other clients send
  chunks of a page, of a sector, of a part of a page, and empty ones, so that chunks share sectors,
  straddle them, end inside pages and fill the partition; a length of 5 is refused. They send one
  value of data, as a cell that lost its data is `Erased`, `Garbage` or `Old`. Their hash is in
  time (`late_hash` has the other case), since otherwise a wrong image would be on the device by
  their doing; their chunks begin on pages (`WholePages`), as those of the repository's client do,
  and the first is not empty (`FirstNotEmpty`): `RaggedChunks.cfg` and `zero_chunk` are without
  these.
- **OtaServer**: two of the three queues (an ordinary one and the spans, which can still be
  filled while paused; the third is one more of the first kind), bodies of one part, one
  timeout.
- **TelemetryBody**: three slots, so every wrap and overflow; a short record and a long one,
  each with and without a trace, one that is not queued; widths of the source, and a body
  (970 bytes for 2048) that ends in every part of a record for some queue. Two flushes
  (`MaxTraffic`). The refinement is proved for all.
- **SpanQueue**: three slots and three cycles; a cycle needs up to four spans, so slots run
  out within the first. `SpanLost.cfg` uses the real size of four.
- **Console**: a password of one character, buffers for two characters, reads of two bytes,
  five bytes per client: a telnet sequence cut in two, several lines in a read and a line
  over several reads all fit. One negotiation stands for the four. The lockout has two steps
  for the code's three.

### Fairness

Safety runs without a temporal property need none. Otherwise:

- **WakeCycle** `WF(Main)`, `WF(Hardware)`: every blocking call of main has a timeout in the
  code, and the hardware watchdog cannot be stopped. The console is not fair.
- **OtaPush**, of its session: reads time out (`ServeReadFails`), loops that have begun go on, a verified
  session reaches its reboot. Nobody has to start a session or send a byte, and a client that
  sends chunks is not stopped by fairness: a stream of chunks with data ends at the end of the
  partition, but a stream of empty chunks after a first one does not, each renewing the read's
  30 s (`ota_server.go:347-424`). `SessionEnds` excepts such a client in its own statement.
- **OtaServer**: the loop is scheduled, a POST ends by its timeouts, a session too, its client
  taken not to be the one that `SessionEnds` excepts. Clients and the console are not fair.
- **Schedule**: main's loop goes round. `SF(FetchFails /\ pc' = "leds")` says that attempts
  are counted: the count itself is in `WakeCycle`. `LedsSettle` assumes in its own
  statement that OTA sessions come to an end.
- **Console**: the goroutine is scheduled and time passes. A client need not do anything;
  `ListensAgain` speaks of clients that have closed, or are at the password prompt.

## 4. Proofs

All proofs are checked by TLAPS for every value of the constants that satisfies the named
assumptions of the module.

**WakeCycleProofs.** The bounds on ages are not inductive: an age grows through the calls of
one cycle. `IInv` adds, for every location of main, how much of the longest cycle may have
been used up there (`Within`); `LedBudget` applies it from the last LED pass, and
`RefreshBudget` charges one whole cycle to every failed refresh. `Doomed` says that an
unhealthy device does not outlive the first backoff, since the watchdog (8 s) is shorter
than the backoff (16 s): an assumption on the constants, `RetryAssumption`. From it follow

- `TypeCorrect`, `FailureThreshold`, `LedsFresh`, `StalenessBounded`;
- `TwelveHours`: the 12-hour rule of `README.md:82` holds if refresh interval + failures x
  longest cycle stays below 12 hours, which it does with the default intervals. The rule
  is only looked at after a failed refresh, so a long console override of the sleep can
  break it: that is why the condition is there.
- `TwelveHoursPassSoon`: without that condition, the rule is late by less than one longest
  cycle (`TwelveHoursSoon`), under `LimitFits`: the limit is no shorter than a refresh
  interval. `HourBudget` is the strengthening: at every location, the age is at most the limit of
  the last judgement plus what the cycle may have used up since.
- `RequestsKept`, `RequestsPrompt`, from an invariant of their own, `RInv`, which bounds
  how long a request may have waited at each location.

**OtaSessionProofs.** The argument is about sectors and pages. Everything below the write
position has been erased in this session (`Covered`) and holds the stream (`Written`); a page
that the stream has not reached is still erased if its sector is (`Clean`); a chunk in the
buffer knows its last sector, and the erase loop has covered what it has passed
(`ChunkPending`). So the loop never erases what was written, and a chunk that begins on a page
(`OnPage`) meets erased cells only, of which it spoils none that the stream holds. `Fallback` ties
the session to the boots: one that has erased anything has not left the bought partition, if
that was its target, to a reset. What each theorem assumes is what a configuration
of section 6 does without:

| theorem | assumes | |
|---|---|---|
| `TypeCorrect`, `RunningSafe` | `FirstNotEmpty` | `zero_chunk` |
| `AlwaysBoots` | `FirstNotEmpty`, `BuyWorks` | `zero_chunk`, `Unconfirmed.cfg` |
| `StreamOnFlash`, `ErasedCellsOnly` | `FirstNotEmpty`, `WholePages` | `zero_chunk`, `RaggedChunks.cfg` |
| `VerifiedMeansImage`, `Implementation` | these two and `HashInTime` | and `late_hash` |

`RunningSafe` holds of confirmed and unconfirmed firmware, of chunks of every length, and of
every answer of the boot ROM; its mark on firmware that is bought is not a cell of the model.
`AlwaysBoots` rests on `BoughtServes`: if the ROM buys what it is asked to, whatever serves is what
a reset boots, and the target is the other partition. `Implementation` is the refinement of
`FirmwareUpdate`, confirmations that fail included: the running partition does not change, the
reboot's target holds the image (`RebootStep`), a confirmation and a reset find the firmware
they take as it was (`ConfirmStep`, `ResetStep`).

**OtaPushProofs.** First the file. `Extraction`: of every file that is `Extractable`,
`extractUF2Binary` returns a firmware `SpeltBy` the file. The last writer of a byte exists
because the writers are a finite set; every other block that covers the byte has a later one.
Then the push. `PushIsSession`: a step of `PushNext` is a step of the session or leaves it
alone, so the invariants of `OtaSessionProofs` carry over. A push's hash may be late, so
`HashInTime` is not available; the argument is about turns instead (`PInv`): whose turn it
is at each of the client's steps (`Turns`), that what the device has hashed on this connection
is a prefix of the firmware (`Streamed`), and that a message under way is its next part
(`Requested`). An answer that is not taken whole ends the push at the next one. Hence at
`DONE` the device holds the client's firmware, compared or not. From it follow
`PushVerifiesImage`, `PushImplements` and `ReportsTrue`, with `Extraction` for the last step
from firmware to file. All but `Extraction` assume `FirstNotEmpty` and `WholePages`, which the
repository's client keeps by itself and other clients have to, and `OthersInTime` (the hash of
those others comes in time).

**TelemetryQueueProofs.** `SlotsInUse` (slots between head and head + count hold entries) with
modular arithmetic about the wrap (`WrapFact`, `PositionFact`) gives `TypeCorrect` and
`Implementation`, the refinement of `BoundedLog`: `Log` is `Record`, a flush is `Drain`,
pause and resume are stutters. `BodyIsQueue` shows that every step of `TelemetryBody` is one of
the queue or leaves it alone, so both hold on the whole path from record to collector
(`LogPath`).
`RecordsArrive` is `CountsWhatArrived` for every size of queue, message and `BodyBuf`. The
writer's bytes are a fold over pieces and over records; `WriteFact` is one piece, and two
inductions over intervals follow a record (`RecordWritten`) and the loop (`RecordsWritten`).
Their invariant: after k records the body has k opening brackets or is full. A bracket is only
left out with less than 16 bytes to go, which the timestamp after it (21 bytes) fills, and a
full body gets no close, so it does not parse (`WholeBody`). The proof needs that `HeadLen` is
no more than `BodyLen` and nothing else about the sizes. `Posted` carries this from the flush
to the answer.

**OtaServerProofs.** `sendingWg = Cardinality(InPost)` (`Counted`) means that there is no POST when
`Pause` returns. That none begins until `Resume` needs to know where telemetry is paused:
`PausedWhere` ties `paused` to the server's location. Together they are `SessionsQuiet`.
`EnableAdmitsOne` rests on `FreshWindow`: a window that is open at an accept has not been used.

**SpanQueueProofs.** The operations are first described slot by slot (`StartFact`, `EndFact`,
`FlushFact`). `SInv` then says that pending and ended agree (`Flags`), that the active slots are
the ones main holds handles to (`LiveOnly`), that identifiers in slots have been begun
(`OnlyBegun`), that an ended span's identifier has not been sent (`Unsent`), and what the
current parent is at each location (`NextIsChild`). Theorems: `TypeCorrect`,
`SpansNotStranded`, `SpansFlushed`, `SpansSentOnce`, `SpansOfACycle`, `SlotsFreed`, for any
number of slots.

**ScheduleProofs.** The parser is a fold over the entries, which `ParseSteps` takes apart into the
jobs after every entry; `ParseFact`, an induction over them, says that they are the first
valid ones (`AreJobsOf`). `IInv` adds what is true between the steps of a fetch: the entries
read are the beginning of one message (`PartRead`), and no message is older than the fetch
(`MessagesRecent`): the connection is new, so what was published before it is never heard.
`Measured` is about NTP: an offset that nobody has overtaken is the clock's error.
Hence `TypeCorrect`, `OneResponse` and `ClockIsClose`, for all schedules Node-RED may send, any
number of jobs and unread messages, every cut of a timestamp, main and the console in
`syncNTP` at once, and every `Horizon` and `MaxError`. `ClockIsClose` is about clocks that were
last set from a whole timestamp or from an undisturbed exchange; `TwoSyncs.cfg` shows one that
was not. `LedsFollow` is about days and
quarters: the LED rule's comparisons with noon and midnight (`InWindow`) are what
`README.md:39-40` says of mornings and afternoons (`Due`). Of the invariant it
needs the types of the jobs and that the clock is not before its first day.

**ConsoleProofs.** `Agree`: the code's count and time and the history's are the same as long as
they matter. `WaitedOut`: a console that listens has found the lockout over. `LockoutIsHeld`
follows for every table of lockouts. For the lines, `ByteFact` says what one more byte does to
the scan and to the telnet sequences, columns and line numbers of the stream, and `SessionScan`
is the induction over a chunk. `CInv` carries from chunk to chunk that the scan agrees with the
stream so far (`At`): the line under way is its last line, the bytes to skip are the rest of its
last three bytes from an IAC (`ThreeBytes`, the code's rule), the commands are its lines.
`NegotiationsFact` shows that in a stream whose telnet sequences, by RFC 854, are negotiations
the code's rule finds the same beginnings and leaves out the same bytes. `LinesAreCommands` and
`TypeCorrect` follow for every such stream, every split of it and every size of the two buffers.

The bounds of the runs (`Horizon`, `MaxInbox`, `MaxTraffic` and their like) are parameters of
these theorems as well: they hold for every value of them.

**Model-checked only.** Every liveness property (`RequestServed`, `StaleResolved`, `SessionEnds`,
`Resumed`, `PortCloses`, `LedsSettle`, `ListensAgain`): fairness and ENABLED are beyond the
prover. Every other property of a passing run is a theorem, under the assumptions
named above.

What the parser, the scan and the writer compute are folds. The prover has no induction over
data, and each proof does without: `Climb` is induction over an interval for a set, from the
well-foundedness of the naturals, and the fold is the function that `FoldLeft`'s definition
chooses, which `FoldExists` and its like show to exist.

## 5. Observations that are not findings

- LED latency: `README.md:40` gives 15 minutes. `LedFreshness` has the exact bound, which
  adds a refresh with all its retries (`main.go:331-399` runs before the LED pass).
- A timestamp that is cut off sets a clock near 1970 (`parse.go:21`, `mqtt.go:192`), until the next
  refresh. Nothing in the code tells it from a whole one. `ClockFollows` excepts such a clock.
- A client that follows a first chunk with empty ones keeps its session, and the pause of
  telemetry and LEDs, as long as it likes; `SessionEnds` excepts it.
- `loopForeverStack` feeds the hardware watchdog (`main.go:512`), so a hang of main alone is
  not detected by it.
- `QuietSession` rests on the cooperative scheduler: between the check of `paused` and
  `sendingWg.Add` (`telemetry/telemetry.go:468-482`, `:586`) a preemptive one could let
  `Pause` through.
- The client waits 5 s for `READY` (`readTimeout`), while the device may first wait in
  `telemetry.Pause` for POSTs with longer timeouts: the push then fails and its window is
  closed with the session. `ReportIsTrue` is not touched by it.
- An answer that reaches the client in two reads makes the push report a failure, although the
  device goes on and may install the firmware: a reported failure says nothing.
- `readUntilPrompt` (`cmd/cli/main.go`) takes `"> "` anywhere for the prompt.
- `extractUF2Binary` does not look at family identifiers, so a file with a block for another
  address space far away (as RP2350 tools write) is refused as too large.
- Eight long log records can be more than `BodyBuf` has room for; the flush's records are then
  lost with it, as one send error. `CountsWhatArrived` says they are not counted as sent.
- Nothing calls `telemetry.Enable` or `Disable`.

## 6. Findings

| run | statement | what the code does |
|---|---|---|
| `late_hash` | `docs/ota.md:85` "Device verifies hash, responds VERIFIED" | if the hash is not in the one read of at most 2 s after `DONE`, the comparison is skipped (`ota_server.go:286`, `:307`) |
| `zero_chunk` | `docs/ota.md:100` "a bad update can never brick the device" | a first chunk of length 0 makes `totalBytes+chunkLen-1` wrap; the loop erases all tracked sectors, which are more than a partition has |
| `lost_enable` | `ota_server.go:48` "enables the OTA server for the specified duration" | the `OTADisable` after a session closes a window opened during it (`ota_server.go:223`) |
| `mixed_bodies` | `telemetry/telemetry.go:465` "sends queued log entries to the collector" | one body buffer, and POSTs of several goroutines at once: a POST sends parts of another's body |
| `telnet_commands` | `README.md:64` "full IAC protocol support" | two bytes are skipped after every IAC (`console.go:205`), whatever telnet says follows it |

Further disagreements, each with a configuration of its own. `tlc -config C.cfg M`, with C and M
from the table, gives the behaviour:

| configuration | module, property | statement | what the code does |
|---|---|---|---|
| `RaggedChunks.cfg` | `MCOtaSession`, `VerifiedImage` | `docs/ota.md:85` "Device verifies hash, responds VERIFIED" | a chunk that ends inside a flash page spoils the rest of it, and the next chunk begins there; the hash of the bytes received matches all the same (`ota/ota.go:251`). The repository's client sends no such chunks |
| `Unconfirmed.cfg` | `MCOtaSession`, `NeverBricked` | `docs/ota.md:100` "This ensures a bad update can never brick the device" | an error of `explicit_buy` is printed and the OTA server starts (`main.go:140`); a session then erases what a reset would boot. The work area of 256 bytes (`ota/ota.go:97`) is smaller than the 4 kB the datasheet asks for |
| `SpanLost.cfg` | `SpanQueue`, `PendingKept` | `docs/telemetry.md:209` "completed spans aren't overwritten before being flushed" | with no free slot `StartSpan` takes the one at `SpanHead`, pending or not (`telemetry/telemetry.go:304`) |
| `TwoSyncs.cfg` | `MCSchedule`, `SyncsTime` | `README.md:168` "The device syncs time via NTP ... on each schedule refresh cycle. This ensures accurate timestamps" | an offset is measured (`main.go:578`), then applied to whatever the clock is by then (`main.go:594`): two syncs, or a sync and a response, correct the clock twice |
| `WipedJobs.cfg` | `MCSchedule`, `JobsKept` | `README.md:42` "Maintains LED state on network errors" | an empty or cut message is a successful fetch, and the parser clears the jobs first (`mqtt.go:188`, `parse.go:12`) |

## 7. Not modelled

- **Network library, WiFi driver, boot ROM**: outside the repository. Their callers' view of
  them (results, timeouts) is in the models and marked external. Of the ROM the models have
  what the datasheet says of `flash_range_program`, `flash_range_erase`, `explicit_buy` and the
  choice of a partition at boot. Not modelled: a reset inside `explicit_buy`, or inside the
  erase or the write of one sector or chunk; what the contents of a spoilt page are; and
  whether the ROM does refuse the work area it is given.
- **NTP**: its packets, servers and backoffs. A sync measures an offset that is exact at one
  instant, or fails.
- **Telemetry texts**: the JSON of metrics and spans, which the same writer writes into the same
  buffer; HTTP headers and status codes. The characters of a log text are not modelled, only
  their number: escaping is part of the length.
- **Console output and `parseDuration`**: commands that only print; durations are inputs.
- **`cmd/cli`** apart from the push: it prints what the console answers. A firmware larger than
  a partition is excluded by `PushAssumption`; the device's refusal of its last chunks is in
  `OtaSession` (`ChunkRefused`).
- **`slog` groups and handlers with attributes**: the program makes none.
- **Configuration, credentials, version**: constants.
- **A hang of main**: its blocking calls are taken to return, so the watchdog's two feeders are
  not told apart.

## 8. Plan

Done, in this order: `WakeCycle` and its proofs, `OtaSession` and its proofs,
`TelemetryQueue` with `BoundedLog` and its proofs, `SpanQueue`, `TelemetrySender` with
`OtaServer`, `Schedule`, `Console`; then `FirmwareUpdate`, `UF2` and `OtaPush` with their proofs,
`TelemetryBody`, and the proofs about `OtaServer`, `SpanQueue` and `Console`; then `Schedule`'s
proofs, the lines of the console and the counts of `TelemetryBody`; last, pages and
confirmations in `OtaSession`, offsets in `Schedule`, and telnet by RFC 854 in `Console`, each with
its proofs.

Next, models:

1. Console lines longer than the buffer (`console.go:234`): what a client's next line becomes.
   Negotiation of options, which the console ignores.
2. `parseDuration` in a machine word, against its definition.
3. The JSON of metrics and spans in `BodyBuf`.
4. The hardware watchdog with its two feeders, and a main that may hang.

Next, proofs:

1. The queue of `BoundedLog` seen by the collector: what arrives is a subsequence of what was
   logged (`TelemetryBody`), which needs the entries in the body and not only their number.
2. `SpanQueue`: `PendingKept` under the condition that a slot is free (`SpanLost.cfg` is without it).
3. `Console`: lines longer than the buffer, with the model of `console.go:234`.
