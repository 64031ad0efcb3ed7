------------------------------ MODULE OtaServer ------------------------------
(****************************************************************************)
(* The OTA server of src/ota_server.go: the window that the console's          *)
(* ota-enable opens, otaServerLoop, and the telemetry it pauses around a       *)
(* session (TelemetrySender).  OtaSession has what a session does to the       *)
(* flash; here a session is verified or fails.  Its client is taken not to keep  *)
(* it up with empty chunks for ever, which OtaSession's SessionEnds excepts.    *)
(*                                                                          *)
(* Time is a tick that makes the window older whenever it likes: nothing here  *)
(* depends on how long a step of another goroutine takes.                    *)
(****************************************************************************)
EXTENDS TelemetrySender

CONSTANTS
    Timeouts,    \* durations ota-enable can be given
    MaxAge       \* bound of the model: ages saturate here

ASSUME WindowAssumption ==
    /\ MaxAge \in Nat
    /\ \A t \in Timeouts : t \in Nat /\ t < MaxAge
    /\ {"senderLoop", "console", "ota"} = Flushers

VARIABLES
    otaEnabled,        \* the window has been opened
    age,               \* time.Since(otaEnabledAt)
    otaTimeout,        \* how long it is to stay open
    pc,                \* where otaServerLoop is
    conn,              \* the state of its connection
    bindicatorPaused,  \* LED updates are paused
    lastEnable         \* history: no session has used the last ota-enable,
                       \* one has begun with it, or one has ended since

window == <<otaEnabled, age, otaTimeout>>
server == <<window, pc, conn, bindicatorPaused, lastEnable>>
vars == <<telemetry, server>>

TypeOK ==
    /\ TelemetryTypeOK
    /\ sendingWg <= 3
    /\ otaEnabled \in BOOLEAN
    /\ age \in 0 .. MaxAge
    /\ otaTimeout \in {0} \cup Timeouts
    /\ pc \in {"disabled", "arming", "waiting", "pausing", "session", "final",
               "closing"}
    /\ conn \in {"closed", "listening", "established"}
    /\ bindicatorPaused \in BOOLEAN
    /\ lastEnable \in {"new", "used", "over"}

Init ==
    /\ TelemetryInit
    /\ otaEnabled = FALSE
    /\ age = 0
    /\ otaTimeout = 0
    /\ pc = "disabled"
    /\ conn = "closed"
    /\ bindicatorPaused = FALSE
    /\ lastEnable = "over"

-----------------------------------------------------------------------------
(* The window.                                                              *)

Tick ==
    /\ age < MaxAge
    /\ age' = age + 1
    /\ UNCHANGED <<telemetry, otaEnabled, otaTimeout, pc, conn,
                   bindicatorPaused, lastEnable>>

\* The console task runs ota-enable, so it is not in telemetry-flush.
OTAEnable(timeout) ==
    /\ at["console"] = "idle"
    /\ otaEnabled' = TRUE
    /\ age' = 0
    /\ otaTimeout' = timeout
    /\ lastEnable' = "new"
    /\ UNCHANGED <<telemetry, pc, conn, bindicatorPaused>>

\* What OTAIsEnabled returns ...
OTAIsEnabled == otaEnabled /\ age <= otaTimeout

\* ... and its side effect: a window found expired is closed.
CheckWindow ==
    /\ otaEnabled' = OTAIsEnabled
    /\ UNCHANGED <<age, otaTimeout>>

-----------------------------------------------------------------------------
(* otaServerLoop.                                                           *)

\* The 500 ms poll, up to the abort of the old connection.
WaitEnabled ==
    /\ pc = "disabled"
    /\ CheckWindow
    /\ pc' = IF OTAIsEnabled THEN "arming" ELSE "disabled"
    /\ conn' = "closed"
    /\ UNCHANGED <<telemetry, bindicatorPaused, lastEnable>>

ListenTCP ==
    /\ pc = "arming"
    /\ pc' = "waiting"
    /\ conn' = "listening"
    /\ UNCHANGED <<telemetry, window, bindicatorPaused, lastEnable>>

ListenFails ==
    /\ pc = "arming"
    /\ pc' = "disabled"
    /\ UNCHANGED <<telemetry, window, conn, bindicatorPaused, lastEnable>>

\* Mutant: the wait for a client does not look at the window.
WindowExpiresUnseen ==
    /\ pc = "waiting"
    /\ conn = "established"
    /\ ~OTAIsEnabled
    /\ CheckWindow
    /\ conn' = "closed"
    /\ pc' = "disabled"
    /\ UNCHANGED <<telemetry, bindicatorPaused, lastEnable>>

\* The wait for a client finds the window expired, client or not.
WindowExpires ==
    /\ pc = "waiting"
    /\ ~OTAIsEnabled
    /\ CheckWindow
    /\ conn' = "closed"
    /\ pc' = "disabled"
    /\ UNCHANGED <<telemetry, bindicatorPaused, lastEnable>>

\* It ends without a synchronized connection: after 60 s, or a failed handshake.
NoClient ==
    /\ pc = "waiting"
    /\ conn # "established"
    /\ OTAIsEnabled
    /\ conn' = "closed"
    /\ pc' = "disabled"
    /\ UNCHANGED <<telemetry, window, bindicatorPaused, lastEnable>>

\* A client: telemetry.Pause, up to its wait for the POSTs in progress.
AcceptClient ==
    /\ pc = "waiting"
    /\ conn = "established"
    /\ OTAIsEnabled
    /\ paused' = TRUE
    /\ lastEnable' = "used"
    /\ pc' = "pausing"
    /\ UNCHANGED <<sendingWg, queued, BodyBuf, at, kind, bodyLen, written,
                   window, conn, bindicatorPaused>>

\* Mutant: Pause does not wait.
PauseReturnsEarly ==
    /\ pc = "pausing"
    /\ pc' = "session"
    /\ bindicatorPaused' = TRUE
    /\ UNCHANGED <<telemetry, window, conn, lastEnable>>

\* sendingWg.Wait is over: the LEDs are paused and the session begins.
PauseReturns ==
    /\ pc = "pausing"
    /\ sendingWg = 0
    /\ pc' = "session"
    /\ bindicatorPaused' = TRUE
    /\ UNCHANGED <<telemetry, window, conn, lastEnable>>

\* handleOTASession returns with an error, or panics.
SessionFails ==
    /\ pc = "session"
    /\ pc' = "closing"
    /\ UNCHANGED <<telemetry, window, conn, bindicatorPaused, lastEnable>>

\* It has verified the firmware: Resume, and the flush before the reboot.
SessionVerified ==
    /\ pc = "session"
    /\ pc' = "final"
    /\ paused' = FALSE
    /\ at' = [at EXCEPT !["ota"] = "flush"]
    /\ UNCHANGED <<sendingWg, queued, BodyBuf, kind, bodyLen, written,
                   window, conn, bindicatorPaused, lastEnable>>

\* The boot ROM refuses the reboot once that flush is over.
RebootRefused ==
    /\ pc = "final"
    /\ at["ota"] = "idle"
    /\ pc' = "closing"
    /\ UNCHANGED <<telemetry, window, conn, bindicatorPaused, lastEnable>>

\* Mutant: the window stays open after a session.
CleanupEnabled ==
    /\ pc = "closing"
    /\ conn' = "closed"
    /\ bindicatorPaused' = FALSE
    /\ paused' = FALSE
    /\ lastEnable' = "over"
    /\ pc' = "disabled"
    /\ UNCHANGED <<sendingWg, queued, BodyBuf, at, kind, bodyLen, written,
                   window>>

\* The connection is gone: everything is resumed, and OTADisable.
Cleanup ==
    /\ pc = "closing"
    /\ conn' = "closed"
    /\ bindicatorPaused' = FALSE
    /\ paused' = FALSE
    /\ otaEnabled' = FALSE
    /\ lastEnable' = "over"
    /\ pc' = "disabled"
    /\ UNCHANGED <<sendingWg, queued, BodyBuf, at, kind, bodyLen, written,
                   age, otaTimeout>>

-----------------------------------------------------------------------------
(* The surroundings.                                                        *)

\* A client completes its handshake, or the connection goes away again.
ClientConnects ==
    /\ conn = "listening"
    /\ conn' = "established"
    /\ UNCHANGED <<telemetry, window, pc, bindicatorPaused, lastEnable>>

ClientLeaves ==
    /\ conn # "closed"
    /\ conn' = "closed"
    /\ UNCHANGED <<telemetry, window, pc, bindicatorPaused, lastEnable>>

\* The reboot into new firmware, a console reboot, or a watchdog reset.
Reset ==
    /\ TelemetryReset
    /\ otaEnabled' = FALSE
    /\ age' = 0
    /\ otaTimeout' = 0
    /\ pc' = "disabled"
    /\ conn' = "closed"
    /\ bindicatorPaused' = FALSE
    /\ lastEnable' = "over"

Telemetry ==
    /\ \/ \E k \in Kinds : Enqueue(k)
       \/ \E f \in {"senderLoop", "console"} : BeginFlush(f)
       \/ \E f \in Flushers : FlushStep(f)
    /\ UNCHANGED server

Server ==
    \/ WaitEnabled
    \/ ListenTCP
    \/ ListenFails
    \/ WindowExpires
    \/ NoClient
    \/ AcceptClient
    \/ PauseReturns
    \/ SessionFails
    \/ SessionVerified
    \/ RebootRefused
    \/ Cleanup

Next ==
    \/ Server
    \/ Telemetry
    \/ Tick
    \/ \E timeout \in Timeouts : OTAEnable(timeout)
    \/ ClientConnects
    \/ ClientLeaves
    \/ Reset

Spec == Init /\ [][Next]_vars

\* The server loop is scheduled, every read and write of a session and of a POST
\* has a timeout, and a session's client does not send empty chunks for ever, each of
\* which the device answers and waits anew for the next.  A client need not come, and
\* nobody has to enable anything.
Fairness ==
    /\ WF_vars(WindowExpires)
    /\ WF_vars(PauseReturns)
    /\ WF_vars(SessionFails \/ SessionVerified \/ RebootRefused)
    /\ WF_vars(Cleanup)
    /\ \A f \in Flushers : WF_vars(FlushStep(f) /\ UNCHANGED server)

FairSpec == Spec /\ Fairness

-----------------------------------------------------------------------------
(* Properties.                                                              *)

\* From the return of Pause to Resume no POST is in progress: telemetry's
\* connections and buffers do not compete with a session (ota_server.go 193-219;
\* telemetry.go 433-449).
QuietSession == paused /\ bindicatorPaused => InPost = {}

\* One ota-enable admits one session: a client is only let in by an enable that
\* no session has used, and none that came before the end of the last session
\* (ota_server.go 127-225).
OneSessionPerEnable ==
    [][pc = "waiting" /\ pc' = "pausing" => lastEnable = "new"]_vars

\* Telemetry and LEDs never stay paused unless a client keeps its session up with
\* empty chunks: Pause returns although flushes are under way, and every way out of a
\* session resumes both
\* (ota_server.go 195-219; telemetry.go 435-449).
Resumed == (paused \/ bindicatorPaused) ~> (~paused /\ ~bindicatorPaused)

\* The port closes once the window has expired, unless a client has connected, whose
\* session may go on, or the window is opened anew (ota_server.go 172-182).
PortCloses ==
    (conn = "listening" /\ ~OTAIsEnabled) ~> (conn # "listening" \/ OTAIsEnabled)

\* "OTAEnable enables the OTA server for the specified duration"
\* (ota_server.go:48): the end of a session closes the window that the session
\* used, and not one that was opened since the session began.
EnableHonoured == [][Cleanup => lastEnable = "used" \/ ~OTAIsEnabled]_vars

=============================================================================
