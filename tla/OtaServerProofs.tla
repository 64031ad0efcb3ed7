---------------------------- MODULE OtaServerProofs ---------------------------
(****************************************************************************)
(* The OTA server and the telemetry it pauses, for every number of queues,     *)
(* size of body and choice of timeouts.                                       *)
(*                                                                          *)
(* Two things make a session quiet.  sendingWg counts the POSTs in progress,   *)
(* so that there is none when Pause returns; and paused holds from there to    *)
(* the Resume, so that no flush begins another.  That paused holds is said by  *)
(* where the server is: telemetry is paused nowhere else than there.          *)
(****************************************************************************)
EXTENDS OtaServer, FiniteSetTheorems, TLAPS

\* The wait group counts the POSTs in progress.
Counted == sendingWg = Cardinality(InPost)

TInv == TelemetryTypeOK /\ Counted

LEMMA ThreeFlushers ==
    /\ IsFiniteSet(Flushers)
    /\ Cardinality(Flushers) = 3
<1>1. IsFiniteSet({"ota"}) /\ Cardinality({"ota"}) = 1
  BY FS_Singleton
<1>2. IsFiniteSet({"ota"} \cup {"console"}) /\ Cardinality({"ota"} \cup {"console"}) = 2
  BY <1>1, FS_AddElement, "console" \notin {"ota"}
<1>3. /\ IsFiniteSet(({"ota"} \cup {"console"}) \cup {"senderLoop"})
      /\ Cardinality(({"ota"} \cup {"console"}) \cup {"senderLoop"}) = 3
  BY <1>2, FS_AddElement, "senderLoop" \notin ({"ota"} \cup {"console"})
<1>4. Flushers = ({"ota"} \cup {"console"}) \cup {"senderLoop"}
  BY WindowAssumption
<1>5. QED
  BY <1>3, <1>4

\* The POSTs in progress are at most three.
LEMMA PostsFew ==
    /\ IsFiniteSet(InPost)
    /\ Cardinality(InPost) \in Nat
    /\ Cardinality(InPost) <= 3
BY ThreeFlushers, FS_Subset, FS_CardinalityType DEF InPost

\* None when the count is zero.
LEMMA NoPost == Cardinality(InPost) = 0 => InPost = {}
BY PostsFew, FS_EmptySet

-----------------------------------------------------------------------------
(* The steps of telemetry.                                                  *)

LEMMA KindsFact == 1 \in Kinds /\ \A k \in Kinds : k # Queues => k + 1 \in Kinds
BY BodyAssumption DEF Kinds

\* What NextKind does to a flusher that is in a flush or in a POST.
LEMMA NextKindFact ==
    ASSUME TelemetryTypeOK, NEW f \in Flushers, NextKind(f)
    PROVE  /\ at' \in [Flushers -> {"idle", "flush", "post"}]
           /\ kind' \in [Flushers -> Kinds]
           /\ InPost' = InPost \ {f}
<1>1. at' \in [Flushers -> {"idle", "flush", "post"}]
  BY DEF NextKind, TelemetryTypeOK
<1>2. kind' \in [Flushers -> Kinds]
  BY KindsFact DEF NextKind, TelemetryTypeOK
<1>3. InPost' = InPost \ {f}
  BY DEF NextKind, TelemetryTypeOK, InPost
<1>4. QED
  BY <1>1, <1>2, <1>3

\* A step of a flusher keeps the count, and begins no POST while telemetry is paused.
LEMMA FlushStepFact ==
    ASSUME TInv, NEW f \in Flushers, FlushStep(f)
    PROVE  TInv' /\ paused' = paused /\ (paused => InPost' \subseteq InPost)
<1>1. CASE SkipQueue(f)
  <2>1. f \notin InPost
    BY <1>1 DEF SkipQueue, InPost
  <2>2. InPost' = InPost
    BY <1>1, <2>1, NextKindFact DEF SkipQueue, TInv
  <2>3. QED
    BY <1>1, <2>2, NextKindFact DEF SkipQueue, TInv, TelemetryTypeOK, Counted
<1>2. ASSUME NEW n \in Parts, TakeQueue(f, n)
      PROVE  TInv' /\ paused' = paused /\ ~paused
  <2>1. f \notin InPost
    BY <1>2 DEF TakeQueue, InPost
  <2>2. InPost' = InPost \cup {f}
    BY <1>2 DEF TakeQueue, StartPost, InPost, TInv, TelemetryTypeOK
  <2>3. Cardinality(InPost') = Cardinality(InPost) + 1
    BY <2>1, <2>2, PostsFew, FS_AddElement
  <2>4. BodyBuf' \in [Parts -> Flushers \cup {Nobody}]
    BY <1>2 DEF TakeQueue, StartPost, TInv, TelemetryTypeOK
  <2>5. bodyLen' \in [Flushers -> 0 .. BodyParts]
    BY <1>2, BodyAssumption DEF TakeQueue, StartPost, TInv, TelemetryTypeOK, Parts
  <2>6. at' \in [Flushers -> {"idle", "flush", "post"}] /\ queued' \subseteq Kinds
    BY <1>2 DEF TakeQueue, StartPost, TInv, TelemetryTypeOK
  <2>7. QED
    BY <1>2, <2>3, <2>4, <2>5, <2>6
    DEF TakeQueue, StartPost, TInv, TelemetryTypeOK, Counted
<1>3. CASE WritePart(f)
  <2>1. written' \in [Flushers -> 0 .. BodyParts]
    BY <1>3, BodyAssumption DEF WritePart, TInv, TelemetryTypeOK
  <2>2. InPost' = InPost
    BY <1>3 DEF WritePart, InPost
  <2>3. QED
    BY <1>3, <2>1, <2>2 DEF WritePart, TInv, TelemetryTypeOK, Counted
<1>4. CASE PostReturns(f)
  <2>1. f \in InPost
    BY <1>4 DEF PostReturns, InPost
  <2>2. InPost' = InPost \ {f}
    BY <1>4, NextKindFact DEF PostReturns, TInv
  <2>3. Cardinality(InPost') = Cardinality(InPost) - 1
    BY <2>1, <2>2, PostsFew, FS_RemoveElement
  <2>4. IsFiniteSet(InPost') /\ Cardinality(InPost') \in Nat
    BY <2>2, PostsFew, FS_Subset, FS_CardinalityType
  <2>5. BodyBuf' \in [Parts -> Flushers \cup {Nobody}]
    BY <1>4 DEF PostReturns, TInv, TelemetryTypeOK
  <2>6. bodyLen' \in [Flushers -> 0 .. BodyParts] /\ written' \in [Flushers -> 0 .. BodyParts]
    BY <1>4, BodyAssumption DEF PostReturns, TInv, TelemetryTypeOK
  <2>7. sendingWg' = Cardinality(InPost')
    BY <1>4, <2>3 DEF PostReturns, TInv, Counted
  <2>8. QED
    BY <1>4, <2>2, <2>4, <2>5, <2>6, <2>7, NextKindFact
    DEF PostReturns, TInv, TelemetryTypeOK, Counted
<1>5. QED
  BY <1>1, <1>2, <1>3, <1>4 DEF FlushStep

\* So does anything telemetry does.
LEMMA TelemetryFact ==
    ASSUME TInv, Telemetry
    PROVE  TInv' /\ paused' = paused /\ (paused => InPost' \subseteq InPost)
<1>1. ASSUME NEW k \in Kinds, Enqueue(k)
      PROVE  TInv' /\ paused' = paused /\ InPost' = InPost
  BY <1>1 DEF Enqueue, TInv, TelemetryTypeOK, Counted, InPost
<1>2. ASSUME NEW f \in Flushers, BeginFlush(f)
      PROVE  TInv' /\ paused' = paused /\ InPost' = InPost
  <2>1. InPost' = InPost
    BY <1>2 DEF BeginFlush, InPost, TInv, TelemetryTypeOK
  <2>2. QED
    BY <1>2, <2>1 DEF BeginFlush, TInv, TelemetryTypeOK, Counted
<1>3. QED
  BY <1>1, <1>2, FlushStepFact, WindowAssumption DEF Telemetry

-----------------------------------------------------------------------------
(* The inductive invariant: what holds where the server is.                   *)

ServerTypes ==
    /\ otaEnabled \in BOOLEAN
    /\ age \in 0 .. MaxAge
    /\ otaTimeout \in {0} \cup Timeouts
    /\ pc \in {"disabled", "arming", "waiting", "pausing", "session", "final",
               "closing"}
    /\ conn \in {"closed", "listening", "established"}
    /\ bindicatorPaused \in BOOLEAN
    /\ lastEnable \in {"new", "used", "over"}

\* Nobody but the server pauses, and it resumes on every way back.
PausedWhere ==
    /\ paused => pc \in {"pausing", "session", "closing"}
    /\ bindicatorPaused => pc \in {"session", "final", "closing"}
    /\ pc \in {"pausing", "session"} => paused

\* From the return of Pause on there is no POST, and Resume comes before the next.
QuietWhere == pc \in {"session", "closing"} /\ paused => InPost = {}

\* An open window that no session has to do with is the last ota-enable's.
FreshWindow ==
    otaEnabled /\ pc \in {"disabled", "arming", "waiting"} => lastEnable = "new"

SInv == TInv /\ ServerTypes /\ PausedWhere /\ QuietWhere /\ FreshWindow

\* Nothing is in progress after a reset.
LEMMA ResetFact == TelemetryReset => TInv' /\ paused' = FALSE
<1> SUFFICES ASSUME TelemetryReset PROVE TInv' /\ paused' = FALSE
  OBVIOUS
<1>1. TelemetryTypeOK'
  <2>1. 0 \in 0 .. BodyParts
    BY BodyAssumption
  <2>2. QED
    BY <2>1, KindsFact DEF TelemetryReset, TelemetryTypeOK
<1>2. InPost' = {}
  BY DEF TelemetryReset, InPost
<1>3. QED
  BY <1>1, <1>2, FS_EmptySet DEF TelemetryReset, TInv, Counted

LEMMA YoungestAge == 0 \in 0 .. MaxAge
BY WindowAssumption

LEMMA InitSInv == Init => SInv
<1> SUFFICES ASSUME Init PROVE SInv
  OBVIOUS
<1>1. TelemetryTypeOK
  <2>1. 0 \in 0 .. BodyParts
    BY BodyAssumption
  <2>2. QED
    BY <2>1, KindsFact DEF Init, TelemetryInit, TelemetryTypeOK
<1>2. InPost = {}
  BY DEF Init, TelemetryInit, InPost
<1>3. TInv
  BY <1>1, <1>2, FS_EmptySet DEF Init, TelemetryInit, TInv, Counted
<1>4. QED
  BY <1>2, <1>3, YoungestAge
  DEF Init, TelemetryInit, SInv, ServerTypes, PausedWhere, QuietWhere, FreshWindow

LEMMA NextSInv == SInv /\ [Next]_vars => SInv'
<1> SUFFICES ASSUME SInv, [Next]_vars PROVE SInv'
  OBVIOUS
<1> USE DEF SInv
<1>t. UNCHANGED telemetry => TInv' /\ InPost' = InPost /\ paused' = paused
  BY DEF telemetry, TInv, TelemetryTypeOK, Counted, InPost
<1>1. CASE WaitEnabled
  BY <1>1, <1>t DEF WaitEnabled, CheckWindow, OTAIsEnabled,
     ServerTypes, PausedWhere, QuietWhere, FreshWindow
<1>2. CASE ListenTCP \/ ListenFails
  BY <1>2, <1>t DEF ListenTCP, ListenFails, window,
     ServerTypes, PausedWhere, QuietWhere, FreshWindow
<1>3. CASE WindowExpires \/ NoClient
  BY <1>3, <1>t DEF WindowExpires, NoClient, CheckWindow, OTAIsEnabled, window,
     ServerTypes, PausedWhere, QuietWhere, FreshWindow
<1>4. CASE AcceptClient
  <2>1. TInv' /\ InPost' = InPost
    BY <1>4 DEF AcceptClient, TInv, TelemetryTypeOK, Counted, InPost
  <2>2. QED
    BY <1>4, <2>1 DEF AcceptClient, window,
       ServerTypes, PausedWhere, QuietWhere, FreshWindow
<1>5. CASE PauseReturns
  <2>1. InPost = {} /\ paused' = paused /\ InPost' = InPost /\ TInv'
    BY <1>5, <1>t, NoPost DEF PauseReturns, TInv, Counted
  <2>2. paused \in BOOLEAN
    BY DEF TInv, TelemetryTypeOK
  <2>3. QED
    BY <1>5, <2>1, <2>2 DEF PauseReturns, window,
       ServerTypes, PausedWhere, QuietWhere, FreshWindow
<1>6. CASE SessionFails \/ RebootRefused
  BY <1>6, <1>t DEF SessionFails, RebootRefused, window,
     ServerTypes, PausedWhere, QuietWhere, FreshWindow
<1>7. CASE SessionVerified
  <2>1. InPost = {}
    BY <1>7 DEF SessionVerified, PausedWhere, QuietWhere
  <2>2. InPost' = InPost
    BY <1>7, <2>1 DEF SessionVerified, InPost, TInv, TelemetryTypeOK
  <2>3. TInv'
    BY <1>7, <2>2 DEF SessionVerified, TInv, TelemetryTypeOK, Counted
  <2>4. QED
    BY <1>7, <2>3 DEF SessionVerified, window,
       ServerTypes, PausedWhere, QuietWhere, FreshWindow
<1>8. CASE Cleanup
  <2>1. TInv' /\ InPost' = InPost
    BY <1>8 DEF Cleanup, TInv, TelemetryTypeOK, Counted, InPost
  <2>2. QED
    BY <1>8, <2>1 DEF Cleanup, ServerTypes, PausedWhere, QuietWhere, FreshWindow
<1>9. CASE Telemetry
  <2>1. TInv' /\ paused' = paused /\ (paused => InPost' \subseteq InPost)
    BY <1>9, TelemetryFact
  <2>2. QED
    BY <1>9, <2>1 DEF Telemetry, server, window,
       ServerTypes, PausedWhere, QuietWhere, FreshWindow
<1>10. CASE Tick
  BY <1>10, <1>t, WindowAssumption DEF Tick,
     ServerTypes, PausedWhere, QuietWhere, FreshWindow
<1>11. ASSUME NEW timeout \in Timeouts, OTAEnable(timeout) PROVE SInv'
  BY <1>11, <1>t, WindowAssumption DEF OTAEnable,
     ServerTypes, PausedWhere, QuietWhere, FreshWindow
<1>12. CASE ClientConnects \/ ClientLeaves
  BY <1>12, <1>t DEF ClientConnects, ClientLeaves, window,
     ServerTypes, PausedWhere, QuietWhere, FreshWindow
<1>13. CASE Reset
  <2>1. TInv' /\ paused' = FALSE
    BY <1>13, ResetFact DEF Reset
  <2>2. ServerTypes'
    BY <1>13, YoungestAge DEF Reset, ServerTypes
  <2>3. QED
    BY <1>13, <2>1, <2>2 DEF Reset, PausedWhere, QuietWhere, FreshWindow
<1>14. CASE UNCHANGED vars
  BY <1>14, <1>t DEF vars, server, window,
     ServerTypes, PausedWhere, QuietWhere, FreshWindow
<1>15. QED
  BY <1>1, <1>2, <1>3, <1>4, <1>5, <1>6, <1>7, <1>8, <1>9, <1>10, <1>11, <1>12,
     <1>13, <1>14 DEF Next, Server

LEMMA Inductive == Spec => []SInv
BY InitSInv, NextSInv, PTL DEF Spec

\* Every variable stays in its range, and at most three POSTs are in progress.
THEOREM TypeCorrect == Spec => []TypeOK
<1>1. SInv => TypeOK
  BY PostsFew DEF SInv, TInv, Counted, ServerTypes, TypeOK
<1>2. QED
  BY <1>1, Inductive, PTL

\* No POST is in progress while telemetry and LEDs are paused, whatever flushes were
\* under way when the client came (ota_server.go 193-219; telemetry.go 433-449).
THEOREM SessionsQuiet == Spec => []QuietSession
<1>1. SInv => QuietSession
  BY DEF SInv, PausedWhere, QuietWhere, QuietSession
<1>2. QED
  BY <1>1, Inductive, PTL

\* A client is only let in by an ota-enable that no session has used
\* (ota_server.go 127-225).
THEOREM EnableAdmitsOne == Spec => OneSessionPerEnable
<1>1. SInv /\ [Next]_vars
        => [pc = "waiting" /\ pc' = "pausing" => lastEnable = "new"]_vars
  <2> SUFFICES ASSUME SInv, Next, pc = "waiting", pc' = "pausing"
               PROVE  lastEnable = "new"
    OBVIOUS
  <2>1. AcceptClient
    BY DEF Next, Server, WaitEnabled, ListenTCP, ListenFails, WindowExpires, NoClient,
       PauseReturns, SessionFails, SessionVerified, RebootRefused, Cleanup, Telemetry,
       server, Tick, OTAEnable, ClientConnects, ClientLeaves, Reset
  <2>2. QED
    BY <2>1 DEF AcceptClient, OTAIsEnabled, SInv, FreshWindow
<1>2. QED
  BY <1>1, Inductive, PTL DEF Spec, OneSessionPerEnable
=============================================================================
