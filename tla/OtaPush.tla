------------------------------- MODULE OtaPush -------------------------------
(****************************************************************************)
(* A firmware push from end to end: otaPush of the command-line client         *)
(* (src/cmd/cli/main.go), the connection, and the session of OtaSession on the *)
(* device, which serves other clients at other times.                        *)
(*                                                                          *)
(* Client and device take turns: each sends one message and waits for the      *)
(* other's, so one message at most is under way in each direction.  The text of *)
(* an answer may reach the client in pieces; what is left of one comes before   *)
(* the next and spoils it.                                                  *)
(****************************************************************************)
EXTENDS OtaSession, UF2

CONSTANTS
    Files,        \* the files a user may push
    PushChunk,    \* otaChunkSize
    OtherData,    \* what other clients send
    OtherTails    \* how the DONE lines of other clients come in

\* The size of the chunk at offset i of a firmware of n cells.
PushLen(n, i) == IF n - i < PushChunk THEN n - i ELSE PushChunk

\* The device has room for the client's chunks, and the user's files spell
\* out the image.
ASSUME PushAssumption ==
    /\ PushChunk \in Nat \ {0} /\ PushChunk <= ChunkCap
    /\ \A k \in 0 .. ImageLen :
          k * PushChunk < ImageLen =>
              PushLen(ImageLen, k * PushChunk) \in ChunkLens[k * PushChunk]
    /\ \A f \in Files : IsFile(f)
    /\ \A f \in Files : Extractable(f) =>
          OutputSize(f) = ImageLen /\ SpeltBy(f, Image)
    /\ OtherData \subseteq Data
    /\ OtherTails \subseteq DoneTails

VARIABLES
    step,     \* where otaPush is
    file,     \* the file that is pushed
    sent,     \* i, the cells of the firmware sent so far
    stale,    \* the rest of an answer has not been read
    peer,     \* whose connection the device holds
    request,  \* what the client has sent and the device has not read
    answer    \* what the device has sent and the client has not read

client == <<step, file, sent, stale>>
link == <<peer, request, answer>>
session == vars
pushVars == <<session, client, link>>

\* A message without contents; a chunk has a length and its data.
Message(kind) == [kind |-> kind]
Nothing == Message("none")
ChunkMessage(data, len) == [kind |-> "chunk", len |-> len, data |-> data]

fw == extractUF2Binary(file)
fwLen == OutputSize(file)

PushInit ==
    /\ Init
    /\ step = "idle" /\ file = <<>> /\ sent = 0 /\ stale = FALSE
    /\ peer = "none" /\ request = Nothing /\ answer = "none"

-----------------------------------------------------------------------------
(* The client.                                                              *)

\* What the client sends goes nowhere once the device has let go of it.
Send(message) == request' = IF peer = "cli" THEN message ELSE request

\* The client is gone, and what it knew with it.
Forget ==
    /\ step' = "idle"
    /\ file' = <<>> /\ sent' = 0 /\ stale' = FALSE

\* A user pushes a file that can be extracted; nothing is sent for another one.
Start(f) ==
    /\ step = "idle" /\ peer # "other"
    /\ Extractable(f)
    /\ step' = "enable"
    /\ file' = f
    /\ UNCHANGED <<session, sent, stale, link>>

\* otaEnable on the console says that the port is open, or that the firmware is an
\* old one, whose port always is.
EnableAnswered ==
    /\ step = "enable"
    /\ step' = "connect"
    /\ UNCHANGED <<session, file, sent, stale, link>>

\* The device takes the connection: it has no other, and is up.
Connect ==
    /\ step = "connect"
    /\ peer = "none" /\ phase = "idle"
    /\ step' = "ready"
    /\ peer' = "cli"
    /\ request' = Message("OTA")
    /\ answer' = "none"
    /\ UNCHANGED <<session, file, sent, stale>>

\* The next chunk, or DONE with the hash after the last one.
SendNext ==
    IF sent < fwLen
    THEN LET len == PushLen(fwLen, sent)
         IN  /\ Send(ChunkMessage([i \in 0 .. len - 1 |-> fw[sent + i]], len))
             /\ sent' = sent + len
             /\ step' = "ack"
    ELSE /\ Send(Message("DONE"))
         /\ step' = "result"
         /\ UNCHANGED sent

\* READY or ACK has come, if only in part.
ReadAnswer ==
    /\ \/ step = "ready" /\ answer = "READY"
       \/ step = "ack" /\ answer = "ACK"
    /\ ~stale
    /\ answer' = "none"
    /\ stale' \in BOOLEAN
    /\ SendNext
    /\ UNCHANGED <<session, file, peer>>

\* VERIFIED has come.
ReportVerified ==
    /\ step = "result"
    /\ answer = "VERIFIED" /\ ~stale
    /\ answer' = "none"
    /\ step' = "pushed"
    /\ UNCHANGED <<session, file, sent, stale, peer, request>>

\* Every other end: no connection, no answer in time, another answer or a piece of
\* one, a closed connection, an interrupt.  What was sent may still arrive.
ReportFailure ==
    /\ step \in {"enable", "connect", "ready", "ack", "result"}
    /\ Forget
    /\ request' \in {request, Nothing}
    /\ UNCHANGED <<session, peer, answer>>

Exit ==
    /\ step = "pushed"
    /\ Forget
    /\ UNCHANGED <<session, link>>

-----------------------------------------------------------------------------
(* The device, whoever is connected.                                         *)

\* The session ends, and with it the connection.
Disconnect ==
    /\ peer' = "none"
    /\ request' = Nothing

Tell(line) == answer' = IF peer = "cli" THEN line ELSE answer

ServeErase ==
    /\ EraseSector
    /\ UNCHANGED <<client, link>>

ServeWrite ==
    /\ WriteChunk
    /\ Tell("ACK")
    /\ UNCHANGED <<client, peer, request>>

\* A read times out or finds the connection closed.
ServeReadFails ==
    /\ ReadFails
    /\ Disconnect
    /\ UNCHANGED <<client, answer>>

ServeReboot ==
    /\ RebootToPartition \/ RebootRefused
    /\ Disconnect
    /\ UNCHANGED <<client, answer>>

ServeReset ==
    /\ Reset
    /\ Disconnect
    /\ UNCHANGED <<client, answer>>

Boot ==
    /\ \E result \in BuyResults : ConfirmPartition(result)
    /\ UNCHANGED <<client, link>>

-----------------------------------------------------------------------------
(* The device on otaPush's connection.                                       *)

Receive(kind) ==
    /\ peer = "cli"
    /\ request.kind = kind

\* The init line has come: READY.
ServeInit ==
    /\ Receive("OTA")
    /\ BeginSession
    /\ request' = Nothing
    /\ answer' = "READY"
    /\ UNCHANGED <<client, peer>>

\* It has not come within its 10 s.
InitFails ==
    /\ peer = "cli" /\ phase = "idle"
    /\ Disconnect
    /\ UNCHANGED <<session, client, answer>>

ServeChunk ==
    /\ Receive("chunk")
    /\ ReadChunk(request.len, request.data)
    /\ request' = Nothing
    /\ UNCHANGED <<client, peer, answer>>

ServeDone(tail) ==
    /\ Receive("DONE")
    /\ Done(tail)
    /\ request' = Nothing
    /\ answer' = "VERIFIED"
    /\ UNCHANGED <<client, peer>>

RefuseDone(tail) ==
    /\ Receive("DONE")
    /\ DoneMismatch(tail)
    /\ Disconnect
    /\ answer' = "ERROR"
    /\ UNCHANGED client

-----------------------------------------------------------------------------
(* The device on the connection of any other client, while nobody is pushing.   *)
(* Such a client sends what it likes.                                        *)

OtherBegins ==
    /\ peer = "none" /\ step = "idle"
    /\ BeginSession
    /\ peer' = "other"
    /\ UNCHANGED <<client, request, answer>>

OtherSends ==
    /\ peer = "other"
    /\ \/ \E len \in ChunkLens[totalBytes] \cap (0 .. ChunkCap) :
             \E data \in [0 .. len - 1 -> OtherData] : ReadChunk(len, data)
       \/ \E tail \in OtherTails : Done(tail)
    /\ UNCHANGED <<client, link>>

OtherRefused ==
    /\ peer = "other"
    /\ \/ \E len \in ChunkLens[totalBytes] : ChunkRefused(len)
       \/ \E tail \in OtherTails : DoneMismatch(tail)
    /\ Disconnect
    /\ UNCHANGED <<client, answer>>

-----------------------------------------------------------------------------

PushNext ==
    \/ \E f \in Files : Start(f)
    \/ EnableAnswered
    \/ Connect
    \/ ReadAnswer
    \/ ReportVerified
    \/ ReportFailure
    \/ Exit
    \/ ServeErase
    \/ ServeWrite
    \/ ServeReadFails
    \/ ServeReboot
    \/ ServeReset
    \/ Boot
    \/ ServeInit
    \/ InitFails
    \/ ServeChunk
    \/ \E tail \in DoneTails : ServeDone(tail) \/ RefuseDone(tail)
    \/ OtherBegins
    \/ OtherSends
    \/ OtherRefused

PushSpec == PushInit /\ [][PushNext]_pushVars

\* The session's reads have timeouts and its loops end, and a verified session comes to
\* its reboot.  Clients need not do anything, and a reset may always come instead.
PushFairSpec ==
    /\ PushSpec
    /\ WF_pushVars(ServeReadFails)
    /\ WF_pushVars(ServeErase \/ ServeWrite)
    /\ WF_pushVars(ServeReboot)

-----------------------------------------------------------------------------
(* Properties.                                                              *)

PushTypeOK ==
    /\ TypeOK
    /\ step \in {"idle", "enable", "connect", "ready", "ack", "result", "pushed"}
    /\ IF step = "idle" THEN file = <<>> ELSE file \in Files /\ Extractable(file)
    /\ sent \in 0 .. ImageLen
    /\ stale \in BOOLEAN
    /\ peer \in {"none", "cli", "other"}
    /\ request.kind \in {"none", "OTA", "chunk", "DONE"}
    /\ answer \in {"none", "READY", "ACK", "VERIFIED", "ERROR"}

\* "Firmware verified!" (src/cmd/cli/main.go:484) is true from the file to the flash:
\* the target partition holds what the file spells out, however its blocks are
\* ordered, whatever sessions, losses and resets came before, however the answers
\* were cut up, and even if the hash came too late to be compared.
ReportIsTrue == step = "pushed" => SpeltBy(file, Firmware(target))

=============================================================================
