------------------------------- MODULE Console --------------------------------
(****************************************************************************)
(* The debug console of src/console.go: consoleServer with its lockout,        *)
(* authenticateConsole, and handleConsoleSession, which makes command lines of *)
(* the bytes it reads.  What a command does is in the module of the component  *)
(* it acts on.                                                              *)
(*                                                                          *)
(* A byte is a printable character, a line end (CR or LF), one that telnet      *)
(* commands are made of, or any other one.  Whatever has arrived is read in    *)
(* chunks, and the client chooses when a byte arrives.                        *)
(****************************************************************************)
EXTENDS Integers, SequencesExt

CONSTANTS
    Chars,         \* printable characters
    LineEnd,       \* CR or LF
    IAC,           \* 0xFF, which begins a telnet sequence
    Negotiations,  \* WILL, WONT, DO and DONT, which an option's byte follows
    SB, SE,        \* the beginning and the end of a subnegotiation
    Others,        \* the other bytes, which are not printed: telnet's NOP, ...
    ClientBytes,   \* the bytes that clients send
    Password,      \* config's console password
    PassSize,      \* len(passBuf)
    BufSize,       \* len(consoleBuf)
    ReadSize,      \* len(readBuf)
    FailureSteps,  \* the numbers of failures at which the lockout grows
    LockoutTimes,  \* the lockouts from then on
    AuthTimeout,   \* the time there is for a password
    MaxBytes       \* bound of the model: bytes a client sends on a connection

\* What a line is made of and ends with, and what only telnet has a use for.
Text == Chars \cup {LineEnd}
Bytes == Text \cup {IAC} \cup Negotiations \cup {SB, SE} \cup Others
Steps == 1 .. Len(FailureSteps)

ASSUME ConsoleAssumption ==
    /\ LineEnd \notin Chars
    /\ ({IAC, SB, SE} \cup Negotiations \cup Others) \cap Text = {}
    /\ IAC \notin {SB, SE} \cup Negotiations /\ SB \notin Negotiations
    /\ ClientBytes \subseteq Bytes
    /\ Password \in Seq(Chars) /\ Len(Password) < PassSize - 1
    /\ PassSize \in Nat /\ ReadSize \in Nat \ {0} /\ MaxBytes \in Nat
    /\ BufSize \in Nat /\ BufSize > 2
    /\ FailureSteps \in Seq(Nat \ {0}) /\ Len(FailureSteps) > 0
    /\ LockoutTimes \in [Steps -> Nat]
    /\ \A i, j \in Steps : i < j => FailureSteps[i] < FailureSteps[j]
                                    /\ LockoutTimes[i] <= LockoutTimes[j]
    /\ AuthTimeout \in Nat \ {0}

\* Bounds of the model: failures and times beyond the last step change nothing.
MaxFailures == FailureSteps[Len(FailureSteps)]
MaxAge == LockoutTimes[Len(LockoutTimes)]

VARIABLES
    pc,            \* where consoleServer is
    open,          \* the client has not closed its side
    arrived,       \* what has arrived and has not been read
    line,          \* passBuf or consoleBuf, up to its length
    skipIAC,       \* bytes to skip for a telnet sequence
    authTime,      \* time since the password prompt
    authFailures,
    sinceFailure,  \* time.Since(lastFailureTime)
    stream,        \* history: the bytes read in this session
    executed,      \* history: the commands processed in this session
    rejected,      \* history: wrong answers since the last right one
    sinceRejected  \* history: time since the last of them

lockout == <<authFailures, sinceFailure, rejected, sinceRejected>>
connection == <<open, arrived, line, skipIAC, authTime, stream, executed>>
vars == <<pc, connection, lockout>>

Later(t) == IF t < MaxAge THEN t + 1 ELSE t

TypeOK ==
    /\ pc \in {"top", "listening", "auth", "session"}
    /\ open \in BOOLEAN
    /\ arrived \in Seq(Bytes) /\ Len(arrived) <= MaxBytes
    /\ line \in Seq(Chars)
    /\ Len(line) < (IF pc = "auth" THEN PassSize ELSE BufSize) - 1
    /\ skipIAC \in 0 .. 2
    /\ authTime \in 0 .. AuthTimeout
    /\ authFailures \in 0 .. MaxFailures /\ rejected \in 0 .. MaxFailures
    /\ sinceFailure \in 0 .. MaxAge /\ sinceRejected \in 0 .. MaxAge
    /\ stream \in Seq(Bytes)
    /\ executed \in Seq(Seq(Chars))
    /\ \A i \in 1 .. Len(executed) : Len(executed[i]) < BufSize - 1

Init ==
    /\ pc = "top"
    /\ open = FALSE /\ arrived = <<>> /\ line = <<>> /\ skipIAC = 0
    /\ authTime = 0 /\ stream = <<>> /\ executed = <<>>
    /\ authFailures = 0 /\ sinceFailure = MaxAge
    /\ rejected = 0 /\ sinceRejected = MaxAge

-----------------------------------------------------------------------------
(* The lockout.                                                             *)

\* The lockout that a number of failures calls for.
LockoutAfter(failures) ==
    LET reached == {i \in Steps : failures >= FailureSteps[i]}
    IN  IF reached = {} THEN 0
        ELSE LockoutTimes[CHOOSE i \in reached : \A j \in reached : j <= i]

getLockoutDuration == LockoutAfter(authFailures)

checkLockout == sinceFailure < getLockoutDuration

Saturated(n) == IF n < MaxFailures THEN n + 1 ELSE n

recordFailure ==
    /\ authFailures' = Saturated(authFailures)
    /\ sinceFailure' = 0

\* The connection is closed and aborted, and the server starts over.
BackToTop ==
    /\ pc' = "top"
    /\ open' = FALSE /\ arrived' = <<>> /\ line' = <<>> /\ skipIAC' = 0
    /\ authTime' = 0 /\ stream' = <<>> /\ executed' = <<>>

Reject ==
    /\ recordFailure
    /\ rejected' = Saturated(rejected)
    /\ sinceRejected' = 0
    /\ BackToTop

-----------------------------------------------------------------------------
(* consoleServer.                                                           *)

\* Mutant: the lockout is over one tick early.
ListenEarly ==
    /\ pc = "top"
    /\ sinceFailure + 1 >= getLockoutDuration
    /\ pc' = "listening"
    /\ UNCHANGED <<connection, lockout>>

\* Nobody is locked out, and the listen succeeds.
Listen ==
    /\ pc = "top"
    /\ ~checkLockout
    /\ pc' = "listening"
    /\ UNCHANGED <<connection, lockout>>

\* Nobody connects in 60 s, or the handshake fails.
NoClient ==
    /\ pc = "listening"
    /\ pc' = "top"
    /\ UNCHANGED <<connection, lockout>>

\* A client is connected and gets the password prompt.
Prompt ==
    /\ pc = "listening"
    /\ pc' = "auth"
    /\ open' = TRUE
    /\ UNCHANGED <<arrived, line, skipIAC, authTime, stream, executed, lockout>>

-----------------------------------------------------------------------------
(* Reading.  Both loops read what has arrived, up to the size of their buffer.  *)

ChunkLen == IF Len(arrived) < ReadSize THEN Len(arrived) ELSE ReadSize
Chunk == SubSeq(arrived, 1, ChunkLen)
Unread == SubSeq(arrived, ChunkLen + 1, Len(arrived))

\* While a chunk is gone through: the line so far, the bytes to skip, the lines
\* completed in it, and the session's commands, which are its lines but the empty ones.
Complete(s) ==
    [s EXCEPT !.lines = Append(@, s.line),
              !.commands = IF s.line = <<>> THEN @ ELSE Append(@, s.line)]

\* Mutant: nothing keeps the line within its buffer.
ScanByteUnbounded(s, b, limit) ==
    IF s.skip > 0 THEN [s EXCEPT !.skip = @ - 1]
    ELSE IF b = IAC THEN [s EXCEPT !.skip = 2]
    ELSE IF b = LineEnd THEN [Complete(s) EXCEPT !.line = <<>>]
    ELSE IF b \in Chars THEN [s EXCEPT !.line = Append(@, b)]
    ELSE s

\* Mutant: the line is not emptied when it has been processed.
ScanByteKeep(s, b, limit) ==
    IF Len(s.line) >= limit THEN s
    ELSE IF s.skip > 0 THEN [s EXCEPT !.skip = @ - 1]
    ELSE IF b = IAC THEN [s EXCEPT !.skip = 2]
    ELSE IF b = LineEnd THEN Complete(s)
    ELSE IF b \in Chars THEN [s EXCEPT !.line = Append(@, b)]
    ELSE s

\* One byte of a chunk.  With the buffer full the loop has ended.  An IAC takes the
\* two bytes after it with it, whatever they are, and a byte that is not printed is
\* left out.
ScanByte(s, b, limit) ==
    IF Len(s.line) >= limit THEN s
    ELSE IF s.skip > 0 THEN [s EXCEPT !.skip = @ - 1]
    ELSE IF b = IAC THEN [s EXCEPT !.skip = 2]
    ELSE IF b = LineEnd THEN [Complete(s) EXCEPT !.line = <<>>]
    ELSE IF b \in Chars THEN [s EXCEPT !.line = Append(@, b)]
    ELSE s

\* The whole chunk, for a buffer that holds limit bytes.
Scanned(limit) ==
    FoldLeft(LAMBDA s, b : ScanByte(s, b, limit),
             [line |-> line, skip |-> skipIAC, lines |-> <<>>, commands |-> executed],
             Chunk)

-----------------------------------------------------------------------------
(* authenticateConsole.                                                     *)

\* The client has closed its side: no answer, and no failure either.
AuthClosed ==
    /\ pc = "auth"
    /\ ~open
    /\ BackToTop
    /\ UNCHANGED lockout

\* Mutant: only an answer is counted.
AuthTimesOutUncounted ==
    /\ pc = "auth"
    /\ authTime = AuthTimeout
    /\ rejected' = Saturated(rejected)
    /\ sinceRejected' = 0
    /\ BackToTop
    /\ UNCHANGED <<authFailures, sinceFailure>>

\* No answer in time.
AuthTimesOut ==
    /\ pc = "auth"
    /\ authTime = AuthTimeout
    /\ Reject

\* The client's bytes are no answer yet.
AuthRead ==
    LET s == Scanned(PassSize - 1) IN
    /\ pc = "auth"
    /\ open /\ authTime < AuthTimeout
    /\ arrived # <<>>
    /\ s.lines = <<>> /\ Len(s.line) < PassSize - 1
    /\ line' = s.line
    /\ skipIAC' = s.skip
    /\ arrived' = Unread
    /\ UNCHANGED <<pc, open, authTime, stream, executed, lockout>>

\* The first line is the password.  What follows it in the chunk is dropped.
AuthSucceeds ==
    LET s == Scanned(PassSize - 1) IN
    /\ pc = "auth"
    /\ open /\ authTime < AuthTimeout
    /\ arrived # <<>>
    /\ s.lines # <<>> /\ s.lines[1] = Password
    /\ authFailures' = 0 /\ rejected' = 0
    /\ pc' = "session"
    /\ line' = <<>> /\ skipIAC' = 0 /\ authTime' = 0
    /\ arrived' = Unread
    /\ UNCHANGED <<open, stream, executed, sinceFailure, sinceRejected>>

\* It is another one, or too long.
AuthFails ==
    LET s == Scanned(PassSize - 1) IN
    /\ pc = "auth"
    /\ open /\ authTime < AuthTimeout
    /\ arrived # <<>>
    /\ IF s.lines # <<>> THEN s.lines[1] # Password ELSE Len(s.line) >= PassSize - 1
    /\ Reject

-----------------------------------------------------------------------------
(* handleConsoleSession.                                                    *)

\* A chunk is read and the commands completed in it are processed.
\* A line that fills the buffer is dropped with the rest of the chunk.
SessionRead ==
    LET s == Scanned(BufSize - 1) IN
    /\ pc = "session"
    /\ open
    /\ arrived # <<>>
    /\ executed' = s.commands
    /\ line' = IF Len(s.line) >= BufSize - 1 THEN <<>> ELSE s.line
    /\ skipIAC' = s.skip
    /\ arrived' = Unread
    /\ stream' = stream \o Chunk
    /\ UNCHANGED <<pc, open, authTime, lockout>>

\* Mutant: only a read finds out that the client has closed its side.
SessionEndsOnRead ==
    /\ pc = "session"
    /\ ~open
    /\ arrived # <<>>
    /\ BackToTop
    /\ UNCHANGED lockout

\* The client has closed its side: what it sent last is not read any more.
SessionEnds ==
    /\ pc = "session"
    /\ ~open
    /\ BackToTop
    /\ UNCHANGED lockout

-----------------------------------------------------------------------------
(* The client and the time.                                                 *)

Send(b) ==
    /\ open
    /\ Len(arrived) + Len(IF pc = "session" THEN stream ELSE line) < MaxBytes
    /\ arrived' = Append(arrived, b)
    /\ UNCHANGED <<pc, open, line, skipIAC, authTime, stream, executed, lockout>>

Leave ==
    /\ open
    /\ open' = FALSE
    /\ UNCHANGED <<pc, arrived, line, skipIAC, authTime, stream, executed,
                   lockout>>

Tick ==
    /\ pc = "auth" => authTime < AuthTimeout
    /\ authTime' = IF pc = "auth" THEN authTime + 1 ELSE authTime
    /\ sinceFailure' = Later(sinceFailure)
    /\ sinceRejected' = Later(sinceRejected)
    /\ UNCHANGED <<pc, open, arrived, line, skipIAC, stream, executed,
                   authFailures, rejected>>

Next ==
    \/ Listen
    \/ NoClient
    \/ Prompt
    \/ AuthClosed
    \/ AuthTimesOut
    \/ AuthRead
    \/ AuthSucceeds
    \/ AuthFails
    \/ SessionRead
    \/ SessionEnds
    \/ \E b \in ClientBytes : Send(b)
    \/ Leave
    \/ Tick

Spec == Init /\ [][Next]_vars

\* The console's goroutine is scheduled and time passes.  A client need not connect,
\* send anything, or leave.
FairSpec ==
    /\ Spec
    /\ WF_vars(Listen)
    /\ WF_vars(AuthClosed \/ AuthTimesOut)
    /\ WF_vars(SessionRead)
    /\ WF_vars(SessionEnds)
    /\ WF_vars(Tick)

-----------------------------------------------------------------------------
(* Properties.                                                              *)

\* "Progressive lockout after failed attempts" (README.md:130, 346-349): nobody is
\* asked for a password before the lockout that the wrong answers since the last
\* right one call for is over, counted from the last of them
\* (console.go 95-99, 730-763).
LockoutHeld == [][Prompt => sinceRejected >= LockoutAfter(rejected)]_vars

\* The byte k ends the subnegotiation that begins at j: an SE after an IAC that is not
\* itself the second one of a pair, which stands for a byte 0xFF.
Closes(bytes, j, k) ==
    /\ bytes[k] = SE
    /\ \E m \in j + 1 .. k - 1 :
          /\ bytes[m] # IAC
          /\ \A l \in m + 1 .. k - 1 : bytes[l] = IAC
          /\ (k - 1 - m) % 2 = 1

\* The byte i belongs to the telnet sequence that begins at j, by RFC 854: two bytes,
\* a third for an option, and everything up to its end for a subnegotiation.
InSequence(bytes, j, i) ==
    /\ j < i
    /\ \/ i = j + 1
       \/ i = j + 2 /\ bytes[j + 1] \in Negotiations
       \/ bytes[j + 1] = SB /\ \A k \in j + 2 .. i - 1 : ~Closes(bytes, j, k)

\* The telnet sequences in bytes begin where telnet says: at every IAC that belongs to
\* none that began before it.
AreBeginnings(bytes, telnet) ==
    \A i \in 1 .. Len(bytes) :
        i \in telnet <=> bytes[i] = IAC /\ \A j \in telnet : ~InSequence(bytes, j, i)

\* All of them negotiate an option, or are not complete yet.
OnlyNegotiations(bytes, telnet) ==
    \A j \in telnet : j < Len(bytes) => bytes[j + 1] \in Negotiations

\* After every IAC is one of telnet's commands, or another IAC for a byte 0xFF.
OnlyCommands(bytes, telnet) ==
    \A j \in telnet : j < Len(bytes) => bytes[j + 1] \notin Text \cup {SE}

\* The text outside the sequences, and the line ends in it.
Visible(bytes, telnet) ==
    {i \in 1 .. Len(bytes) :
        bytes[i] \in Text /\ \A j \in telnet : ~InSequence(bytes, j, i)}

Ends(bytes, telnet) == {i \in Visible(bytes, telnet) : bytes[i] = LineEnd}

\* What is before the byte i on its line, and how much that is.
Before(bytes, telnet, i) ==
    {j \in Visible(bytes, telnet) :
        j < i /\ \A e \in Ends(bytes, telnet) : e < j \/ i <= e}

Column(bytes, telnet, i) == Cardinality(Before(bytes, telnet, i))

Short(bytes, telnet) ==
    \A i \in 1 .. Len(bytes) + 1 : Column(bytes, telnet, i) < BufSize - 1

\* The ends of the lines that are not empty, and the number of such lines up to i.
CommandEnds(bytes, telnet) ==
    {e \in Ends(bytes, telnet) : Before(bytes, telnet, e) # {}}

Number(bytes, telnet, i) == Cardinality({e \in CommandEnds(bytes, telnet) : e <= i})

\* text is what is before the byte i on its line.
IsText(text, bytes, telnet, i) ==
    /\ Len(text) = Column(bytes, telnet, i)
    /\ \A j \in Before(bytes, telnet, i) :
          text[Column(bytes, telnet, j) + 1] = bytes[j]

AreLines(commands, bytes, telnet) ==
    /\ Len(commands) = Cardinality(CommandEnds(bytes, telnet))
    /\ \A e \in CommandEnds(bytes, telnet) :
          IsText(commands[Number(bytes, telnet, e)], bytes, telnet, e)

\* With telnet's sequences where telnet says, and no line too long for the buffer, the
\* commands of the session are the lines of its text.
ReadsLines(telnet) ==
    AreBeginnings(stream, telnet) /\ Short(stream, telnet)
        => AreLines(executed, stream, telnet)

\* For a client whose telnet sequences are all negotiations of an option, as the answers
\* to the console's WILL and WONT ECHO are, the commands of a session are the lines of
\* the text outside them, each processed once and in order, however the bytes are split
\* into chunks, unless a line is too long for the buffer (console.go 168-240).
CommandsAreLines ==
    pc = "session" =>
        \A telnet \in SUBSET (1 .. Len(stream)) :
            OnlyNegotiations(stream, telnet) => ReadsLines(telnet)

\* "Telnet debug console with full IAC protocol support" (README.md:64): the same for a
\* client that uses telnet's other commands as well (console.go 193-207).
TelnetIsLeftOut ==
    pc = "session" =>
        \A telnet \in SUBSET (1 .. Len(stream)) :
            OnlyCommands(stream, telnet) => ReadsLines(telnet)

\* The console comes back: a client that leaves, or does not answer the prompt, does
\* not keep it, and a lockout ends (console.go 86-165).
ListensAgain ==
    (pc = "auth" \/ (pc = "session" /\ ~open))
        ~> (pc = "listening" \/ (pc = "session" /\ open))

=============================================================================
