----------------------------- MODULE ConsoleProofs ----------------------------
(****************************************************************************)
(* The console, for every table of lockouts, every size of its buffers and       *)
(* every stream of bytes.                                                    *)
(*                                                                          *)
(* The lockout: the code keeps its own count and time, the history keeps the    *)
(* wrong answers; they agree in every step, and a server that listens has found  *)
(* the lockout over, which time alone does not change.                          *)
(*                                                                          *)
(* The lines: a scan is a fold over the bytes of a chunk.  ByteFact is what one  *)
(* byte does to the scan and to the lines of the stream; SessionScan is an       *)
(* induction over the chunk, and the invariant At carries the line, the bytes to *)
(* skip and the commands from one chunk to the next.                            *)
(*                                                                          *)
(* Where sequences begin is said twice: AreBeginnings is RFC 854, ThreeBytes is    *)
(* the code.  NegotiationsFact has them agree on streams of negotiations.        *)
(****************************************************************************)
EXTENDS Console, SequenceTheorems, FiniteSetTheorems, WellFoundedInduction, TLAPS

\* A set of steps has a last one.
LEMMA LastStep ==
    ASSUME NEW S \in SUBSET Steps, S # {}
    PROVE  \E i \in S : \A j \in S : j <= i
<1> DEFINE n == Len(FailureSteps)
           T == {n - i : i \in S}
<1>1. n \in Nat
  BY ConsoleAssumption
<1>2. \A i \in S : i \in Nat /\ n - i \in Nat
  BY <1>1 DEF Steps
<1>3. T \in SUBSET Nat /\ T # {}
  BY <1>2
<1>4. PICK t \in T : \A u \in T : ~(<<u, t>> \in OpToRel(<, Nat))
  BY <1>3, NatLessThanWellFounded, WFMin
<1>5. PICK i \in S : t = n - i
  OBVIOUS
<1>6. ASSUME NEW j \in S PROVE j <= i
  <2>1. ~(n - j < n - i)
    BY <1>2, <1>4, <1>5 DEF OpToRel
  <2>2. QED
    BY <1>1, <1>2, <2>1
<1>7. QED
  BY <1>6

LEMMA TimesFact ==
    /\ MaxAge \in Nat
    /\ \A failures : LockoutAfter(failures) \in Nat
<1>1. LockoutTimes \in Seq(Nat) /\ Len(LockoutTimes) = Len(FailureSteps)
      /\ Len(FailureSteps) \in Nat \ {0}
  <2> DEFINE n == Len(FailureSteps)
  <2>1. FailureSteps \in Seq(Nat \ {0}) /\ n > 0 /\ LockoutTimes \in [1 .. n -> Nat]
    BY ConsoleAssumption DEF Steps
  <2>2. n \in Nat
    BY <2>1, LenProperties
  <2> HIDE DEF n
  <2>3. LockoutTimes \in Seq(Nat)
    BY <2>1, <2>2, SeqDef
  <2>4. DOMAIN LockoutTimes = 1 .. n
    BY <2>1
  <2>5. DOMAIN LockoutTimes = 1 .. Len(LockoutTimes) /\ Len(LockoutTimes) \in Nat
    BY <2>3, LenProperties
  <2>6. Len(LockoutTimes) = n
    BY <2>1, <2>2, <2>4, <2>5
  <2>7. QED
    BY <2>1, <2>2, <2>3, <2>6 DEF n
<1>2. MaxAge \in Nat
  <2>1. Len(LockoutTimes) \in 1 .. Len(LockoutTimes)
    BY <1>1
  <2>2. QED
    BY <1>1, <2>1, ElementOfSeq DEF MaxAge
<1>3. ASSUME NEW failures PROVE LockoutAfter(failures) \in Nat
  <2> DEFINE reached == {i \in Steps : failures >= FailureSteps[i]}
             last == CHOOSE i \in reached : \A j \in reached : j <= i
  <2>1. CASE reached = {}
    BY <2>1 DEF LockoutAfter
  <2>2. CASE reached # {}
    <3>1. last \in reached
      BY <2>2, LastStep
    <3>2. LockoutTimes[last] \in Nat
      BY <3>1, ConsoleAssumption
    <3>3. QED
      BY <2>2, <3>2 DEF LockoutAfter
  <2>3. QED
    BY <2>1, <2>2
<1>4. QED
  BY <1>2, <1>3

-----------------------------------------------------------------------------
(* The inductive invariant.                                                 *)

\* The code's count and time are those of the wrong answers.
Agree ==
    /\ authFailures = rejected
    /\ sinceFailure = sinceRejected
    /\ sinceFailure \in Nat

\* A server that listens, or has asked for a password, has waited the lockout out.
WaitedOut ==
    pc = "listening" => sinceRejected >= LockoutAfter(rejected)

LInv == Agree /\ WaitedOut

LEMMA InitLInv == Init => LInv
BY TimesFact DEF Init, LInv, Agree, WaitedOut

LEMMA NextLInv == LInv /\ [Next]_vars => LInv'
<1> SUFFICES ASSUME LInv, [Next]_vars PROVE LInv'
  OBVIOUS
<1> USE DEF LInv
<1>1. CASE Listen
  <2>1. ~(sinceFailure < LockoutAfter(authFailures))
    BY <1>1 DEF Listen, checkLockout, getLockoutDuration
  <2>2. LockoutAfter(authFailures) \in Nat
    BY TimesFact
  <2>3. QED
    BY <1>1, <2>1, <2>2 DEF Listen, lockout, Agree, WaitedOut
<1>2. CASE NoClient \/ Prompt \/ AuthRead \/ SessionRead \/ SessionEnds \/ AuthClosed
  BY <1>2 DEF NoClient, Prompt, AuthRead, SessionRead, SessionEnds, AuthClosed, BackToTop,
     lockout, Agree, WaitedOut
<1>3. CASE AuthTimesOut \/ AuthFails
  BY <1>3 DEF AuthTimesOut, AuthFails, Reject, recordFailure, BackToTop, Agree, WaitedOut
<1>4. CASE AuthSucceeds
  BY <1>4 DEF AuthSucceeds, Agree, WaitedOut
<1>5. CASE (\E b \in ClientBytes : Send(b)) \/ Leave
  BY <1>5 DEF Send, Leave, lockout, Agree, WaitedOut
<1>6. CASE Tick
  <2>1. /\ sinceFailure' = Later(sinceFailure) /\ sinceRejected' = Later(sinceRejected)
        /\ UNCHANGED <<pc, authFailures, rejected>>
    BY <1>6 DEF Tick
  <2>2. Later(sinceFailure) \in Nat /\ Later(sinceFailure) >= sinceFailure
    BY TimesFact DEF Later, Agree
  <2>3. LockoutAfter(rejected) \in Nat
    BY TimesFact
  <2>4. QED
    BY <2>1, <2>2, <2>3 DEF Agree, WaitedOut
<1>7. CASE UNCHANGED vars
  BY <1>7 DEF vars, lockout, Agree, WaitedOut
<1>8. QED
  BY <1>1, <1>2, <1>3, <1>4, <1>5, <1>6, <1>7 DEF Next

LEMMA Inductive == Spec => []LInv
BY InitLInv, NextLInv, PTL DEF Spec

\* Nobody is asked for a password before the lockout that the wrong answers since the
\* last right one call for is over (console.go 95-99, 730-763).
THEOREM LockoutIsHeld == Spec => LockoutHeld
<1>1. LInv => [Prompt => sinceRejected >= LockoutAfter(rejected)]_vars
  BY DEF LInv, WaitedOut, Prompt
<1>2. QED
  BY <1>1, Inductive, PTL DEF LockoutHeld

-----------------------------------------------------------------------------
(* One byte of a chunk.                                                     *)

\* What a scan works on, with a buffer that holds limit bytes.
Lines(limit) == {l \in Seq(Chars) : Len(l) < limit}

State(limit) ==
    [line     : {l \in Seq(Chars) : Len(l) <= limit},
     skip     : 0 .. 2,
     lines    : Seq(Lines(limit)),
     commands : Seq(Lines(limit))]

LEMMA ScanByteFact ==
    ASSUME NEW limit \in Nat, NEW s \in State(limit), NEW b \in Bytes,
           NEW t, t = ScanByte(s, b, limit)
    PROVE  /\ t \in State(limit)
           /\ Len(s.line) < limit =>
                 /\ s.skip > 0 =>
                       t.line = s.line /\ t.skip = s.skip - 1 /\ t.commands = s.commands
                 /\ s.skip = 0 /\ b = IAC =>
                       t.line = s.line /\ t.skip = 2 /\ t.commands = s.commands
                 /\ s.skip = 0 /\ b = LineEnd =>
                       /\ t.line = <<>> /\ t.skip = 0
                       /\ t.commands = IF s.line = <<>> THEN s.commands
                                       ELSE Append(s.commands, s.line)
                 /\ s.skip = 0 /\ b \in Chars =>
                       /\ t.line = Append(s.line, b) /\ t.skip = 0
                       /\ t.commands = s.commands
                 /\ s.skip = 0 /\ b \notin Text \cup {IAC} =>
                       t.line = s.line /\ t.skip = 0 /\ t.commands = s.commands
<1>0. LineEnd \notin Chars /\ IAC \notin Chars /\ IAC # LineEnd
  BY ConsoleAssumption DEF Text
<1>1. /\ s.line \in Seq(Chars) /\ Len(s.line) <= limit /\ Len(s.line) \in Nat
      /\ s.skip \in 0 .. 2
      /\ s.lines \in Seq(Lines(limit)) /\ s.commands \in Seq(Lines(limit))
      /\ s = [line |-> s.line, skip |-> s.skip, lines |-> s.lines,
              commands |-> s.commands]
  BY DEF State
<1>2. CASE Len(s.line) >= limit
  BY <1>1, <1>2 DEF ScanByte
<1>3. CASE Len(s.line) < limit /\ s.skip > 0
  <2>1. t = [s EXCEPT !.skip = @ - 1]
    <3>1. ~(Len(s.line) >= limit)
      BY <1>1, <1>3
    <3>2. QED
      BY <1>3, <3>1 DEF ScanByte
  <2>2. s.skip - 1 \in 0 .. 2
    <3>1. s.skip \in 0 .. 2 /\ s.skip > 0
      BY <1>1, <1>3, Zenon
    <3>2. QED
      BY <3>1
  <2>3. t = [line |-> s.line, skip |-> s.skip - 1, lines |-> s.lines,
             commands |-> s.commands]
    BY <1>1, <2>1
  <2>4. t \in State(limit)
    BY <1>1, <2>2, <2>3 DEF State
  <2>5. /\ t.line = s.line /\ t.skip = s.skip - 1 /\ t.commands = s.commands
        /\ s.skip # 0
    BY <1>1, <1>3, <2>3
  <2>6. QED
    BY <2>4, <2>5
<1>4. CASE Len(s.line) < limit /\ s.skip = 0 /\ b = IAC
  <2>1. t = [line |-> s.line, skip |-> 2, lines |-> s.lines, commands |-> s.commands]
    BY <1>1, <1>4 DEF ScanByte
  <2>2. t \in State(limit)
    BY <1>1, <2>1 DEF State
  <2>3. QED
    BY <1>0, <1>4, <2>1, <2>2
<1>5. CASE Len(s.line) < limit /\ s.skip = 0 /\ b = LineEnd
  <2> DEFINE c == Append(s.commands, s.line)
             l == Append(s.lines, s.line)
  <2>1. t = [Complete(s) EXCEPT !.line = <<>>]
    BY <1>0, <1>1, <1>5 DEF ScanByte
  <2>2. s.line \in Lines(limit)
    BY <1>1, <1>5 DEF Lines
  <2>3. c \in Seq(Lines(limit)) /\ l \in Seq(Lines(limit))
    BY <1>1, <2>2
  <2> HIDE DEF c, l
  <2>4. t = [line |-> <<>>, skip |-> s.skip, lines |-> l,
             commands |-> IF s.line = <<>> THEN s.commands ELSE c]
    BY <1>1, <2>1 DEF Complete, c, l
  <2>5. <<>> \in Seq(Chars) /\ Len(<<>>) <= limit
    OBVIOUS
  <2>6. t \in State(limit)
    BY <1>1, <2>3, <2>4, <2>5 DEF State
  <2>7. QED
    BY <1>0, <1>5, <2>4, <2>6 DEF c, Text
<1>6. CASE Len(s.line) < limit /\ s.skip = 0 /\ b \in Chars
  <2> DEFINE l == Append(s.line, b)
  <2>1. l \in Seq(Chars) /\ Len(l) <= limit
    BY <1>1, <1>6
  <2>2. t = [line |-> l, skip |-> s.skip, lines |-> s.lines, commands |-> s.commands]
    <3>1. b # IAC /\ b # LineEnd /\ ~(Len(s.line) >= limit) /\ ~(s.skip > 0)
      BY <1>0, <1>1, <1>6
    <3>2. t = [s EXCEPT !.line = Append(@, b)]
      BY <1>6, <3>1, Zenon DEF ScanByte
    <3>3. QED
      BY <1>1, <3>2
  <2> HIDE DEF l
  <2>3. t \in State(limit)
    BY <1>1, <2>1, <2>2 DEF State
  <2>4. QED
    BY <1>0, <1>6, <2>2, <2>3 DEF l, Text
<1>7. CASE Len(s.line) < limit /\ s.skip = 0 /\ b \notin Text \cup {IAC}
  <2>1. b # IAC /\ b # LineEnd /\ b \notin Chars /\ ~(Len(s.line) >= limit) /\ ~(s.skip > 0)
    BY <1>1, <1>7 DEF Text
  <2>2. t = s
    BY <2>1, Zenon DEF ScanByte
  <2>3. QED
    BY <1>7, <2>1, <2>2
<1>8. b = IAC \/ b = LineEnd \/ b \in Chars \/ b \notin Text \cup {IAC}
  BY DEF Text
<1>9. QED
  BY <1>1, <1>2, <1>3, <1>4, <1>5, <1>6, <1>7, <1>8

-----------------------------------------------------------------------------
(* The same byte in the stream.                                             *)

\* Where the code takes a telnet sequence to begin: at an IAC that is not one of the two
\* bytes after another's beginning.
ThreeBytes(bytes, telnet) ==
    \A i \in 1 .. Len(bytes) :
        i \in telnet <=> bytes[i] = IAC /\ i - 1 \notin telnet /\ i - 2 \notin telnet

\* The line, the bytes to skip and the commands are those of the stream so far, if its
\* sequences are what the code takes them for.
Agrees(bytes, telnet, text, skip, commands) ==
    OnlyNegotiations(bytes, telnet) /\ Short(bytes, telnet) =>
        /\ skip = IF Len(bytes) \in telnet THEN 2
                  ELSE IF Len(bytes) - 1 \in telnet THEN 1 ELSE 0
        /\ IsText(text, bytes, telnet, Len(bytes) + 1)
        /\ AreLines(commands, bytes, telnet)

\* further marks the sequences the code finds in a stream that is a byte longer.
Marks(bytes, telnet, b, further) ==
    /\ telnet \in SUBSET (1 .. Len(bytes))
    /\ \A i : i \in further <=> \/ i \in telnet
                                \/ /\ i = Len(bytes) + 1 /\ b = IAC
                                   /\ Len(bytes) \notin telnet
                                   /\ Len(bytes) - 1 \notin telnet

\* So it does, and they are all negotiations.
IsLonger(bytes, telnet, b, further) ==
    /\ Marks(bytes, telnet, b, further)
    /\ OnlyNegotiations(Append(bytes, b), further)

\* A negotiation has three bytes, as the code has it of every sequence.
LEMMA InNegotiation ==
    ASSUME NEW bytes \in Seq(Bytes), NEW telnet \in SUBSET (1 .. Len(bytes)),
           OnlyNegotiations(bytes, telnet), NEW i \in 1 .. Len(bytes), NEW j \in telnet
    PROVE  InSequence(bytes, j, i) <=> i = j + 1 \/ i = j + 2
<1>1. j \in 1 .. Len(bytes) /\ j \in Int /\ i \in Int /\ Len(bytes) \in Nat
  OBVIOUS
<1>2. ASSUME j < i PROVE bytes[j + 1] \in Negotiations /\ bytes[j + 1] # SB
  <2>1. bytes[j + 1] \in Negotiations
    BY <1>1, <1>2 DEF OnlyNegotiations
  <2>2. QED
    BY <2>1, ConsoleAssumption
<1>3. QED
  BY <1>1, <1>2 DEF InSequence

LEMMA NegotiationsFact ==
    ASSUME NEW bytes \in Seq(Bytes), NEW telnet \in SUBSET (1 .. Len(bytes)),
           OnlyNegotiations(bytes, telnet)
    PROVE  /\ AreBeginnings(bytes, telnet) => ThreeBytes(bytes, telnet)
           /\ \A i : i \in Visible(bytes, telnet)
                 <=> /\ i \in 1 .. Len(bytes) /\ bytes[i] \in Text
                     /\ i - 1 \notin telnet /\ i - 2 \notin telnet
<1>1. ASSUME NEW i \in 1 .. Len(bytes)
      PROVE  (\A j \in telnet : ~InSequence(bytes, j, i))
                <=> i - 1 \notin telnet /\ i - 2 \notin telnet
  <2>1. \A j \in telnet : InSequence(bytes, j, i) <=> i = j + 1 \/ i = j + 2
    BY InNegotiation
  <2>2. \A j \in telnet : /\ i = j + 1 <=> j = i - 1
                         /\ i = j + 2 <=> j = i - 2
    OBVIOUS
  <2>3. QED
    BY <2>1, <2>2
<1>2. QED
  BY <1>1 DEF AreBeginnings, ThreeBytes, Visible

LEMMA StreamFact ==
    ASSUME NEW bytes \in Seq(Bytes), NEW telnet
    PROVE  \A i : /\ IsFiniteSet(Before(bytes, telnet, i))
                  /\ IsFiniteSet(CommandEnds(bytes, telnet))
                  /\ Column(bytes, telnet, i) \in Nat
                  /\ Column(bytes, telnet, i) = 0 <=> Before(bytes, telnet, i) = {}
                  /\ Number(bytes, telnet, i) \in Nat
                  /\ Number(bytes, telnet, i) <= Cardinality(CommandEnds(bytes, telnet))
                  /\ i \in CommandEnds(bytes, telnet) => Number(bytes, telnet, i) # 0
<1>1. Visible(bytes, telnet) \subseteq 1 .. Len(bytes) /\ Len(bytes) \in Nat
  BY DEF Visible
<1>2. \A i : /\ Before(bytes, telnet, i) \subseteq 1 .. Len(bytes)
             /\ CommandEnds(bytes, telnet) \subseteq 1 .. Len(bytes)
             /\ {e \in CommandEnds(bytes, telnet) : e <= i}
                   \subseteq CommandEnds(bytes, telnet)
  BY <1>1 DEF Before, CommandEnds, Ends
<1>3. IsFiniteSet(1 .. Len(bytes))
  BY <1>1, FS_Interval
<1>4. \A i : /\ IsFiniteSet(Before(bytes, telnet, i))
             /\ IsFiniteSet(CommandEnds(bytes, telnet))
             /\ IsFiniteSet({e \in CommandEnds(bytes, telnet) : e <= i})
  BY <1>2, <1>3, FS_Subset
<1>5. \A i \in CommandEnds(bytes, telnet) :
         i \in {e \in CommandEnds(bytes, telnet) : e <= i}
  BY <1>1, <1>2
<1>6. QED
  BY <1>2, <1>4, <1>5, FS_EmptySet, FS_Subset, FS_CardinalityType DEF Column, Number

\* The byte that is more is the only place where a sequence may begin that did not.
LEMMA MarksFact ==
    ASSUME NEW bytes \in Seq(Bytes), NEW b \in Bytes, NEW telnet, NEW further,
           Marks(bytes, telnet, b, further), ThreeBytes(bytes, telnet)
    PROVE  ThreeBytes(Append(bytes, b), further)
<1> DEFINE longer == Append(bytes, b)
           n == Len(bytes) + 1
<1>1. /\ n \in Nat /\ n >= 1 /\ Len(longer) = n /\ Len(bytes) = n - 1
      /\ longer[n] = b
      /\ \A i \in 1 .. n - 1 : longer[i] = bytes[i]
  OBVIOUS
<1> HIDE DEF longer, n
<1>2. \A i \in Int : i < n => (i \in further <=> i \in telnet)
  BY <1>1 DEF Marks, n
<1>3. n \in further <=> b = IAC /\ n - 1 \notin telnet /\ n - 2 \notin telnet
  BY <1>1 DEF Marks, n
<1>4. ThreeBytes(longer, further)
  <2> SUFFICES ASSUME NEW i \in 1 .. n
               PROVE  i \in further
                         <=> longer[i] = IAC /\ i - 1 \notin further /\ i - 2 \notin further
    BY <1>1 DEF ThreeBytes
  <2>1. /\ i \in Int /\ i - 1 \in Int /\ i - 2 \in Int /\ i - 1 < n /\ i - 2 < n
        /\ (i = n \/ i \in 1 .. n - 1)
    BY <1>1
  <2>2. i - 1 \in further <=> i - 1 \in telnet
    BY <1>2, <2>1
  <2>3. i - 2 \in further <=> i - 2 \in telnet
    BY <1>2, <2>1
  <2>4. CASE i = n
    BY <1>1, <1>3, <2>2, <2>3, <2>4
  <2>5. CASE i \in 1 .. n - 1
    BY <1>1, <1>2, <2>1, <2>2, <2>3, <2>5 DEF ThreeBytes
  <2>6. QED
    BY <2>1, <2>4, <2>5
<1>5. QED
  BY <1>4 DEF longer

\* The byte b is text and no part of a telnet sequence.
Seen(bytes, telnet, b) ==
    b \in Text /\ Len(bytes) \notin telnet /\ Len(bytes) - 1 \notin telnet

\* What changes with the byte: its own place and what comes after it.
LEMMA LongerFact ==
    ASSUME NEW bytes \in Seq(Bytes), NEW b \in Bytes, NEW telnet, NEW further,
           IsLonger(bytes, telnet, b, further)
    PROVE  /\ OnlyNegotiations(bytes, telnet)
           /\ \A i : i \in Ends(Append(bytes, b), further)
                 <=> \/ i \in Ends(bytes, telnet)
                     \/ i = Len(bytes) + 1 /\ Seen(bytes, telnet, b) /\ b = LineEnd
           /\ \A i \in 1 .. Len(bytes) + 1 :
                 Before(Append(bytes, b), further, i) = Before(bytes, telnet, i)
           /\ ~Seen(bytes, telnet, b) =>
                 Before(Append(bytes, b), further, Len(bytes) + 2)
                    = Before(bytes, telnet, Len(bytes) + 1)
           /\ Seen(bytes, telnet, b) /\ b = LineEnd =>
                 Before(Append(bytes, b), further, Len(bytes) + 2) = {}
           /\ Seen(bytes, telnet, b) /\ b # LineEnd =>
                 Before(Append(bytes, b), further, Len(bytes) + 2)
                    = Before(bytes, telnet, Len(bytes) + 1) \cup {Len(bytes) + 1}
<1> DEFINE longer == Append(bytes, b)
           n == Len(bytes) + 1
           seen == Seen(bytes, telnet, b)
<1>1. /\ n \in Nat /\ n >= 1 /\ Len(longer) = n /\ Len(bytes) = n - 1
      /\ longer[n] = b /\ longer \in Seq(Bytes)
      /\ \A i \in 1 .. n - 1 : longer[i] = bytes[i]
  OBVIOUS
<1> HIDE DEF longer, n, seen
<1>2. \A i \in Int : i < n => (i \in further <=> i \in telnet)
  BY <1>1 DEF IsLonger, Marks, n
<1>3. n \in further <=> b = IAC /\ n - 1 \notin telnet /\ n - 2 \notin telnet
  BY <1>1 DEF IsLonger, Marks, n
<1>4. /\ OnlyNegotiations(bytes, telnet) /\ OnlyNegotiations(longer, further)
      /\ further \in SUBSET (1 .. n) /\ telnet \in SUBSET (1 .. n - 1)
  <2>1. /\ OnlyNegotiations(longer, further) /\ telnet \in SUBSET (1 .. n - 1)
        /\ \A i : i \in further => i \in telnet \/ i = n
        /\ \A i \in telnet : i \in further
    BY <1>1 DEF IsLonger, Marks, longer, n
  <2>2. further \in SUBSET (1 .. n)
    <3>1. \A i \in telnet : i \in 1 .. n
      BY <1>1, <2>1
    <3>2. n \in 1 .. n
      BY <1>1
    <3>3. QED
      BY <2>1, <3>1, <3>2
  <2>3. ASSUME NEW j \in telnet, j < n - 1 PROVE bytes[j + 1] \in Negotiations
    <3>1. j \in 1 .. n - 1 /\ j + 1 \in 1 .. n - 1 /\ j < n
      BY <1>1, <2>1, <2>3
    <3>2. longer[j + 1] \in Negotiations
      BY <1>1, <2>1, <3>1 DEF OnlyNegotiations
    <3>3. QED
      BY <1>1, <3>1, <3>2
  <2>4. OnlyNegotiations(bytes, telnet)
    BY <1>1, <2>3 DEF OnlyNegotiations
  <2>5. QED
    BY <2>1, <2>2, <2>4
<1>5. ASSUME NEW i
      PROVE  i \in Visible(longer, further)
                <=> i \in Visible(bytes, telnet) \/ (i = n /\ seen)
  <2>1. i \in Visible(longer, further)
           <=> /\ i \in 1 .. n /\ longer[i] \in Text
               /\ i - 1 \notin further /\ i - 2 \notin further
    BY <1>1, <1>4, NegotiationsFact
  <2>2. i \in Visible(bytes, telnet)
           <=> /\ i \in 1 .. n - 1 /\ bytes[i] \in Text
               /\ i - 1 \notin telnet /\ i - 2 \notin telnet
    BY <1>1, <1>4, NegotiationsFact
  <2>3. CASE i \in 1 .. n - 1
    BY <1>1, <1>2, <2>1, <2>2, <2>3
  <2>4. CASE i = n
    <3>1. n - 1 \in further <=> n - 1 \in telnet
      BY <1>1, <1>2
    <3>2. n - 2 \in further <=> n - 2 \in telnet
      BY <1>1, <1>2
    <3>3. n \in 1 .. n /\ n \notin 1 .. n - 1 /\ Len(bytes) - 1 = n - 2
      BY <1>1
    <3>4. QED
      BY <1>1, <2>1, <2>2, <2>4, <3>1, <3>2, <3>3 DEF Seen, seen
  <2>5. CASE i \notin 1 .. n
    BY <1>1, <2>1, <2>2, <2>5
  <2>6. QED
    BY <1>1, <2>3, <2>4, <2>5
<1>6. Visible(longer, further) = Visible(bytes, telnet) \cup (IF seen THEN {n} ELSE {})
  BY <1>5
<1>7. \A i \in Visible(bytes, telnet) : i \in 1 .. n - 1
  BY <1>1 DEF Visible
<1>8. Ends(longer, further)
         = Ends(bytes, telnet) \cup (IF seen /\ b = LineEnd THEN {n} ELSE {})
  BY <1>1, <1>5, <1>7 DEF Ends
<1>9. \A e \in Ends(bytes, telnet) : e \in 1 .. n - 1
  BY <1>7 DEF Ends
<1>10. ASSUME NEW i \in 1 .. n
       PROVE  Before(longer, further, i) = Before(bytes, telnet, i)
  <2>1. \A j : j \in Visible(longer, further) /\ j < i <=> j \in Visible(bytes, telnet) /\ j < i
    BY <1>1, <1>6, <1>7
  <2>2. \A j : (\A e \in Ends(longer, further) : e < j \/ i <= e)
                  <=> (\A e \in Ends(bytes, telnet) : e < j \/ i <= e)
    BY <1>1, <1>8, <1>9
  <2>3. QED
    BY <2>1, <2>2 DEF Before
<1>11. Before(longer, further, n + 1)
          = IF ~seen THEN Before(bytes, telnet, n)
            ELSE IF b = LineEnd THEN {}
            ELSE Before(bytes, telnet, n) \cup {n}
  <2>1. CASE ~seen
    BY <1>1, <1>6, <1>7, <1>8, <1>9, <2>1 DEF Before
  <2>2. CASE seen /\ b = LineEnd
    <3>1. n \in Ends(longer, further) /\ ~(n + 1 <= n)
      BY <1>1, <1>8, <2>2
    <3>2. \A j \in Visible(longer, further) : ~(n < j)
      BY <1>1, <1>6, <1>7
    <3>3. Before(longer, further, n + 1) = {}
      BY <3>1, <3>2, Zenon DEF Before
    <3>4. QED
      BY <2>2, <3>3
  <2>3. CASE seen /\ b # LineEnd
    BY <1>1, <1>6, <1>7, <1>8, <1>9, <2>3 DEF Before
  <2>4. QED
    BY <2>1, <2>2, <2>3
<1>12. QED
  BY <1>1, <1>4, <1>8, <1>10, <1>11 DEF longer, n, seen

\* A byte that ends no command leaves the commands what they are.
LEMMA SameCommands ==
    ASSUME NEW bytes \in Seq(Bytes), NEW b \in Bytes, NEW telnet, NEW further,
           IsLonger(bytes, telnet, b, further),
           CommandEnds(Append(bytes, b), further) = CommandEnds(bytes, telnet),
           NEW commands, AreLines(commands, bytes, telnet)
    PROVE  AreLines(commands, Append(bytes, b), further)
<1> DEFINE longer == Append(bytes, b)
           n == Len(bytes) + 1
<1>1. \A i \in 1 .. n : Before(longer, further, i) = Before(bytes, telnet, i)
  BY LongerFact
<1>2. /\ n \in Nat
      /\ \A i \in 1 .. n - 1 : longer[i] = bytes[i] /\ i \in 1 .. n
  OBVIOUS
<1>3. \A e \in CommandEnds(bytes, telnet) : e \in 1 .. n - 1
  BY DEF CommandEnds, Ends, Visible
<1>4. \A i : \A j \in Before(bytes, telnet, i) : j \in 1 .. n - 1
  BY DEF Before, Visible
<1> HIDE DEF longer, n
<1>5. \A i \in 1 .. n : Column(longer, further, i) = Column(bytes, telnet, i)
  BY <1>1 DEF Column
<1>6. \A e : Number(longer, further, e) = Number(bytes, telnet, e)
  BY DEF Number, longer
<1>7. ASSUME NEW e \in CommandEnds(bytes, telnet), NEW text,
             IsText(text, bytes, telnet, e)
      PROVE  IsText(text, longer, further, e)
  <2>1. e \in 1 .. n
    BY <1>2, <1>3
  <2>2. \A j \in Before(bytes, telnet, e) :
           longer[j] = bytes[j] /\ Column(longer, further, j) = Column(bytes, telnet, j)
    BY <1>2, <1>4, <1>5
  <2>3. QED
    BY <1>1, <1>5, <1>7, <2>1, <2>2 DEF IsText
<1>8. QED
  BY <1>6, <1>7 DEF AreLines, longer, n

\* The line goes on in a longer stream as it was.
LEMMA SameText ==
    ASSUME NEW bytes \in Seq(Bytes), NEW b \in Bytes, NEW telnet, NEW further,
           IsLonger(bytes, telnet, b, further),
           NEW text, IsText(text, bytes, telnet, Len(bytes) + 1)
    PROVE  IsText(text, Append(bytes, b), further, Len(bytes) + 1)
<1> DEFINE longer == Append(bytes, b)
           n == Len(bytes) + 1
<1>1. \A i \in 1 .. n : Before(longer, further, i) = Before(bytes, telnet, i)
  BY LongerFact
<1>2. /\ n \in Nat /\ n \in 1 .. n
      /\ \A i \in 1 .. n - 1 : longer[i] = bytes[i] /\ i \in 1 .. n
  OBVIOUS
<1>3. \A j \in Before(bytes, telnet, n) : j \in 1 .. n - 1
  BY DEF Before, Visible
<1> HIDE DEF longer, n
<1>4. \A i \in 1 .. n : Column(longer, further, i) = Column(bytes, telnet, i)
  BY <1>1 DEF Column
<1>5. \A j \in Before(bytes, telnet, n) :
         longer[j] = bytes[j] /\ Column(longer, further, j) = Column(bytes, telnet, j)
  BY <1>2, <1>3, <1>4
<1>6. QED
  BY <1>1, <1>2, <1>4, <1>5 DEF IsText, longer, n

\* A longer stream whose lines are short was short of them before.
LEMMA ShortFact ==
    ASSUME NEW bytes \in Seq(Bytes), NEW b \in Bytes, NEW telnet, NEW further,
           IsLonger(bytes, telnet, b, further),
           Short(Append(bytes, b), further)
    PROVE  /\ Short(bytes, telnet)
           /\ Column(bytes, telnet, Len(bytes) + 1) < BufSize - 1
<1> DEFINE longer == Append(bytes, b)
           n == Len(bytes) + 1
<1>1. n \in Nat /\ Len(longer) = n /\ n \in 1 .. n
  OBVIOUS
<1>2. \A i \in 1 .. n : Before(longer, further, i) = Before(bytes, telnet, i)
  BY LongerFact
<1>3. \A i \in 1 .. n : Column(longer, further, i) = Column(bytes, telnet, i)
  BY <1>2 DEF Column
<1> HIDE DEF longer, n
<1>4. \A i \in 1 .. n + 1 : Column(longer, further, i) < BufSize - 1
  BY <1>1 DEF Short, longer
<1>5. \A i \in 1 .. n : i \in 1 .. n + 1
  BY <1>1
<1>6. \A i \in 1 .. n : Column(bytes, telnet, i) < BufSize - 1
  BY <1>3, <1>4, <1>5
<1>7. QED
  BY <1>1, <1>6 DEF Short, longer, n

\* Columns grow along a line.
LEMMA ColumnFact ==
    ASSUME NEW bytes \in Seq(Bytes), NEW telnet, NEW i, NEW j \in Before(bytes, telnet, i),
           i \in Int
    PROVE  Column(bytes, telnet, j) + 1 \in 1 .. Column(bytes, telnet, i)
<1>1. \A e \in Ends(bytes, telnet) : e \in Int
  BY DEF Ends, Visible
<1>2. j \in Int /\ j \notin Before(bytes, telnet, j)
  BY DEF Before, Visible
<1>3. \A k \in Before(bytes, telnet, j) : k \in Before(bytes, telnet, i)
  <2> TAKE k \in Before(bytes, telnet, j)
  <2>1. k \in Visible(bytes, telnet) /\ k \in Int /\ k < j /\ j < i
    BY DEF Before, Visible
  <2>2. \A e \in Ends(bytes, telnet) : (e < k \/ j <= e) /\ (e < j \/ i <= e)
    BY DEF Before
  <2>3. k < i /\ \A e \in Ends(bytes, telnet) : e < k \/ i <= e
    BY <1>1, <1>2, <2>1, <2>2
  <2>4. QED
    BY <2>1, <2>3 DEF Before
<1>4. /\ IsFiniteSet(Before(bytes, telnet, i)) /\ IsFiniteSet(Before(bytes, telnet, j))
      /\ Column(bytes, telnet, i) \in Nat /\ Column(bytes, telnet, j) \in Nat
  BY StreamFact
<1>5. Before(bytes, telnet, j) \cup {j} \subseteq Before(bytes, telnet, i)
  BY <1>3
<1>6. Cardinality(Before(bytes, telnet, j) \cup {j}) = Column(bytes, telnet, j) + 1
  BY <1>2, <1>4, FS_AddElement DEF Column
<1>7. Column(bytes, telnet, j) + 1 <= Column(bytes, telnet, i)
  BY <1>4, <1>5, <1>6, FS_Subset DEF Column
<1>8. QED
  BY <1>4, <1>7

\* A line end that ends a command puts it behind the others.
LEMMA MoreCommands ==
    ASSUME NEW bytes \in Seq(Bytes), NEW b \in Bytes, NEW telnet, NEW further,
           IsLonger(bytes, telnet, b, further),
           CommandEnds(Append(bytes, b), further)
              = CommandEnds(bytes, telnet) \cup {Len(bytes) + 1},
           NEW limit, NEW commands \in Seq(Lines(limit)), AreLines(commands, bytes, telnet),
           NEW text \in Seq(Chars), IsText(text, Append(bytes, b), further, Len(bytes) + 1)
    PROVE  AreLines(Append(commands, text), Append(bytes, b), further)
<1> DEFINE longer == Append(bytes, b)
           n == Len(bytes) + 1
           ends == CommandEnds(bytes, telnet)
           more == Append(commands, text)
<1>1. \A i \in 1 .. n : Before(longer, further, i) = Before(bytes, telnet, i)
  BY LongerFact
<1>2. /\ n \in Nat /\ n \in 1 .. n
      /\ \A i \in 1 .. n - 1 : longer[i] = bytes[i] /\ i \in 1 .. n /\ i < n
  OBVIOUS
<1>3. \A e \in ends : e \in 1 .. n - 1
  BY DEF CommandEnds, Ends, Visible
<1>4. \A i : \A j \in Before(bytes, telnet, i) : j \in 1 .. n - 1
  BY DEF Before, Visible
<1>5. CommandEnds(longer, further) = ends \cup {n} /\ n \notin ends
  BY <1>2, <1>3
<1>6. /\ Len(more) = Len(commands) + 1 /\ Len(commands) \in Nat
      /\ more[Len(commands) + 1] = text
      /\ \A i \in 1 .. Len(commands) : more[i] = commands[i]
  OBVIOUS
<1>7. Len(commands) = Cardinality(ends) /\ IsFiniteSet(ends)
  BY StreamFact DEF AreLines
<1> HIDE DEF longer, n, ends, more
<1>8. Cardinality(CommandEnds(longer, further)) = Cardinality(ends) + 1
  BY <1>5, <1>7, FS_AddElement
<1>9. \A i \in 1 .. n : Column(longer, further, i) = Column(bytes, telnet, i)
  BY <1>1 DEF Column
<1>10. Number(longer, further, n) = Len(commands) + 1
  <2>1. {e \in CommandEnds(longer, further) : e <= n} = CommandEnds(longer, further)
    BY <1>2, <1>3, <1>5
  <2>2. QED
    BY <1>7, <1>8, <2>1 DEF Number
<1>11. ASSUME NEW e \in ends
       PROVE  /\ Number(longer, further, e) = Number(bytes, telnet, e)
              /\ Number(longer, further, e) \in 1 .. Len(commands)
  <2>1. {d \in CommandEnds(longer, further) : d <= e} = {d \in ends : d <= e}
    BY <1>2, <1>3, <1>5
  <2>2. Number(longer, further, e) = Number(bytes, telnet, e)
    BY <2>1 DEF Number, ends
  <2>3. Number(bytes, telnet, e) \in Nat
    BY StreamFact
  <2>4. Number(bytes, telnet, e) <= Cardinality(ends) /\ Number(bytes, telnet, e) # 0
    BY StreamFact DEF ends
  <2>5. QED
    BY <1>7, <2>2, <2>3, <2>4
<1>12. ASSUME NEW e \in ends
       PROVE  IsText(more[Number(longer, further, e)], longer, further, e)
  <2>1. IsText(commands[Number(bytes, telnet, e)], bytes, telnet, e)
    BY DEF AreLines, ends
  <2>2. more[Number(longer, further, e)] = commands[Number(bytes, telnet, e)]
    BY <1>6, <1>11
  <2>3. e \in 1 .. n
    BY <1>2, <1>3
  <2>4. \A j \in Before(bytes, telnet, e) :
           longer[j] = bytes[j] /\ Column(longer, further, j) = Column(bytes, telnet, j)
    BY <1>2, <1>4, <1>9
  <2>5. QED
    BY <1>1, <1>9, <2>1, <2>2, <2>3, <2>4 DEF IsText
<1>13. IsText(more[Number(longer, further, n)], longer, further, n)
  BY <1>6, <1>10 DEF longer, n
<1>14. Len(more) = Cardinality(CommandEnds(longer, further))
  BY <1>6, <1>7, <1>8
<1>15. AreLines(more, longer, further)
  BY <1>5, <1>12, <1>13, <1>14 DEF AreLines
<1>16. QED
  BY <1>15 DEF longer, more

\* The byte of the code and the byte of the stream.
LEMMA ByteFact ==
    ASSUME NEW bytes \in Seq(Bytes), NEW b \in Bytes,
           NEW telnet \in SUBSET (1 .. Len(bytes)), ThreeBytes(bytes, telnet),
           NEW s \in State(BufSize - 1),
           Agrees(bytes, telnet, s.line, s.skip, s.commands)
    PROVE  LET t == ScanByte(s, b, BufSize - 1)
           IN  \E further \in SUBSET (1 .. Len(Append(bytes, b))) :
                  /\ ThreeBytes(Append(bytes, b), further)
                  /\ Agrees(Append(bytes, b), further, t.line, t.skip, t.commands)
<1> DEFINE t == ScanByte(s, b, BufSize - 1)
           longer == Append(bytes, b)
           n == Len(bytes) + 1
           further == telnet \cup
                         {i \in {n} : b = IAC /\ n - 1 \notin telnet /\ n - 2 \notin telnet}
<1>1. /\ n \in Nat /\ n >= 1 /\ Len(longer) = n /\ Len(bytes) = n - 1
      /\ Len(bytes) - 1 = n - 2 /\ Len(bytes) + 2 = n + 1 /\ longer[n] = b
      /\ longer \in Seq(Bytes)
  OBVIOUS
<1>2. telnet \in SUBSET (1 .. n - 1) /\ \A i \in telnet : i \in 1 .. n
  <2>1. \A i \in telnet : i \in 1 .. n - 1
    BY <1>1
  <2>2. QED
    BY <1>1, <2>1
<1>3. further \in SUBSET (1 .. n)
  <2>1. n \in 1 .. n
    BY <1>1
  <2>2. QED
    BY <1>2, <2>1
<1>4. \A i : i \in further
               <=> \/ i \in telnet
                   \/ i = n /\ b = IAC /\ n - 1 \notin telnet /\ n - 2 \notin telnet
  OBVIOUS
<1> HIDE DEF t, longer, further
<1>5. ThreeBytes(longer, further) /\ Marks(bytes, telnet, b, further)
  <2>1. Marks(bytes, telnet, b, further)
    BY <1>1, <1>4 DEF Marks
  <2>2. QED
    BY <2>1, MarksFact DEF longer
<1>6. SUFFICES ASSUME OnlyNegotiations(longer, further), Short(longer, further)
               PROVE  /\ t.skip = IF n \in further THEN 2
                                  ELSE IF n - 1 \in further THEN 1 ELSE 0
                      /\ IsText(t.line, longer, further, n + 1)
                      /\ AreLines(t.commands, longer, further)
  BY <1>1, <1>3, <1>5 DEF Agrees, t, longer
<1>7. IsLonger(bytes, telnet, b, further)
  BY <1>5, <1>6 DEF IsLonger, longer
<1>8. /\ OnlyNegotiations(bytes, telnet) /\ Short(bytes, telnet)
      /\ Column(bytes, telnet, n) < BufSize - 1
  BY <1>6, <1>7, ShortFact, LongerFact DEF longer
<1>9. /\ s.skip = IF n - 1 \in telnet THEN 2 ELSE IF n - 2 \in telnet THEN 1 ELSE 0
      /\ IsText(s.line, bytes, telnet, n)
      /\ AreLines(s.commands, bytes, telnet)
  BY <1>1, <1>8 DEF Agrees
<1>10. Len(s.line) < BufSize - 1
  BY <1>8, <1>9 DEF IsText
<1>11. /\ s.skip > 0 => t.line = s.line /\ t.skip = s.skip - 1 /\ t.commands = s.commands
       /\ s.skip = 0 /\ b = IAC => t.line = s.line /\ t.skip = 2 /\ t.commands = s.commands
       /\ s.skip = 0 /\ b = LineEnd =>
             /\ t.line = <<>> /\ t.skip = 0
             /\ t.commands = IF s.line = <<>> THEN s.commands
                             ELSE Append(s.commands, s.line)
       /\ s.skip = 0 /\ b \in Chars =>
             t.line = Append(s.line, b) /\ t.skip = 0 /\ t.commands = s.commands
       /\ s.skip = 0 /\ b \notin Text \cup {IAC} =>
             t.line = s.line /\ t.skip = 0 /\ t.commands = s.commands
  <2>1. BufSize - 1 \in Nat
    BY ConsoleAssumption
  <2>2. QED
    BY <1>10, <2>1, ScanByteFact DEF t
<1> DEFINE seen == Seen(bytes, telnet, b)
<1>12. /\ seen <=> s.skip = 0 /\ b \in Text
       /\ b \in Text => b # IAC
       /\ s.skip = 0 <=> n - 1 \notin telnet /\ n - 2 \notin telnet
  BY <1>1, <1>9, ConsoleAssumption DEF Seen
<1>13. /\ \A i : i \in Ends(longer, further)
                    <=> i \in Ends(bytes, telnet) \/ (i = n /\ seen /\ b = LineEnd)
       /\ \A i \in 1 .. n : Before(longer, further, i) = Before(bytes, telnet, i)
       /\ ~seen => Before(longer, further, n + 1) = Before(bytes, telnet, n)
       /\ seen /\ b = LineEnd => Before(longer, further, n + 1) = {}
       /\ seen /\ b # LineEnd =>
             Before(longer, further, n + 1) = Before(bytes, telnet, n) \cup {n}
  BY <1>1, <1>7, LongerFact DEF longer
<1>14. IsText(s.line, longer, further, n)
  BY <1>7, <1>9, SameText DEF longer
<1>15. \A e \in Ends(bytes, telnet) : e \in 1 .. n - 1 /\ e \in 1 .. n
  BY <1>1 DEF Ends, Visible
<1>16. \A i : i \in CommandEnds(longer, further)
                 <=> \/ i \in CommandEnds(bytes, telnet)
                     \/ i = n /\ seen /\ b = LineEnd /\ Before(bytes, telnet, n) # {}
  BY <1>1, <1>13, <1>15 DEF CommandEnds
<1> HIDE DEF seen, n
<1>17. CASE ~seen
  <2>1. t.line = s.line /\ t.commands = s.commands
    BY <1>9, <1>11, <1>12, <1>17
  <2>2. t.skip = IF n \in further THEN 2 ELSE IF n - 1 \in further THEN 1 ELSE 0
    BY <1>1, <1>2, <1>4, <1>7, <1>9, <1>11, <1>12, <1>17
  <2>3. IsText(s.line, longer, further, n + 1)
    BY <1>1, <1>13, <1>14, <1>17 DEF IsText, Column
  <2>4. AreLines(s.commands, longer, further)
    <3>1. CommandEnds(longer, further) = CommandEnds(bytes, telnet)
      BY <1>16, <1>17
    <3>2. QED
      BY <1>7, <1>9, <3>1, SameCommands DEF longer
  <2>5. QED
    BY <2>1, <2>2, <2>3, <2>4
<1>18. CASE seen /\ b = LineEnd
  <2>0. /\ s.line = <<>> => t.commands = s.commands
        /\ s.line # <<>> => t.commands = Append(s.commands, s.line)
    <3>1. s.skip = 0 /\ b = LineEnd
      BY <1>12, <1>18
    <3>2. t.commands = IF s.line = <<>> THEN s.commands ELSE Append(s.commands, s.line)
      BY <1>11, <3>1, Zenon
    <3>3. QED
      BY <3>2, Zenon
  <2>1. t.line = <<>> /\ t.skip = 0
    BY <1>11, <1>12, <1>18
  <2>2. n \notin further /\ n - 1 \notin further
    BY <1>1, <1>2, <1>4, <1>12, <1>18
  <2>3. IsText(<<>>, longer, further, n + 1)
    <3>1. Before(longer, further, n + 1) = {} /\ Len(<<>>) = 0
      BY <1>13, <1>18
    <3>2. Column(longer, further, n + 1) = 0
      BY <3>1, FS_EmptySet DEF Column
    <3>3. QED
      BY <3>1, <3>2 DEF IsText
  <2>4. s.line = <<>> <=> Before(bytes, telnet, n) = {}
    <3>1. Len(s.line) = Column(bytes, telnet, n) /\ s.line \in Seq(Chars)
      BY <1>9 DEF IsText, State
    <3>2. Column(bytes, telnet, n) = 0 <=> Before(bytes, telnet, n) = {}
      BY StreamFact
    <3>3. s.line = <<>> <=> Len(s.line) = 0
      BY <3>1
    <3>4. QED
      BY <3>1, <3>2, <3>3
  <2>5. CASE s.line = <<>>
    <3>1. CommandEnds(longer, further) = CommandEnds(bytes, telnet)
      BY <1>16, <2>4, <2>5
    <3>2. AreLines(s.commands, longer, further)
      BY <1>7, <1>9, <3>1, SameCommands DEF longer
    <3>3. t.commands = s.commands
      BY <2>0, <2>5
    <3>4. QED
      BY <2>1, <2>2, <2>3, <3>2, <3>3
  <2>6. CASE s.line # <<>>
    <3>1. CommandEnds(longer, further) = CommandEnds(bytes, telnet) \cup {n}
      BY <1>16, <1>18, <2>4, <2>6
    <3>2. t.commands = Append(s.commands, s.line)
      BY <2>0, <2>6
    <3>3. AreLines(t.commands, longer, further)
      <4>1. s.commands \in Seq(Lines(BufSize - 1)) /\ s.line \in Seq(Chars)
        BY <1>9 DEF State
      <4>2. AreLines(Append(s.commands, s.line), longer, further)
        BY <1>7, <1>9, <1>14, <3>1, <4>1, MoreCommands DEF longer, n
      <4>3. QED
        BY <3>2, <4>2
    <3>4. QED
      BY <2>1, <2>2, <2>3, <3>3
  <2>7. QED
    BY <2>5, <2>6
<1>19. CASE seen /\ b # LineEnd
  <2>1. t.line = Append(s.line, b) /\ t.skip = 0 /\ t.commands = s.commands
    BY <1>11, <1>12, <1>19 DEF Text
  <2>2. n \notin further /\ n - 1 \notin further
    BY <1>1, <1>2, <1>4, <1>12, <1>19
  <2>3. AreLines(s.commands, longer, further)
    <3>1. CommandEnds(longer, further) = CommandEnds(bytes, telnet)
      BY <1>16, <1>19
    <3>2. QED
      BY <1>7, <1>9, <3>1, SameCommands DEF longer
  <2>4. IsText(t.line, longer, further, n + 1)
    <3> DEFINE before == Before(bytes, telnet, n)
    <3>1. Before(longer, further, n + 1) = before \cup {n}
      BY <1>13, <1>19
    <3>2. n \notin before /\ IsFiniteSet(before)
      <4>1. n \notin before
        BY <1>1 DEF Before
      <4>2. QED
        BY <4>1, StreamFact
    <3>3. Before(longer, further, n) = before
      BY <1>1, <1>13
    <3>4. Column(longer, further, n + 1) = Column(longer, further, n) + 1
      BY <3>1, <3>2, <3>3, FS_AddElement DEF Column
    <3>5. s.line \in Seq(Chars) /\ Len(s.line) = Column(longer, further, n)
      BY <1>14 DEF IsText, State
    <3>6. /\ Len(t.line) = Column(longer, further, n + 1)
          /\ t.line[Column(longer, further, n) + 1] = b
          /\ \A i \in 1 .. Len(s.line) : t.line[i] = s.line[i]
      BY <2>1, <3>4, <3>5
    <3>7. \A j \in before : /\ Column(longer, further, j) + 1 \in 1 .. Len(s.line)
                            /\ s.line[Column(longer, further, j) + 1] = longer[j]
      <4>1. ASSUME NEW j \in before
            PROVE  Column(longer, further, j) + 1 \in 1 .. Len(s.line)
        BY <1>1, <3>3, <3>5, ColumnFact
      <4>2. QED
        BY <1>14, <3>3, <4>1 DEF IsText
    <3>8. \A j \in before \cup {n} : t.line[Column(longer, further, j) + 1] = longer[j]
      BY <1>1, <3>6, <3>7
    <3>9. QED
      BY <3>1, <3>6, <3>8 DEF IsText
  <2>5. QED
    BY <2>1, <2>2, <2>3, <2>4
<1>20. QED
  BY <1>17, <1>18, <1>19

-----------------------------------------------------------------------------
(* A chunk: induction over an interval, and what FoldLeft's definition chooses. *)

LEMMA Climb ==
    ASSUME NEW n \in Nat, NEW S, 0 \in S,
           \A k \in 0 .. n - 1 : k \in S => k + 1 \in S
    PROVE  0 .. n \subseteq S
<1> DEFINE Missing == {k \in 0 .. n : k \notin S}
<1> SUFFICES ASSUME Missing # {} PROVE FALSE
  OBVIOUS
<1>1. Missing \in SUBSET Nat
  OBVIOUS
<1>2. PICK k \in Missing : \A j \in Missing : ~(<<j, k>> \in OpToRel(<, Nat))
  BY <1>1, NatLessThanWellFounded, WFMin
<1>3. k # 0 /\ k - 1 \in 0 .. n - 1 /\ k - 1 < k
  OBVIOUS
<1>4. k - 1 \notin Missing
  BY <1>1, <1>2, <1>3 DEF OpToRel
<1>5. k - 1 \in S
  BY <1>3, <1>4
<1>6. k \in S
  BY <1>3, <1>5
<1>7. QED
  BY <1>6

LEMMA MaxOfInterval ==
    ASSUME NEW k \in Nat \ {0}, NEW T \in SUBSET (1 .. k), k \in T
    PROVE  Max(T) = k
<1>1. \A y \in T : k >= y
  OBVIOUS
<1>2. \A x \in T : (\A y \in T : x >= y) => x = k
  OBVIOUS
<1>3. QED
  BY <1>1, <1>2 DEF Max

IsFold(fold, limit, start, chunk, k) ==
    fold = [T \in SUBSET (1 .. k) |->
               IF T = {} THEN start
               ELSE ScanByte(fold[T \ {Max(T)}], chunk[Max(T)], limit)]

LEMMA FoldExists ==
    ASSUME NEW limit, NEW start, NEW chunk, NEW n \in Nat
    PROVE  \E fold : IsFold(fold, limit, start, chunk, n)
<1> DEFINE S == {k \in 0 .. n : \E fold : IsFold(fold, limit, start, chunk, k)}
<1>1. 0 \in S
  <2>1. IsFold([T \in SUBSET (1 .. 0) |-> start], limit, start, chunk, 0)
    BY DEF IsFold
  <2>2. QED
    BY <2>1
<1>2. ASSUME NEW k \in 0 .. n - 1, k \in S PROVE k + 1 \in S
  <2>1. PICK fold : IsFold(fold, limit, start, chunk, k)
    BY <1>2
  <2> DEFINE longer ==
        [T \in SUBSET (1 .. k + 1) |->
            IF k + 1 \in T THEN ScanByte(fold[T \ {k + 1}], chunk[k + 1], limit)
            ELSE fold[T]]
  <2>2. ASSUME NEW T \in SUBSET (1 .. k + 1)
        PROVE  longer[T] = IF T = {} THEN start
                           ELSE ScanByte(longer[T \ {Max(T)}], chunk[Max(T)], limit)
    <3>1. CASE k + 1 \in T
      <4>1. Max(T) = k + 1
        BY <3>1, MaxOfInterval
      <4>2. T \ {k + 1} \in SUBSET (1 .. k + 1) /\ k + 1 \notin T \ {k + 1}
        OBVIOUS
      <4>3. longer[T \ {k + 1}] = fold[T \ {k + 1}]
        BY <4>2
      <4>4. QED
        BY <3>1, <4>1, <4>3
    <3>2. CASE k + 1 \notin T
      <4>1. T \in SUBSET (1 .. k)
        BY <3>2
      <4>2. \A R \in SUBSET T : longer[R] = fold[R]
        BY <3>2
      <4>3. fold[T] = IF T = {} THEN start
                      ELSE ScanByte(fold[T \ {Max(T)}], chunk[Max(T)], limit)
        BY <2>1, <4>1 DEF IsFold
      <4>4. longer[T] = fold[T] /\ longer[T \ {Max(T)}] = fold[T \ {Max(T)}]
        BY <4>2
      <4>5. QED
        BY <4>3, <4>4
    <3>3. QED
      BY <3>1, <3>2
  <2> HIDE DEF longer
  <2>3. longer = [T \in SUBSET (1 .. k + 1) |-> longer[T]]
    BY DEF longer
  <2>4. IsFold(longer, limit, start, chunk, k + 1)
    BY <2>2, <2>3 DEF IsFold
  <2>5. QED
    BY <2>4
<1> HIDE DEF S
<1>3. 0 .. n \subseteq S
  BY <1>1, <1>2, Climb
<1>4. QED
  BY <1>3 DEF S

\* What a scan begins with.
Start == [line |-> line, skip |-> skipIAC, lines |-> <<>>, commands |-> executed]

\* The states of a scan, from the first byte of the chunk to the last.
LEMMA ScanSteps ==
    ASSUME NEW limit, Chunk \in Seq(Bytes)
    PROVE  \E states :
              /\ states[0] = Start
              /\ \A k \in 1 .. Len(Chunk) :
                    states[k] = ScanByte(states[k - 1], Chunk[k], limit)
              /\ Scanned(limit) = states[Len(Chunk)]
<1> DEFINE n == Len(Chunk)
           chunk == Chunk
           fold == CHOOSE f : IsFold(f, limit, Start, chunk, n)
           states == [k \in 0 .. n |-> fold[1 .. k]]
<1>1. n \in Nat /\ DOMAIN chunk = 1 .. n
  OBVIOUS
<1> HIDE DEF chunk, n
<1>2. IsFold(fold, limit, Start, chunk, n)
  BY <1>1, FoldExists
<1>3. Scanned(limit) = fold[1 .. n]
  BY <1>1 DEF Scanned, FoldLeft, MapThenFoldSet, IsFold, Start, chunk
<1> HIDE DEF fold
<1>4. fold[1 .. 0] = Start
  BY <1>1, <1>2 DEF IsFold
<1>5. ASSUME NEW k \in 1 .. n
      PROVE  fold[1 .. k] = ScanByte(fold[1 .. k - 1], chunk[k], limit)
  <2>1. Max(1 .. k) = k
    BY <1>1, MaxOfInterval
  <2>2. (1 .. k) \ {k} = 1 .. k - 1
    BY <1>1
  <2>3. (\A i \in 1 .. k : i \in 1 .. n) /\ k \in 1 .. k
    BY <1>1
  <2>4. fold[1 .. k] = ScanByte(fold[(1 .. k) \ {Max(1 .. k)}], chunk[Max(1 .. k)], limit)
    BY <1>2, <2>3, 1 .. k \in SUBSET (1 .. n), 1 .. k # {} DEF IsFold
  <2>5. QED
    BY <2>1, <2>2, <2>4
<1>6. states[0] = Start /\ states[n] = fold[1 .. n]
  BY <1>1, <1>4
<1>7. \A k \in 1 .. n : states[k] = ScanByte(states[k - 1], chunk[k], limit)
  BY <1>1, <1>5
<1>8. QED
  BY <1>3, <1>6, <1>7 DEF chunk, n

LEMMA ScanTyped ==
    ASSUME NEW limit \in Nat, Start \in State(limit), Chunk \in Seq(Bytes)
    PROVE  Scanned(limit) \in State(limit)
<1>1. PICK states :
         /\ states[0] = Start
         /\ \A k \in 1 .. Len(Chunk) :
               states[k] = ScanByte(states[k - 1], Chunk[k], limit)
         /\ Scanned(limit) = states[Len(Chunk)]
  BY ScanSteps
<1> DEFINE n == Len(Chunk)
           S == {k \in 0 .. n : states[k] \in State(limit)}
<1>2. n \in Nat
  OBVIOUS
<1>3. 0 \in S
  BY <1>1, <1>2
<1>4. ASSUME NEW k \in 0 .. n - 1, k \in S PROVE k + 1 \in S
  <2>1. k + 1 \in 1 .. n /\ k + 1 \in 0 .. n /\ Chunk[k + 1] \in Bytes /\ k + 1 - 1 = k
    BY <1>2
  <2>2. states[k + 1] = ScanByte(states[k], Chunk[k + 1], limit)
    BY <1>1, <2>1
  <2>3. states[k + 1] \in State(limit)
    BY <1>4, <2>1, <2>2, ScanByteFact
  <2>4. QED
    BY <2>1, <2>3
<1> HIDE DEF S
<1>5. n \in S
  <2>1. 0 .. n \subseteq S
    BY <1>2, <1>3, <1>4, Climb
  <2>2. n \in 0 .. n
    BY <1>2
  <2>3. QED
    BY <2>1, <2>2
<1>6. QED
  BY <1>1, <1>5 DEF S

\* A scan of the session is at the end of bytes.
At(s, bytes) ==
    \E telnet \in SUBSET (1 .. Len(bytes)) :
        /\ ThreeBytes(bytes, telnet)
        /\ Agrees(bytes, telnet, s.line, s.skip, s.commands)

LEMMA SessionScan ==
    ASSUME Start \in State(BufSize - 1), Chunk \in Seq(Bytes), stream \in Seq(Bytes),
           At(Start, stream)
    PROVE  At(Scanned(BufSize - 1), stream \o Chunk)
<1> DEFINE limit == BufSize - 1
           n == Len(Chunk)
           Prefix(k) == stream \o SubSeq(Chunk, 1, k)
<1>1. PICK states :
         /\ states[0] = Start
         /\ \A k \in 1 .. Len(Chunk) :
               states[k] = ScanByte(states[k - 1], Chunk[k], limit)
         /\ Scanned(limit) = states[Len(Chunk)]
  BY ScanSteps
<1> DEFINE S == {k \in 0 .. n : states[k] \in State(limit) /\ At(states[k], Prefix(k))}
<1>2. n \in Nat /\ limit \in Nat
  BY ConsoleAssumption
<1>3. 0 \in S
  <2>1. Prefix(0) = stream /\ 0 \in 0 .. n
    BY <1>2
  <2> HIDE DEF Prefix
  <2>2. QED
    BY <1>1, <2>1
<1>4. ASSUME NEW k \in 0 .. n - 1, k \in S PROVE k + 1 \in S
  <2>1. k + 1 \in 1 .. n /\ k + 1 \in 0 .. n /\ Chunk[k + 1] \in Bytes /\ k + 1 - 1 = k
    BY <1>2
  <2>2. states[k + 1] = ScanByte(states[k], Chunk[k + 1], limit)
    BY <1>1, <2>1
  <2>3. states[k + 1] \in State(limit)
    BY <1>2, <1>4, <2>1, <2>2, ScanByteFact
  <2>4. /\ Prefix(k) \in Seq(Bytes)
        /\ Prefix(k + 1) = Append(Prefix(k), Chunk[k + 1])
    <3>1. /\ SubSeq(Chunk, 1, k) \in Seq(Bytes)
          /\ SubSeq(Chunk, 1, k + 1) = Append(SubSeq(Chunk, 1, k), Chunk[k + 1])
      BY <1>2
    <3>2. QED
      BY <2>1, <3>1
  <2> HIDE DEF Prefix
  <2>5. At(states[k + 1], Append(Prefix(k), Chunk[k + 1]))
    <3>1. PICK telnet \in SUBSET (1 .. Len(Prefix(k))) :
             /\ ThreeBytes(Prefix(k), telnet)
             /\ Agrees(Prefix(k), telnet, states[k].line, states[k].skip,
                       states[k].commands)
      BY <1>4 DEF At
    <3>2. QED
      BY <1>4, <2>1, <2>2, <2>4, <3>1, ByteFact DEF At
  <2>6. QED
    BY <2>1, <2>3, <2>4, <2>5
<1> HIDE DEF S
<1>5. n \in S
  <2>1. 0 .. n \subseteq S
    BY <1>2, <1>3, <1>4, Climb
  <2>2. n \in 0 .. n
    BY <1>2
  <2>3. QED
    BY <2>1, <2>2
<1>6. Prefix(n) = stream \o Chunk
  OBVIOUS
<1>7. QED
  BY <1>1, <1>5, <1>6 DEF S

-----------------------------------------------------------------------------
(* The inductive invariant of the reading side.                                *)

\* Between connections nothing is left of one, and outside a session nothing of one.
Clean ==
    /\ pc \in {"top", "listening"} =>
          open = FALSE /\ line = <<>> /\ arrived = <<>> /\ skipIAC = 0
    /\ pc # "session" => stream = <<>> /\ executed = <<>>

CInv == TypeOK /\ Clean /\ (pc = "session" => At(Start, stream))

LEMMA SizesFact ==
    /\ MaxFailures \in Nat /\ MaxAge \in Nat
    /\ 0 < PassSize - 1 /\ 0 < BufSize - 1
    /\ PassSize - 1 \in Nat /\ BufSize - 1 \in Nat
    /\ AuthTimeout \in Nat /\ MaxBytes \in Nat
<1>1. FailureSteps[Len(FailureSteps)] \in Nat
  <2>1. FailureSteps \in Seq(Nat) /\ Len(FailureSteps) \in 1 .. Len(FailureSteps)
    BY ConsoleAssumption
  <2>2. QED
    BY <2>1, ElementOfSeq
<1>2. Len(Password) \in Nat
  BY ConsoleAssumption
<1>3. QED
  BY <1>1, <1>2, TimesFact, ConsoleAssumption DEF MaxFailures

\* A session begins at the beginning of its bytes.
LEMMA AtBeginning ==
    ASSUME NEW s, s.line = <<>>, s.skip = 0, s.commands = <<>>
    PROVE  At(s, <<>>)
<1>1. Visible(<<>>, {}) = {} /\ CommandEnds(<<>>, {}) = {} /\ Before(<<>>, {}, 1) = {}
  BY DEF Visible, Ends, CommandEnds, Before
<1>2. Column(<<>>, {}, 1) = 0 /\ Cardinality(CommandEnds(<<>>, {})) = 0
  BY <1>1, FS_EmptySet DEF Column
<1>3. IsText(<<>>, <<>>, {}, 1)
  BY <1>1, <1>2 DEF IsText
<1>4. AreLines(<<>>, <<>>, {})
  BY <1>1, <1>2 DEF AreLines
<1>5. ThreeBytes(<<>>, {})
  BY DEF ThreeBytes
<1>6. Agrees(<<>>, {}, s.line, s.skip, s.commands)
  BY <1>3, <1>4 DEF Agrees
<1>7. QED
  BY <1>5, <1>6 DEF At

\* What a scan works on is well typed, wherever one is made.
LEMMA StartFact ==
    ASSUME CInv
    PROVE  /\ pc = "session" => Start \in State(BufSize - 1)
           /\ pc = "auth" => Start \in State(PassSize - 1)
           /\ Chunk \in Seq(Bytes) /\ Unread \in Seq(Bytes)
           /\ Len(Unread) <= MaxBytes
<1>1. /\ line \in Seq(Chars) /\ skipIAC \in 0 .. 2
      /\ executed \in Seq(Seq(Chars)) /\ arrived \in Seq(Bytes)
      /\ Len(arrived) <= MaxBytes
  BY DEF CInv, TypeOK
<1>2. ASSUME pc = "session" PROVE Start \in State(BufSize - 1)
  <2>1. Len(line) < BufSize - 1
    BY <1>2 DEF CInv, TypeOK
  <2>2. \A i \in 1 .. Len(executed) : executed[i] \in Lines(BufSize - 1)
    BY <1>1 DEF CInv, TypeOK, Lines
  <2>3. executed \in Seq(Lines(BufSize - 1))
    <3> DEFINE n == Len(executed)
               L == Lines(BufSize - 1)
    <3>1. n \in Nat /\ executed \in [1 .. n -> Seq(Chars)]
      BY <1>1, LenProperties
    <3>2. \A i \in 1 .. n : executed[i] \in L
      BY <2>2
    <3>3. executed = [i \in 1 .. n |-> executed[i]]
      BY <3>1
    <3> HIDE DEF n, L
    <3>4. executed \in [1 .. n -> L]
      BY <3>2, <3>3
    <3>5. executed \in Seq(L)
      BY <3>1, <3>4
    <3>6. QED
      BY <3>5 DEF L
  <2>4. QED
    BY <1>1, <2>1, <2>3, SizesFact DEF Start, State
<1>3. ASSUME pc = "auth" PROVE Start \in State(PassSize - 1)
  <2>1. Len(line) < PassSize - 1 /\ executed = <<>>
    BY <1>3 DEF CInv, TypeOK, Clean
  <2>2. QED
    BY <1>1, <2>1, SizesFact DEF Start, State
<1>4. /\ ChunkLen \in 0 .. Len(arrived)
      /\ Chunk \in Seq(Bytes) /\ Unread \in Seq(Bytes)
      /\ Len(Unread) <= Len(arrived)
  <2>1. ChunkLen \in 0 .. Len(arrived)
    BY <1>1, ConsoleAssumption DEF ChunkLen
  <2>2. Chunk \in Seq(Bytes)
    BY <1>1, <2>1 DEF Chunk
  <2>3. Unread \in Seq(Bytes) /\ Len(Unread) <= Len(arrived)
    BY <1>1, <2>1 DEF Unread
  <2>4. QED
    BY <2>1, <2>2, <2>3
<1>5. QED
  BY <1>1, <1>2, <1>3, <1>4, SizesFact

\* Nothing is left of a connection.
Nothing ==
    /\ pc = "top" /\ open = FALSE /\ arrived = <<>> /\ line = <<>> /\ skipIAC = 0
    /\ authTime = 0 /\ stream = <<>> /\ executed = <<>>
    /\ authFailures \in 0 .. MaxFailures /\ rejected \in 0 .. MaxFailures
    /\ sinceFailure \in 0 .. MaxAge /\ sinceRejected \in 0 .. MaxAge

LEMMA NothingFact == Nothing => CInv
<1> SUFFICES ASSUME Nothing PROVE CInv
  OBVIOUS
<1> USE DEF Nothing
<1>1. /\ arrived \in Seq(Bytes) /\ Len(arrived) <= MaxBytes
      /\ line \in Seq(Chars) /\ Len(line) < BufSize - 1
      /\ stream \in Seq(Bytes) /\ executed \in Seq(Seq(Chars))
      /\ \A i \in 1 .. Len(executed) : Len(executed[i]) < BufSize - 1
      /\ skipIAC \in 0 .. 2 /\ authTime \in 0 .. AuthTimeout
  BY SizesFact
<1>2. pc \in {"top", "listening", "auth", "session"} /\ pc # "auth" /\ open \in BOOLEAN
  BY Zenon
<1>3. TypeOK
  BY <1>1, <1>2 DEF TypeOK
<1>4. Clean
  BY DEF Clean
<1>5. QED
  BY <1>3, <1>4 DEF CInv

LEMMA InitCInv == Init => CInv
<1>1. Init => Nothing
  BY SizesFact DEF Init, Nothing
<1>2. QED
  BY <1>1, NothingFact

\* The end of a connection.
LEMMA TopFact ==
    ASSUME CInv, BackToTop,
           authFailures' \in 0 .. MaxFailures, rejected' \in 0 .. MaxFailures,
           sinceFailure' \in 0 .. MaxAge, sinceRejected' \in 0 .. MaxAge
    PROVE  CInv'
<1>1. Nothing'
  BY DEF BackToTop, Nothing
<1>2. (Nothing => CInv)'
  BY NothingFact, PTL
<1>3. QED
  BY <1>1, <1>2

\* The server and the prompt.
LEMMA EndsFact ==
    ASSUME CInv, \/ NoClient \/ Listen \/ Prompt \/ AuthClosed \/ AuthTimesOut \/ AuthFails
                 \/ SessionEnds
    PROVE  CInv'
<1> USE DEF lockout, connection
<1>1. CASE NoClient \/ Listen
  BY <1>1 DEF NoClient, Listen, CInv, TypeOK, Clean
<1>2. CASE Prompt
  <2>1. line = <<>> /\ pc' = "auth" /\ open' = TRUE
    BY <1>2 DEF Prompt, CInv, Clean
  <2>2. TypeOK'
    BY <1>2, <2>1, SizesFact DEF Prompt, CInv, TypeOK
  <2>3. QED
    BY <1>2, <2>2 DEF Prompt, CInv, Clean
<1>3. CASE AuthClosed \/ SessionEnds
  BY <1>3, TopFact DEF AuthClosed, SessionEnds, CInv, TypeOK
<1>4. CASE AuthTimesOut \/ AuthFails
  <2>1. /\ BackToTop /\ sinceFailure' = 0 /\ sinceRejected' = 0
        /\ authFailures' = Saturated(authFailures) /\ rejected' = Saturated(rejected)
    BY <1>4 DEF AuthTimesOut, AuthFails, Reject, recordFailure
  <2>2. \A n \in 0 .. MaxFailures : Saturated(n) \in 0 .. MaxFailures
    BY SizesFact DEF Saturated
  <2>3. QED
    BY <2>1, <2>2, SizesFact, TopFact DEF CInv, TypeOK
<1>5. QED
  BY <1>1, <1>2, <1>3, <1>4

\* A chunk is read.
LEMMA ReadFact ==
    ASSUME CInv, AuthRead \/ AuthSucceeds \/ SessionRead
    PROVE  CInv'
<1> USE DEF lockout
<1>1. CASE AuthRead
  <2> DEFINE s == Scanned(PassSize - 1)
  <2>1. s \in State(PassSize - 1)
    BY <1>1, StartFact, SizesFact, ScanTyped DEF AuthRead
  <2>2. /\ pc = "auth" /\ line' = s.line /\ skipIAC' = s.skip /\ arrived' = Unread
        /\ Len(s.line) < PassSize - 1
        /\ UNCHANGED <<pc, open, authTime, stream, executed, authFailures, sinceFailure,
                       rejected, sinceRejected>>
    BY <1>1 DEF AuthRead
  <2> HIDE DEF s
  <2>3. s.line \in Seq(Chars) /\ s.skip \in 0 .. 2
    BY <2>1 DEF State
  <2>4. TypeOK'
    BY <2>2, <2>3, StartFact DEF CInv, TypeOK
  <2>5. QED
    BY <2>2, <2>4 DEF CInv, Clean
<1>2. CASE AuthSucceeds
  <2>1. /\ pc = "auth" /\ pc' = "session" /\ authFailures' = 0 /\ rejected' = 0
        /\ line' = <<>> /\ skipIAC' = 0 /\ authTime' = 0 /\ arrived' = Unread
        /\ UNCHANGED <<open, stream, executed, sinceFailure, sinceRejected>>
    BY <1>2 DEF AuthSucceeds
  <2>2. stream' = <<>> /\ executed' = <<>>
    BY <2>1 DEF CInv, Clean
  <2>3. At(Start, stream)'
    BY <2>1, <2>2, AtBeginning DEF Start
  <2>4. TypeOK'
    BY <2>1, <2>2, StartFact, SizesFact DEF CInv, TypeOK
  <2>5. QED
    BY <2>1, <2>3, <2>4 DEF CInv, Clean
<1>3. CASE SessionRead
  <2> DEFINE s == Scanned(BufSize - 1)
  <2>1. pc = "session" /\ Start \in State(BufSize - 1)
    BY <1>3, StartFact DEF SessionRead
  <2>2. s \in State(BufSize - 1)
    BY <2>1, StartFact, SizesFact, ScanTyped
  <2>3. At(s, stream \o Chunk)
    BY <2>1, StartFact, SessionScan DEF CInv, TypeOK
  <2>4. /\ executed' = s.commands /\ skipIAC' = s.skip /\ arrived' = Unread
        /\ stream' = stream \o Chunk
        /\ line' = IF Len(s.line) >= BufSize - 1 THEN <<>> ELSE s.line
        /\ UNCHANGED <<pc, open, authTime, authFailures, sinceFailure, rejected,
                       sinceRejected>>
    BY <1>3 DEF SessionRead
  <2> HIDE DEF s
  <2>5. /\ s.line \in Seq(Chars) /\ Len(s.line) \in Nat
        /\ s.skip \in 0 .. 2 /\ s.commands \in Seq(Lines(BufSize - 1))
    BY <2>2 DEF State
  <2>6. /\ executed' \in Seq(Seq(Chars))
        /\ \A i \in 1 .. Len(executed') : Len(executed'[i]) < BufSize - 1
    BY <2>4, <2>5 DEF Lines
  <2>7. line' \in Seq(Chars) /\ Len(line') < BufSize - 1
    BY <2>4, <2>5, SizesFact
  <2>8. stream' \in Seq(Bytes)
    BY <2>4, StartFact DEF CInv, TypeOK
  <2>9. TypeOK'
    BY <2>1, <2>4, <2>5, <2>6, <2>7, <2>8, StartFact DEF CInv, TypeOK
  <2>10. At(Start, stream)'
    <3>1. PICK telnet \in SUBSET (1 .. Len(stream')) :
             /\ ThreeBytes(stream', telnet)
             /\ Agrees(stream', telnet, s.line, s.skip, s.commands)
      BY <2>3, <2>4 DEF At
    <3>2. ASSUME OnlyNegotiations(stream', telnet), Short(stream', telnet)
          PROVE  line' = s.line
      <4>1. Len(s.line) = Column(stream', telnet, Len(stream') + 1)
        BY <3>1, <3>2 DEF Agrees, IsText
      <4>2. Len(stream') + 1 \in 1 .. Len(stream') + 1
        BY <2>8
      <4>3. Len(s.line) < BufSize - 1
        BY <3>2, <4>1, <4>2 DEF Short
      <4>4. QED
        BY <2>4, <2>5, <4>3, SizesFact
    <3>3. Agrees(stream', telnet, line', skipIAC', executed')
      BY <2>4, <3>1, <3>2 DEF Agrees
    <3>4. QED
      BY <3>1, <3>3 DEF At, Start
  <2>11. QED
    BY <2>1, <2>4, <2>9, <2>10 DEF CInv, Clean
<1>4. QED
  BY <1>1, <1>2, <1>3

\* The client and the time.
LEMMA OutsideFact ==
    ASSUME CInv, (\E b \in ClientBytes : Send(b)) \/ Leave \/ Tick \/ UNCHANGED vars
    PROVE  CInv'
<1> USE DEF lockout
<1>1. CASE \E b \in ClientBytes : Send(b)
  <2>1. PICK b \in ClientBytes : Send(b)
    BY <1>1
  <2>2. /\ arrived' = Append(arrived, b) /\ open
        /\ Len(arrived) + Len(IF pc = "session" THEN stream ELSE line) < MaxBytes
        /\ UNCHANGED <<pc, open, line, skipIAC, authTime, stream, executed, lockout>>
    BY <2>1 DEF Send
  <2>3. arrived \in Seq(Bytes) /\ line \in Seq(Chars) /\ stream \in Seq(Bytes)
    BY DEF CInv, TypeOK
  <2>4. arrived' \in Seq(Bytes) /\ Len(arrived') <= MaxBytes
    <3>1. Len(IF pc = "session" THEN stream ELSE line) \in Nat
      BY <2>3
    <3>2. b \in Bytes
      BY ConsoleAssumption
    <3>3. QED
      BY <2>2, <2>3, <3>1, <3>2, SizesFact
  <2>5. TypeOK'
    BY <2>2, <2>4 DEF CInv, TypeOK
  <2>6. Clean'
    BY <2>2 DEF CInv, Clean
  <2>7. QED
    BY <2>2, <2>5, <2>6 DEF CInv, At, Start
<1>2. CASE Leave
  <2>1. open' = FALSE /\ UNCHANGED <<pc, arrived, line, skipIAC, authTime, stream,
                                     executed, lockout>>
    BY <1>2 DEF Leave
  <2>2. QED
    BY <2>1 DEF CInv, TypeOK, Clean, At, Start
<1>3. CASE Tick
  <2>1. /\ pc = "auth" => authTime < AuthTimeout
        /\ authTime' = IF pc = "auth" THEN authTime + 1 ELSE authTime
        /\ sinceFailure' = Later(sinceFailure) /\ sinceRejected' = Later(sinceRejected)
        /\ UNCHANGED <<pc, open, arrived, line, skipIAC, stream, executed, authFailures,
                       rejected>>
    BY <1>3 DEF Tick
  <2>2. \A n \in 0 .. MaxAge : Later(n) \in 0 .. MaxAge
    BY SizesFact DEF Later
  <2>3. authTime' \in 0 .. AuthTimeout
    BY <2>1, SizesFact DEF CInv, TypeOK
  <2>4. TypeOK'
    BY <2>1, <2>2, <2>3 DEF CInv, TypeOK
  <2>5. QED
    BY <2>1, <2>4 DEF CInv, Clean, At, Start
<1>4. CASE UNCHANGED vars
  BY <1>4 DEF vars, connection, CInv, TypeOK, Clean, At, Start
<1>5. QED
  BY <1>1, <1>2, <1>3, <1>4

LEMMA NextCInv == CInv /\ [Next]_vars => CInv'
BY EndsFact, ReadFact, OutsideFact DEF Next

LEMMA ReadInductive == Spec => []CInv
BY InitCInv, NextCInv, PTL DEF Spec

\* The console's buffers hold what is in them, whatever arrives and however it is split
\* (console.go 168-240, 778-841).
THEOREM TypeCorrect == Spec => []TypeOK
BY ReadInductive, PTL DEF CInv

\* A stream has one set of sequences, by the rule of the code.
LEMMA OneMarking ==
    ASSUME NEW bytes \in Seq(Bytes),
           NEW S \in SUBSET (1 .. Len(bytes)), ThreeBytes(bytes, S),
           NEW T \in SUBSET (1 .. Len(bytes)), ThreeBytes(bytes, T)
    PROVE  S = T
<1> DEFINE Differ == {i \in 1 .. Len(bytes) : ~(i \in S <=> i \in T)}
<1> SUFFICES ASSUME Differ # {} PROVE FALSE
  OBVIOUS
<1>1. Differ \in SUBSET Nat
  OBVIOUS
<1>2. PICK i \in Differ : \A j \in Differ : ~(<<j, i>> \in OpToRel(<, Nat))
  BY <1>1, NatLessThanWellFounded, WFMin
<1>3. \A j \in Nat : j < i => j \notin Differ
  BY <1>1, <1>2 DEF OpToRel
<1>4. ASSUME NEW j \in {i - 1, i - 2} PROVE j \in S <=> j \in T
  <2>1. i \in Nat /\ i \in 1 .. Len(bytes) /\ Len(bytes) \in Nat /\ j \in Int /\ j < i
    OBVIOUS
  <2>2. CASE j \in 1 .. Len(bytes)
    BY <1>3, <2>1, <2>2
  <2>3. CASE j \notin 1 .. Len(bytes)
    BY <2>3
  <2>4. QED
    BY <2>2, <2>3
<1>5. i \in S <=> i \in T
  BY <1>4 DEF ThreeBytes
<1>6. QED
  BY <1>5

\* As long as no line is too long, the commands of a session are the lines of its text,
\* for every stream whose telnet sequences, found as RFC 854 has them, are negotiations,
\* and for every split of it into chunks (console.go 168-240).
THEOREM LinesAreCommands == Spec => []CommandsAreLines
<1>1. CInv => CommandsAreLines
  <2> SUFFICES ASSUME CInv, pc = "session", NEW telnet \in SUBSET (1 .. Len(stream)),
                      OnlyNegotiations(stream, telnet), AreBeginnings(stream, telnet),
                      Short(stream, telnet)
               PROVE  AreLines(executed, stream, telnet)
    BY DEF CommandsAreLines, ReadsLines
  <2>1. stream \in Seq(Bytes)
    BY DEF CInv, TypeOK
  <2>2. PICK found \in SUBSET (1 .. Len(stream)) :
           /\ ThreeBytes(stream, found)
           /\ Agrees(stream, found, line, skipIAC, executed)
    BY DEF CInv, At, Start
  <2>3. ThreeBytes(stream, telnet)
    BY <2>1, NegotiationsFact
  <2>4. found = telnet
    BY <2>1, <2>2, <2>3, OneMarking
  <2>5. QED
    BY <2>2, <2>4 DEF Agrees
<1>2. QED
  BY <1>1, ReadInductive, PTL
=============================================================================
