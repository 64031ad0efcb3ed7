---------------------------- MODULE OtaPushProofs ----------------------------
(****************************************************************************)
(* A push, for every firmware, file and chunk size: it is one of the sessions  *)
(* of OtaSession, and the client reports success only when the device holds    *)
(* what the file spells out.                                                *)
(*                                                                          *)
(* The argument follows the turns of the two sides.  Whoever's turn it is, the  *)
(* device's stream is the firmware up to what the client has sent, or up to     *)
(* the message under way; so DONE finds the whole firmware, whether or not its  *)
(* hash comes in time, and until the device lets go of the connection nothing   *)
(* can write to the partition again.                                         *)
(****************************************************************************)
EXTENDS OtaPush, OtaSessionProofs, WellFoundedInduction

-----------------------------------------------------------------------------
(* What extractUF2Binary returns, for every file it accepts: the one firmware *)
(* the file spells out.                                                     *)

\* A set of naturals has a least member.
LEMMA LeastExists ==
    ASSUME NEW S \in SUBSET Nat, S # {}
    PROVE  \E x \in S : \A y \in S : x <= y
<1>1. \E x \in S : \A y \in S : ~(<<y, x>> \in OpToRel(<, Nat))
  BY NatLessThanWellFounded, WFMin
<1>2. \A x \in S, y \in S : <<y, x>> \in OpToRel(<, Nat) <=> y < x
  BY DEF OpToRel
<1>3. \A x \in S, y \in S : ~(y < x) => x <= y
  OBVIOUS
<1>4. QED
  BY <1>1, <1>2, <1>3

LEMMA MinFact ==
    ASSUME NEW S \in SUBSET Nat, S # {}
    PROVE  Min(S) \in S /\ \A y \in S : Min(S) <= y
BY LeastExists DEF Min

\* A bounded one has a greatest.
LEMMA MaxFact ==
    ASSUME NEW n \in Nat, NEW S \in SUBSET (0 .. n), S # {}
    PROVE  Max(S) \in S /\ \A y \in S : y <= Max(S)
<1> DEFINE T == {n - x : x \in S}
<1>1. T \in SUBSET Nat /\ T # {}
  <2>1. \A x \in S : x \in Int /\ n - x \in Nat
    OBVIOUS
  <2>2. QED
    BY <2>1
<1>2. PICK t \in T : \A u \in T : t <= u
  BY <1>1, LeastExists
<1>3. PICK x \in S : t = n - x
  OBVIOUS
<1>4. ASSUME NEW y \in S PROVE x >= y
  <2>1. n - x <= n - y
    BY <1>2, <1>3
  <2>2. QED
    BY <2>1
<1>5. QED
  BY <1>4 DEF Max

-----------------------------------------------------------------------------

\* The blocks that cover a cell of the output.
Writers(f, cell) ==
    {b \in Blocks(f) :
        cell \in Place(f, b) .. Place(f, b) + Copied(f[b]) - 1}

\* Every block has its place behind the beginning of the output.
LEMMA PlaceFact ==
    ASSUME NEW f, IsFile(f), Extractable(f)
    PROVE  /\ Len(f) \in Nat
           /\ OutputSize(f) \in Nat
           /\ MinAddr(f) \in Nat
           /\ \A b \in Blocks(f) :
                 /\ f[b].addr \in Nat
                 /\ Place(f, b) \in Nat
                 /\ Copied(f[b]) \in Nat
                 /\ Place(f, b) + Copied(f[b]) <= OutputSize(f)
<1>1. f \in Seq(Range(f)) /\ f # <<>>
  BY DEF IsFile, Extractable
<1>2. Len(f) \in Nat /\ Len(f) # 0
  BY <1>1
<1>3. \A b \in Blocks(f) : f[b].addr \in Nat /\ f[b].size \in Nat
  BY UF2Assumption DEF IsFile
<1>4. /\ MinAddr(f) \in Nat
      /\ \A b \in Blocks(f) : MinAddr(f) <= f[b].addr
  <2> DEFINE S == {f[b].addr : b \in Blocks(f)}
  <2>1. S \in SUBSET Nat
    BY <1>3
  <2>2. S # {}
    <3>1. 1 \in Blocks(f)
      BY <1>2 DEF Blocks
    <3>2. QED
      BY <3>1
  <2>3. Min(S) \in S /\ \A y \in S : Min(S) <= y
    BY <2>1, <2>2, MinFact
  <2>4. QED
    BY <2>1, <2>3 DEF MinAddr
<1>5. OutputSize(f) \in Nat
  <2> DEFINE S == {(f[b].addr + f[b].size) % AddressSpace : b \in Blocks(f)}
                    \cup {0}
  <2>1. S \in SUBSET (0 .. AddressSpace - 1)
    <3>1. ASSUME NEW b \in Blocks(f)
          PROVE  (f[b].addr + f[b].size) % AddressSpace \in 0 .. AddressSpace - 1
      <4>1. f[b].addr + f[b].size \in Nat
        BY <1>3
      <4>2. QED
        BY <4>1, UF2Assumption
    <3>2. 0 \in 0 .. AddressSpace - 1
      BY UF2Assumption
    <3>3. QED
      BY <3>1, <3>2
  <2>2. AddressSpace - 1 \in Nat
    BY UF2Assumption
  <2>3. Max(S) \in S
    BY <2>1, <2>2, MaxFact
  <2>4. MaxAddr(f) \in Int
    BY <2>1, <2>3 DEF MaxAddr
  <2>5. MaxAddr(f) - MinAddr(f) \in Int
    BY <2>4, <1>4
  <2>6. QED
    BY <2>5, UF2Assumption DEF OutputSize
<1>6. \A b \in Blocks(f) : Copied(f[b]) \in Nat
  BY <1>3, UF2Assumption DEF Copied
<1>7. \A b \in Blocks(f) :
         Place(f, b) + Copied(f[b]) <= OutputSize(f)
  BY DEF Extractable
<1>8. QED
  BY <1>2, <1>3, <1>4, <1>5, <1>6, <1>7 DEF Place

\* The writers of a cell, as offsets into their payloads.
LEMMA WriterFact ==
    ASSUME NEW f, IsFile(f), Extractable(f),
           NEW cell \in Nat, NEW b \in Blocks(f)
    PROVE  /\ b \in Writers(f, cell) <=>
                 \E i \in 0 .. Copied(f[b]) - 1 : CellOf(f, b, i) = cell
           /\ \A i \in 0 .. Copied(f[b]) - 1 :
                 /\ CellOf(f, b, i) \in 0 .. OutputSize(f) - 1
                 /\ CellOf(f, b, i) - Place(f, b) = i
                 /\ CellOf(f, b, i) = cell => i = cell - Place(f, b)
<1>1. /\ f[b].addr \in Nat /\ MinAddr(f) \in Nat
      /\ Place(f, b) \in Nat /\ Copied(f[b]) \in Nat
      /\ OutputSize(f) \in Nat
      /\ Place(f, b) + Copied(f[b]) <= OutputSize(f)
  BY PlaceFact
<1>2. \A i \in Int : CellOf(f, b, i) = Place(f, b) + i
  BY <1>1 DEF CellOf, Place
<1>3. b \in Writers(f, cell) =>
         cell - Place(f, b) \in 0 .. Copied(f[b]) - 1
  BY <1>1 DEF Writers
<1>4. \A i \in 0 .. Copied(f[b]) - 1 :
         CellOf(f, b, i) = cell => b \in Writers(f, cell)
  BY <1>1, <1>2 DEF Writers
<1>5. \A i \in 0 .. Copied(f[b]) - 1 :
         /\ CellOf(f, b, i) \in 0 .. OutputSize(f) - 1
         /\ CellOf(f, b, i) - Place(f, b) = i
         /\ CellOf(f, b, i) = cell => i = cell - Place(f, b)
  BY <1>1, <1>2
<1>6. b \in Writers(f, cell) =>
         CellOf(f, b, cell - Place(f, b)) = cell
  BY <1>1, <1>2, <1>3
<1>7. QED
  BY <1>3, <1>4, <1>5, <1>6

\* A cell that has a writer has a last one.
LEMMA LastWriter ==
    ASSUME NEW f, IsFile(f), Extractable(f), NEW cell \in Nat,
           Writers(f, cell) # {}
    PROVE  /\ Max(Writers(f, cell)) \in Writers(f, cell)
           /\ \A b \in Writers(f, cell) : b <= Max(Writers(f, cell))
<1>1. Len(f) \in Nat
  BY PlaceFact
<1>2. Writers(f, cell) \in SUBSET (0 .. Len(f))
  BY <1>1 DEF Writers, Blocks
<1>3. QED
  BY <1>1, <1>2, MaxFact

\* The extraction spells out the file (src/cmd/cli/main.go 655-715).
THEOREM Extraction ==
    ASSUME NEW f, IsFile(f), Extractable(f)
    PROVE  SpeltBy(f, extractUF2Binary(f))
<1> DEFINE out == extractUF2Binary(f)
           last(cell) == Max(Writers(f, cell))
<1>1. ASSUME NEW cell \in 0 .. OutputSize(f) - 1
      PROVE  out[cell] = IF Writers(f, cell) = {} THEN Gap
                         ELSE f[last(cell)].payload[cell - Place(f, last(cell))]
  BY DEF extractUF2Binary, Writers
<1>2. ASSUME NEW b \in Blocks(f), NEW i \in 0 .. Copied(f[b]) - 1
      PROVE  \/ out[CellOf(f, b, i)] = f[b].payload[i]
             \/ \E c \in b + 1 .. Len(f) : \E j \in 0 .. Copied(f[c]) - 1 :
                   CellOf(f, c, j) = CellOf(f, b, i)
  <2> DEFINE cell == CellOf(f, b, i)
  <2>1. /\ OutputSize(f) \in Nat /\ Copied(f[b]) \in Nat
        /\ Len(f) \in Nat
    BY PlaceFact
  <2>2. cell \in 0 .. OutputSize(f) - 1
    BY <2>1, WriterFact
  <2>3. cell \in Nat
    BY <2>1, <2>2
  <2> HIDE DEF cell
  <2>4. b \in Writers(f, cell)
    BY <2>3, WriterFact DEF cell
  <2>5. last(cell) \in Writers(f, cell) /\ b <= last(cell)
    BY <2>3, <2>4, LastWriter
  <2>6. CASE last(cell) = b
    <3>1. out[cell] = f[b].payload[cell - Place(f, b)]
      BY <1>1, <2>2, <2>4, <2>6
    <3>2. cell - Place(f, b) = i
      BY <2>3, WriterFact DEF cell
    <3>3. QED
      BY <3>1, <3>2 DEF cell
  <2>7. CASE last(cell) # b
    <3>1. last(cell) \in Blocks(f) /\ last(cell) \in b + 1 .. Len(f)
      BY <2>1, <2>5, <2>7 DEF Writers, Blocks
    <3>2. \E j \in 0 .. Copied(f[last(cell)]) - 1 :
             CellOf(f, last(cell), j) = cell
      BY <2>3, <2>5, <3>1, WriterFact
    <3>3. QED
      BY <3>1, <3>2 DEF cell
  <2>8. QED
    BY <2>6, <2>7
<1>3. ASSUME NEW cell \in 0 .. OutputSize(f) - 1, out[cell] # Gap
      PROVE  \E b \in Blocks(f) : \E i \in 0 .. Copied(f[b]) - 1 :
                CellOf(f, b, i) = cell
  <2>1. cell \in Nat
    BY PlaceFact
  <2>2. PICK b \in Writers(f, cell) : TRUE
    BY <1>1, <1>3
  <2>3. QED
    BY <2>1, <2>2, WriterFact DEF Writers
<1>4. QED
  BY <1>2, <1>3 DEF SpeltBy

\* A file spells out one firmware only.
LEMMA SpeltOnce ==
    ASSUME NEW f, IsFile(f), Extractable(f), NEW x, NEW y,
           SpeltBy(f, x), SpeltBy(f, y),
           NEW cell \in 0 .. OutputSize(f) - 1
    PROVE  x[cell] = y[cell]
<1>1. cell \in Nat /\ Len(f) \in Nat
  BY PlaceFact
<1>2. CASE Writers(f, cell) = {}
  <2>1. ~ \E b \in Blocks(f) : \E i \in 0 .. Copied(f[b]) - 1 :
             CellOf(f, b, i) = cell
    BY <1>1, <1>2, WriterFact
  <2>2. QED
    BY <2>1 DEF SpeltBy
<1>3. CASE Writers(f, cell) # {}
  <2> DEFINE b == Max(Writers(f, cell))
  <2>1. b \in Writers(f, cell) /\ \A c \in Writers(f, cell) : c <= b
    BY <1>1, <1>3, LastWriter
  <2> HIDE DEF b
  <2>2. b \in Blocks(f) /\ b \in Nat
    BY <2>1, <1>1 DEF Writers, Blocks
  <2>3. PICK i \in 0 .. Copied(f[b]) - 1 : CellOf(f, b, i) = cell
    BY <1>1, <2>1, <2>2, WriterFact
  <2>4. ASSUME NEW c \in b + 1 .. Len(f), NEW j \in 0 .. Copied(f[c]) - 1,
               CellOf(f, c, j) = cell
        PROVE  FALSE
    <3>1. c \in Blocks(f) /\ ~(c <= b)
      BY <1>1, <2>2 DEF Blocks
    <3>2. QED
      BY <3>1, <2>1, <2>4, <1>1, WriterFact
  <2>5. x[cell] = f[b].payload[i] /\ y[cell] = f[b].payload[i]
    BY <2>2, <2>3, <2>4 DEF SpeltBy
  <2>6. QED
    BY <2>5
<1>4. QED
  BY <1>2, <1>3

-----------------------------------------------------------------------------
(* The push.                                                                *)

\* Another client's hash comes with its DONE: what the run LateHash does without.
OthersInTime == "none" \notin OtherTails

\* What a file that can be extracted is extracted to.
LEMMA FirmwareFact ==
    ASSUME NEW f \in Files, Extractable(f)
    PROVE  extractUF2Binary(f) = Image /\ OutputSize(f) = ImageLen
<1>1. IsFile(f) /\ OutputSize(f) = ImageLen /\ SpeltBy(f, Image)
  BY PushAssumption
<1>2. \A i \in 0 .. ImageLen - 1 : extractUF2Binary(f)[i] = Image[i]
  BY <1>1, Extraction, SpeltOnce
<1>3. extractUF2Binary(f) = [i \in 0 .. ImageLen - 1 |-> extractUF2Binary(f)[i]]
  BY <1>1 DEF extractUF2Binary
<1>4. Image = [i \in 0 .. ImageLen - 1 |-> Image[i]]
  BY ChunkAssumption
<1>5. QED
  BY <1>1, <1>2, <1>3, <1>4

LEMMA ImageFact ==
    /\ ImageLen \in Nat /\ ImageLen <= OtaMaxFwSize /\ OtaMaxFwSize \in Nat
    /\ \A i \in 0 .. ImageLen - 1 : Image[i] \in Data /\ i \in Offset
BY ChunkAssumption, LayoutFact DEF Offset

-----------------------------------------------------------------------------
(* The inductive invariant.                                                 *)

\* The end of the stream that has been hashed.
HashedEnd == IF phase = "erasing" THEN totalBytes + chunkLen ELSE totalBytes

\* A session has a connection; what is under way on one is otaPush's; and others
\* are served while nobody pushes.
Peers ==
    /\ peer = "none" => phase \notin InSession
    /\ phase \in {"boot", "dead"} => peer = "none"
    /\ peer # "cli" => request = Nothing
    /\ peer = "other" => step = "idle"

\* On the client's connection the device has hashed a part of the firmware.
Streamed ==
    peer = "cli" /\ phase \in InSession =>
        /\ HashedEnd <= ImageLen
        /\ \A i \in 0 .. HashedEnd - 1 : hashed[i] = Image[i]

\* A message that is under way fits what the device is at.
Requested ==
    /\ request.kind = "OTA" => phase = "idle"
    /\ request.kind = "chunk" =>
          /\ phase = "chunks"
          /\ request.len \in ChunkLens[totalBytes] /\ request.len \in 0 .. ChunkCap
          /\ totalBytes + request.len <= ImageLen
          /\ request.data \in [0 .. request.len - 1 -> Data]
          /\ \A i \in 0 .. request.len - 1 :
                request.data[i] = Image[totalBytes + i]
    /\ request.kind = "DONE" => phase = "chunks" /\ totalBytes = ImageLen

\* Whose turn it is.
Turns ==
    /\ step \in {"idle", "enable", "connect", "ready"} => sent = 0
    /\ step = "ready" /\ peer = "cli" =>
          \/ request.kind = "OTA" /\ answer = "none"
          \/ /\ request.kind = "none" /\ answer = "READY"
             /\ phase = "chunks" /\ totalBytes = 0
    /\ step = "ack" /\ peer = "cli" =>
          \/ /\ request.kind = "chunk" /\ answer = "none"
             /\ totalBytes + request.len = sent
          \/ /\ request.kind = "none" /\ answer = "none"
             /\ phase = "erasing" /\ totalBytes + chunkLen = sent
          \/ /\ request.kind = "none" /\ answer = "ACK"
             /\ phase = "chunks" /\ totalBytes = sent
    /\ step = "result" /\ peer = "cli" =>
          \/ request.kind = "DONE" /\ answer = "none"
          \/ /\ request.kind = "none" /\ answer = "VERIFIED"
             /\ phase = "verified"
    /\ step = "pushed" /\ peer = "cli" =>
          request.kind = "none" /\ phase = "verified"

\* The client sends whole chunks, but for the last one.
Whole == sent = ImageLen \/ \E k \in Nat : sent = k * PushChunk

\* Firmware that starts on trial is what the last session wrote.
StartsTarget == phase = "boot" /\ bought # current => current = target

\* From VERIFIED on, the target partition is the client's.
Delivered ==
    step = "pushed" \/ (step = "result" /\ answer = "VERIFIED") =>
        Firmware(target) = Image

PInv ==
    /\ IInv
    /\ SInv
    /\ PushTypeOK
    /\ Peers
    /\ Streamed
    /\ Requested
    /\ Turns
    /\ Whole
    /\ StartsTarget
    /\ VerifiedStream
    /\ Delivered

LEMMA PushInitInv == PushInit => PInv
<1> SUFFICES ASSUME PushInit PROVE PInv
  OBVIOUS
<1> USE DEF PushInit, Nothing, Message
<1>1. IInv /\ SInv
  BY InitInv
<1>2. PushTypeOK
  <2>1. TypeOK
    BY <1>1 DEF IInv
  <2>2. request.kind = "none" /\ sent \in 0 .. ImageLen
    BY ImageFact
  <2>3. QED
    BY <2>1, <2>2 DEF PushTypeOK
<1>3. Whole
  <2>1. sent = 0 * PushChunk
    BY PushAssumption
  <2>2. QED
    BY <2>1 DEF Whole
<1>4. QED
  BY <1>1, <1>2, <1>3
  DEF PInv, Init, Peers, Streamed, StartsTarget, Requested, Turns, VerifiedStream,
      Delivered, InSession

-----------------------------------------------------------------------------
(* Every step of a push is a step of the session, or none.                     *)

LEMMA StepIsSession ==
    PInv /\ [PushNext]_pushVars => [Next]_vars
<1> SUFFICES ASSUME PInv, [PushNext]_pushVars PROVE [Next]_vars
  OBVIOUS
<1>1. CASE UNCHANGED vars
  BY <1>1
<1>2. CASE ServeChunk
  <2>1. /\ request.len \in ChunkLens[totalBytes] \cap (0 .. ChunkCap)
        /\ request.data \in [0 .. request.len - 1 -> Data]
        /\ ReadChunk(request.len, request.data)
    BY <1>2 DEF ServeChunk, Receive, PInv, Requested
  <2>2. QED
    BY <2>1 DEF Next
<1>3. CASE OtherSends \/ OtherRefused \/ OtherBegins
  BY <1>3, PushAssumption DEF OtherSends, OtherRefused, OtherBegins, Next
<1>4. CASE \E tail \in DoneTails : ServeDone(tail) \/ RefuseDone(tail)
  BY <1>4 DEF ServeDone, RefuseDone, Next
<1>5. CASE ServeErase \/ ServeWrite \/ ServeReadFails \/ ServeReboot
           \/ ServeReset \/ Boot \/ ServeInit
  BY <1>5 DEF ServeErase, ServeWrite, ServeReadFails, ServeReboot, ServeReset,
              Boot, ServeInit, Next
<1>6. QED
  BY <1>1, <1>2, <1>3, <1>4, <1>5
  DEF PushNext, Start, EnableAnswered, Connect, ReadAnswer, ReportVerified,
      ReportFailure, Exit, InitFails, pushVars, session

-----------------------------------------------------------------------------
(* The client's steps, and those that end a connection.                        *)

LEMMA SessionKept ==
    ASSUME UNCHANGED session
    PROVE  /\ UNCHANGED <<phase, totalBytes, chunkLen, hashed, target, HashedEnd>>
           /\ UNCHANGED <<current, bought>>
           /\ HashMatches' = HashMatches
           /\ Firmware(target)' = Firmware(target)
BY DEF session, vars, boot, stream, chunk, HashedEnd, HashMatches, Firmware

\* A message of the client's is the next part of the firmware.
LEMMA SendNextFact ==
    ASSUME PInv, file \in Files, Extractable(file), SendNext
    PROVE  \/ /\ step' = "ack" /\ sent < ImageLen /\ Whole'
              /\ sent' \in 0 .. ImageLen
              /\ \E len \in ChunkLens[sent] :
                    /\ len \in 0 .. ChunkCap /\ sent' = sent + len
                    /\ Send(ChunkMessage([i \in 0 .. len - 1 |-> Image[sent + i]], len))
           \/ /\ step' = "result" /\ sent = ImageLen /\ sent' = sent
              /\ Send(Message("DONE"))
<1>1. fw = Image /\ fwLen = ImageLen
  BY FirmwareFact DEF fw, fwLen
<1>2. sent \in 0 .. ImageLen /\ ImageLen \in Nat
  BY ImageFact DEF PInv, PushTypeOK
<1>3. CASE sent < ImageLen
  <2> DEFINE len == PushLen(ImageLen, sent)
  <2>1. PushChunk \in Nat \ {0} /\ PushChunk <= ChunkCap /\ ChunkCap \in Nat
    BY PushAssumption, ChunkAssumption
  <2>2. PICK k \in Nat : sent = k * PushChunk
    BY <1>2, <1>3 DEF PInv, Whole
  <2>3. len \in ChunkLens[sent]
    <3>1. k <= k * PushChunk
      BY <2>1
    <3>2. k \in 0 .. ImageLen
      BY <1>2, <1>3, <2>2, <3>1
    <3>3. QED
      BY <1>3, <2>2, <3>2, PushAssumption
  <2>4. len \in 0 .. ChunkCap /\ sent + len \in 0 .. ImageLen
    BY <1>2, <1>3, <2>1 DEF PushLen
  <2>5. /\ Send(ChunkMessage([i \in 0 .. len - 1 |-> Image[sent + i]], len))
        /\ sent' = sent + len /\ step' = "ack"
    BY <1>1, <1>3 DEF SendNext
  <2>6. Whole'
    <3>1. CASE len = PushChunk
      <4>1. sent + PushChunk = (k + 1) * PushChunk /\ k + 1 \in Nat
        BY <2>1, <2>2
      <4>2. QED
        BY <2>5, <3>1, <4>1 DEF Whole
    <3>2. CASE len = ImageLen - sent
      BY <1>2, <2>5, <3>2 DEF Whole
    <3>3. QED
      BY <3>1, <3>2 DEF PushLen
  <2> HIDE DEF len
  <2>7. QED
    BY <1>3, <2>3, <2>4, <2>5, <2>6
<1>4. CASE ~(sent < ImageLen)
  BY <1>1, <1>2, <1>4 DEF SendNext
<1>5. QED
  BY <1>3, <1>4

\* The client reads READY or ACK when the device waits for the next message.
LEMMA ReadAnswerInv ==
    ASSUME PInv, IInv', SInv', ReadAnswer
    PROVE  PInv'
<1> USE DEF ReadAnswer, PInv
<1>1. file \in Files /\ Extractable(file) /\ sent \in 0 .. ImageLen
  BY DEF PushTypeOK
<1>2. /\ UNCHANGED <<phase, totalBytes, chunkLen, hashed, target, HashedEnd>>
      /\ UNCHANGED <<current, bought>>
      /\ HashMatches' = HashMatches
      /\ Firmware(target)' = Firmware(target)
  BY SessionKept
<1>3. peer = "cli" => phase = "chunks" /\ totalBytes = sent
  BY DEF Turns
<1>4. totalBytes \in Nat /\ ImageLen \in Nat
  BY ImageFact DEF IInv, TypeOK
<1>5. CASE step' = "ack"
  <2>1. PICK len \in ChunkLens[sent] :
           /\ len \in 0 .. ChunkCap /\ sent' = sent + len
           /\ Send(ChunkMessage([i \in 0 .. len - 1 |-> Image[sent + i]], len))
    BY <1>1, <1>5, SendNextFact
  <2>2. sent' \in 0 .. ImageLen /\ Whole'
    BY <1>1, <1>5, SendNextFact
  <2>3. CASE peer = "cli"
    <3>1. /\ request'.kind = "chunk" /\ request'.len = len
          /\ request'.data = [i \in 0 .. len - 1 |-> Image[sent + i]]
      BY <2>1, <2>3 DEF Send, ChunkMessage
    <3>2. \A i \in 0 .. len - 1 : Image[sent + i] \in Data
      BY <1>1, <2>1, <2>2, ChunkAssumption, ImageFact
    <3>3. Requested'
      BY <1>2, <1>3, <1>4, <2>1, <2>2, <2>3, <3>1, <3>2, ChunkAssumption DEF Requested
    <3>4. Turns'
      BY <1>2, <1>3, <1>5, <2>1, <2>3, <3>1 DEF Turns
    <3>5. PushTypeOK'
      BY <1>1, <1>5, <2>2, <3>1 DEF PushTypeOK, IInv
    <3>6. QED
      BY <1>2, <1>5, <2>2, <2>3, <3>3, <3>4, <3>5
      DEF Peers, Streamed, StartsTarget, VerifiedStream, Delivered, InSession
  <2>4. CASE peer # "cli"
    <3>1. request' = request /\ request.kind = "none"
      BY <2>1, <2>4 DEF Send, Peers, Nothing, Message
    <3>2. PushTypeOK'
      BY <1>1, <1>5, <2>2, <3>1 DEF PushTypeOK, IInv
    <3>3. QED
      BY <1>2, <1>5, <2>2, <2>4, <3>1, <3>2
      DEF Peers, Streamed, StartsTarget, Requested, Turns, VerifiedStream, Delivered
  <2>5. QED
    BY <2>3, <2>4
<1>6. CASE step' = "result"
  <2>1. sent = ImageLen /\ sent' = sent /\ Send(Message("DONE"))
    BY <1>1, <1>6, SendNextFact
  <2>2. /\ peer = "cli" => request'.kind = "DONE"
        /\ peer # "cli" => request' = request /\ request.kind = "none"
    BY <2>1 DEF Send, Message, Peers, Nothing
  <2>3. PushTypeOK'
    BY <1>1, <1>6, <2>1, <2>2 DEF PushTypeOK, IInv
  <2>4. Requested' /\ Turns'
    BY <1>2, <1>3, <1>6, <2>1, <2>2 DEF Requested, Turns
  <2>5. QED
    BY <1>2, <1>6, <2>1, <2>2, <2>3, <2>4
    DEF Peers, Streamed, Whole, StartsTarget, VerifiedStream, Delivered
<1>7. QED
  BY <1>1, <1>5, <1>6, SendNextFact

\* The rest of what the client does, and a connection that is given up before its
\* session, change nothing on the device.
LEMMA ClientInv ==
    ASSUME PInv, IInv', SInv',
           \/ \E f \in Files : Start(f)
           \/ EnableAnswered \/ Connect \/ ReportVerified \/ ReportFailure \/ Exit
           \/ InitFails
    PROVE  PInv'
<1> USE DEF PInv
<1>1. UNCHANGED session
  BY DEF Start, EnableAnswered, Connect, ReportVerified, ReportFailure, Exit, InitFails
<1>2. /\ UNCHANGED <<phase, totalBytes, chunkLen, hashed, target, HashedEnd>>
      /\ UNCHANGED <<current, bought>>
      /\ HashMatches' = HashMatches
      /\ Firmware(target)' = Firmware(target)
  BY <1>1, SessionKept
<1>3. VerifiedStream'
  BY <1>2 DEF VerifiedStream
<1>4. ASSUME NEW f \in Files, Start(f) PROVE PInv'
  <2>1. PushTypeOK'
    BY <1>4 DEF Start, link, PushTypeOK, IInv
  <2>2. QED
    BY <1>2, <1>3, <1>4, <2>1
    DEF Start, link, Peers, Streamed, Whole, StartsTarget, Requested, Turns, Delivered
<1>5. CASE EnableAnswered
  <2>1. PushTypeOK'
    BY <1>5 DEF EnableAnswered, link, PushTypeOK, IInv
  <2>2. QED
    BY <1>2, <1>3, <1>5, <2>1
    DEF EnableAnswered, link, Peers, Streamed, Whole, StartsTarget, Requested, Turns, Delivered
<1>6. CASE Connect
  <2>1. request'.kind = "OTA"
    BY <1>6 DEF Connect, Message
  <2>2. PushTypeOK'
    BY <1>6, <2>1 DEF Connect, PushTypeOK, IInv
  <2>3. QED
    BY <1>2, <1>3, <1>6, <2>1, <2>2
    DEF Connect, Peers, Streamed, Whole, StartsTarget, Requested, Turns, Delivered
<1>7. CASE ReportVerified
  <2>1. PushTypeOK'
    BY <1>7 DEF ReportVerified, PushTypeOK, IInv
  <2>2. QED
    BY <1>2, <1>3, <1>7, <2>1
    DEF ReportVerified, Peers, Streamed, Whole, StartsTarget, Requested, Turns, Delivered
<1>8. CASE ReportFailure \/ Exit
  <2>1. Forget /\ UNCHANGED <<peer, answer>> /\ request' \in {request, Nothing}
    BY <1>8 DEF ReportFailure, Exit, link
  <2>2. request'.kind = "none" \/ request' = request
    BY <2>1 DEF Nothing, Message
  <2>3. PushTypeOK'
    <3>1. TypeOK' /\ sent' \in 0 .. ImageLen
      BY <2>1, ImageFact DEF Forget, IInv
    <3>2. QED
      BY <2>1, <2>2, <3>1 DEF Forget, PushTypeOK
  <2>4. Whole'
    <3>1. sent' = 0 * PushChunk
      BY <2>1, PushAssumption DEF Forget
    <3>2. QED
      BY <3>1 DEF Whole
  <2>5. QED
    BY <1>2, <1>3, <2>1, <2>2, <2>3, <2>4
    DEF Forget, Peers, Streamed, StartsTarget, Requested, Turns, Delivered
<1>9. CASE InitFails
  <2>1. peer' = "none" /\ request'.kind = "none" /\ request' = Nothing
    BY <1>9 DEF InitFails, Disconnect, Nothing, Message
  <2>2. PushTypeOK'
    BY <1>9, <2>1 DEF InitFails, client, PushTypeOK, IInv
  <2>3. QED
    BY <1>2, <1>3, <1>9, <2>1, <2>2
    DEF InitFails, client, Peers, Streamed, Whole, StartsTarget, Requested, Turns, Delivered,
        InSession
<1>10. QED
  BY <1>4, <1>5, <1>6, <1>7, <1>8, <1>9

\* A session that ends takes its connection with it.
LEMMA DisconnectInv ==
    ASSUME PInv, IInv', SInv', Disconnect, phase' \in {"idle", "boot", "dead"}, StartsTarget',
           UNCHANGED <<client, target, flash>>, answer' \in {answer, "ERROR"}
    PROVE  PInv'
<1>1. peer' = "none" /\ request'.kind = "none" /\ request' = Nothing
  BY DEF Disconnect, Nothing, Message
<1>2. PushTypeOK'
  BY <1>1 DEF PInv, client, PushTypeOK, IInv
<1>3. Delivered'
  BY DEF PInv, Delivered, client, Firmware
<1>4. QED
  BY <1>1, <1>2, <1>3
  DEF PInv, client, Peers, Streamed, Whole, Requested, Turns, VerifiedStream, InSession

-----------------------------------------------------------------------------
(* The device's steps.                                                      *)

\* The write of a chunk completes the stream up to what the client has sent.
LEMMA EraseWriteInv ==
    ASSUME PInv, IInv', SInv', ServeErase \/ ServeWrite
    PROVE  PInv'
<1> USE DEF PInv
<1>1. /\ phase = "erasing" /\ phase' \in {"chunks", "erasing"}
      /\ UNCHANGED <<client, peer, request, hashed, target, HashedEnd, chunkLen>>
  BY DEF ServeErase, ServeWrite, EraseSector, WriteChunk, link, stream, chunk, HashedEnd
<1>2. \/ UNCHANGED <<phase, totalBytes, answer>>
      \/ /\ phase' = "chunks" /\ totalBytes' = totalBytes + chunkLen
         /\ peer = "cli" => answer' = "ACK"
         /\ peer # "cli" => answer' = answer
  BY DEF ServeErase, ServeWrite, EraseSector, WriteChunk, link, stream, Tell
<1>3. PushTypeOK'
  BY <1>1, <1>2 DEF client, PushTypeOK, IInv
<1>4. Requested' /\ Turns'
  BY <1>1, <1>2 DEF client, Requested, Turns
<1>5. ~(step = "pushed" \/ (step = "result" /\ answer' = "VERIFIED"))
  <2>1. peer \in {"none", "cli", "other"}
    BY DEF PushTypeOK
  <2>2. QED
    BY <2>1, <1>1, <1>2 DEF Turns, Peers, Requested, InSession
<1>6. QED
  BY <1>1, <1>3, <1>4, <1>5
  DEF client, Peers, Streamed, Whole, StartsTarget, VerifiedStream, Delivered, InSession

\* Boots happen with nobody connected, and leave alone what the last session wrote.
LEMMA BootPushInv ==
    ASSUME PInv, IInv', SInv', Boot
    PROVE  PInv'
<1> USE DEF PInv
<1>1. PICK result \in BuyResults : ConfirmPartition(result)
  BY DEF Boot
<1>2. /\ phase = "boot" /\ phase' = "idle" /\ peer = "none"
      /\ UNCHANGED <<target, client, link>>
  BY <1>1 DEF Boot, ConfirmPartition, Peers
<1>3. current \in Partitions /\ target \in Partitions
  BY DEF IInv, TypeOK
<1>4. \A a \in Address : a \in Region(target) => flash'[a] = flash[a]
  <2>1. CASE UNCHANGED flash
    BY <2>1
  <2>2. CASE ~UNCHANGED flash
    <3>1. bought # current
      BY <1>1, <2>2 DEF ConfirmPartition, Bought
    <3>2. target = current
      BY <1>2, <3>1 DEF StartsTarget
    <3>3. QED
      BY <1>1, <1>3, <3>2, InsideOther, RegionsDisjoint DEF Region
  <2>3. QED
    BY <2>1, <2>2
<1>5. Firmware(target)' = Firmware(target)
  BY <1>2, <1>3, <1>4, FirmwareKept DEF Firmware
<1>6. PushTypeOK'
  BY <1>2 DEF client, link, PushTypeOK, IInv
<1>7. QED
  BY <1>2, <1>5, <1>6
  DEF client, link, Peers, Streamed, Whole, StartsTarget, Requested, Turns,
      VerifiedStream, Delivered, InSession

\* READY opens an empty stream.
LEMMA InitLineInv ==
    ASSUME PInv, IInv', SInv', ServeInit
    PROVE  PInv'
<1> USE DEF PInv, ServeInit, BeginSession, NewLocals, Receive
<1>1. request'.kind = "none"
  BY DEF Nothing, Message
<1>2. HashedEnd' = 0
  BY DEF HashedEnd
<1>3. PushTypeOK'
  BY <1>1 DEF client, PushTypeOK, IInv
<1>4. ~(step = "pushed" \/ (step = "result" /\ answer' = "VERIFIED"))
  BY DEF Turns
<1>5. QED
  BY <1>1, <1>2, <1>3, <1>4, ImageFact
  DEF client, Peers, Streamed, Whole, StartsTarget, Requested, Turns, VerifiedStream,
      Delivered, InSession

\* A chunk of the firmware extends the stream by what the client has sent.
LEMMA ChunkInv ==
    ASSUME PInv, IInv', SInv', ServeChunk
    PROVE  PInv'
<1> USE DEF PInv, ServeChunk, Receive
<1>1. ReadChunk(request.len, request.data) /\ peer = "cli" /\ request.kind = "chunk"
  OBVIOUS
<1>2. request'.kind = "none"
  BY DEF Nothing, Message
<1>3. /\ request.len \in Nat /\ totalBytes \in Nat
      /\ totalBytes + request.len <= ImageLen
      /\ \A i \in 0 .. request.len - 1 : request.data[i] = Image[totalBytes + i]
  BY <1>1, ChunkAssumption, LayoutFact DEF Requested, IInv, TypeOK
<1>4. /\ phase = "chunks" /\ phase' = "erasing" /\ chunkLen' = request.len
      /\ UNCHANGED <<totalBytes, target, flash>>
  BY <1>1 DEF ReadChunk
<1>5. HashedEnd' = totalBytes + request.len
  BY <1>4 DEF HashedEnd
<1>6. ASSUME NEW i \in 0 .. totalBytes + request.len - 1
      PROVE  hashed'[i] = Image[i]
  <2>1. i \in Offset
    BY <1>3, ImageFact
  <2>2. CASE i < totalBytes
    <3>1. hashed'[i] = hashed[i]
      BY <1>1, <1>3, <2>1, <2>2 DEF ReadChunk
    <3>2. i \in 0 .. HashedEnd - 1
      BY <1>3, <1>4, <2>2 DEF HashedEnd
    <3>3. QED
      BY <1>1, <1>4, <3>1, <3>2 DEF Streamed, InSession
  <2>3. CASE i >= totalBytes
    <3>1. i \in totalBytes .. totalBytes + request.len - 1
          /\ i - totalBytes \in 0 .. request.len - 1
      BY <1>3, <2>3
    <3>2. hashed'[i] = request.data[i - totalBytes]
      BY <1>1, <2>1, <3>1 DEF ReadChunk
    <3>3. request.data[i - totalBytes] = Image[totalBytes + (i - totalBytes)]
      BY <1>3, <3>1
    <3>4. totalBytes + (i - totalBytes) = i
      BY <1>3
    <3>5. QED
      BY <3>2, <3>3, <3>4
  <2>4. QED
    BY <1>3, <2>2, <2>3
<1>7. Streamed'
  BY <1>3, <1>5, <1>6 DEF Streamed
<1>8. PushTypeOK'
  BY <1>2 DEF client, PushTypeOK, IInv
<1>9. Turns'
  BY <1>1, <1>2, <1>4 DEF client, Turns
<1>10. ~(step = "pushed" \/ (step = "result" /\ answer' = "VERIFIED"))
  BY <1>1 DEF Turns
<1>11. QED
  BY <1>1, <1>2, <1>4, <1>7, <1>8, <1>9, <1>10
  DEF client, Peers, Requested, Whole, StartsTarget, VerifiedStream, Delivered, InSession

\* DONE finds the whole firmware on the flash, whatever comes of its hash.
LEMMA DoneLineInv ==
    ASSUME PInv, IInv', SInv', NEW tail \in DoneTails, ServeDone(tail)
    PROVE  PInv'
<1> USE DEF PInv, ServeDone, Receive
<1>1. /\ peer = "cli" /\ request.kind = "DONE" /\ Done(tail)
      /\ phase = "chunks" /\ phase' = "verified"
      /\ UNCHANGED <<totalBytes, chunkLen, hashed, target, flash>>
  BY DEF Done, stream, chunk
<1>2. request'.kind = "none"
  BY DEF Nothing, Message
<1>3. totalBytes = ImageLen /\ HashedEnd = totalBytes /\ HashedEnd' = HashedEnd
  BY <1>1 DEF Requested, HashedEnd
<1>4. HashMatches
  BY <1>1, <1>3 DEF Streamed, HashMatches, InSession
<1>5. HashMatches'
  BY <1>1, <1>4 DEF HashMatches
<1>6. Firmware(target)' = Image
  <2>1. ASSUME NEW i \in 0 .. ImageLen - 1
        PROVE  flash[PartitionOffset(target) + i] = Image[i]
    <3>1. i \in Offset /\ i < totalBytes
      BY <1>3, ImageFact
    <3>2. flash[At(i)] = hashed[i]
      BY <1>1, <3>1 DEF SInv, Written, InSession
    <3>3. QED
      BY <1>4, <3>2 DEF HashMatches, At
  <2>2. QED
    BY <1>1, <2>1, ChunkAssumption DEF Firmware
<1>7. PushTypeOK'
  BY <1>2 DEF client, PushTypeOK, IInv
<1>8. Turns'
  BY <1>1, <1>2 DEF client, Turns
<1>9. QED
  BY <1>1, <1>2, <1>3, <1>5, <1>6, <1>7, <1>8
  DEF client, Peers, Streamed, Whole, StartsTarget, Requested, VerifiedStream,
      Delivered, InSession

\* While other clients are served nobody waits for an answer.
LEMMA OtherInv ==
    ASSUME OthersInTime, PInv, IInv', SInv', OtherBegins \/ OtherSends
    PROVE  PInv'
<1> USE DEF PInv
<1>1. /\ step = "idle" /\ peer' = "other"
      /\ UNCHANGED <<client, request, answer>>
      /\ request.kind = "none" /\ request = Nothing
  BY DEF OtherBegins, OtherSends, link, Peers, Nothing, Message
<1>2. VerifiedStream'
  <2>1. ASSUME NEW tail \in OtherTails, Done(tail) PROVE HashMatches'
    BY <2>1, OthersInTime DEF OthersInTime, Done, HashMatches, stream
  <2>2. QED
    BY <2>1 DEF OtherBegins, OtherSends, BeginSession, ReadChunk, VerifiedStream
<1>3. PushTypeOK'
  BY <1>1 DEF client, PushTypeOK, IInv
<1>4. phase' \in InSession /\ StartsTarget'
  <2>1. CASE OtherBegins
    BY <2>1 DEF OtherBegins, BeginSession, InSession, StartsTarget
  <2>2. CASE OtherSends
    <3>1. phase' \in {"erasing", "verified"}
      BY <2>2 DEF OtherSends, ReadChunk, Done
    <3>2. QED
      BY <3>1 DEF InSession, StartsTarget
  <2>3. QED
    BY <2>1, <2>2
<1>5. QED
  BY <1>1, <1>2, <1>3, <1>4
  DEF client, Peers, Streamed, Whole, Requested, Turns, Delivered, InSession

-----------------------------------------------------------------------------

LEMMA PushNextInv ==
    ASSUME FirstNotEmpty, WholePages, OthersInTime
    PROVE  PInv /\ [PushNext]_pushVars => PInv'
<1> SUFFICES ASSUME PInv, [PushNext]_pushVars PROVE PInv'
  OBVIOUS
<1>1. IInv' /\ SInv'
  BY FirstNotEmpty, WholePages, StepIsSession, NextInv DEF PInv
<1>2. CASE UNCHANGED pushVars
  <2>1. UNCHANGED <<session, client, link>>
    BY <1>2 DEF pushVars
  <2>2. /\ UNCHANGED <<phase, totalBytes, chunkLen, hashed, target, HashedEnd>>
        /\ UNCHANGED <<current, bought>>
        /\ HashMatches' = HashMatches
        /\ Firmware(target)' = Firmware(target)
    BY <2>1, SessionKept
  <2>3. PushTypeOK'
    BY <1>1, <2>1 DEF PInv, IInv, client, link, PushTypeOK
  <2>4. QED
    BY <1>1, <2>1, <2>2, <2>3
    DEF PInv, client, link, Peers, Streamed, Whole, StartsTarget, Requested, Turns, VerifiedStream, Delivered
<1>3. CASE \/ \E f \in Files : Start(f)
           \/ EnableAnswered \/ Connect \/ ReportVerified \/ ReportFailure \/ Exit
           \/ InitFails
  BY <1>1, <1>3, ClientInv
<1>4. CASE ReadAnswer
  BY <1>1, <1>4, ReadAnswerInv
<1>5. CASE ServeErase \/ ServeWrite
  BY <1>1, <1>5, EraseWriteInv
<1>6. CASE ServeReadFails \/ ServeReboot \/ ServeReset \/ OtherRefused
           \/ \E tail \in DoneTails : RefuseDone(tail)
  <2>1. /\ Disconnect /\ phase' \in {"idle", "boot", "dead"} /\ StartsTarget'
        /\ answer' \in {answer, "ERROR"} /\ UNCHANGED <<client, target, flash>>
    BY <1>6
    DEF ServeReadFails, ServeReboot, ServeReset, OtherRefused, RefuseDone,
        ReadFails, RebootToPartition, RebootRefused, Reset, Restart, ChunkRefused,
        DoneMismatch, EndSession, StartsTarget, boot
  <2>2. QED
    BY <1>1, <2>1, DisconnectInv
<1>7. CASE Boot
  BY <1>1, <1>7, BootPushInv
<1>8. CASE ServeInit
  BY <1>1, <1>8, InitLineInv
<1>9. CASE ServeChunk
  BY <1>1, <1>9, ChunkInv
<1>10. ASSUME NEW tail \in DoneTails, ServeDone(tail) PROVE PInv'
  BY <1>1, <1>10, DoneLineInv
<1>11. CASE OtherBegins \/ OtherSends
  BY <1>1, <1>11, OthersInTime, OtherInv
<1>12. QED
  BY <1>2, <1>3, <1>4, <1>5, <1>6, <1>7, <1>8, <1>9, <1>10, <1>11 DEF PushNext

LEMMA PushInductive ==
    ASSUME FirstNotEmpty, WholePages, OthersInTime
    PROVE  PushSpec => []PInv
<1>1. PInv /\ [PushNext]_pushVars => PInv'
  BY FirstNotEmpty, WholePages, OthersInTime, PushNextInv
<1>2. QED
  BY <1>1, PushInitInv, PTL DEF PushSpec

-----------------------------------------------------------------------------
(* The theorems.                                                            *)

\* What the device does in a push it does in a session by itself: nothing that is
\* proved of OtaSession depends on who is connected (ota_server.go 229-450).
THEOREM PushIsSession ==
    ASSUME FirstNotEmpty, WholePages, OthersInTime
    PROVE  PushSpec => Spec
<1>1. PushSpec => []PInv
  BY FirstNotEmpty, WholePages, OthersInTime, PushInductive
<1>2. PushInit => Init
  BY DEF PushInit
<1>3. QED
  BY <1>1, <1>2, StepIsSession, PTL DEF PushSpec, Spec

\* Client, connection and device stay in step (cmd/cli/main.go 366-488).
THEOREM PushTypeCorrect ==
    ASSUME FirstNotEmpty, WholePages, OthersInTime
    PROVE  PushSpec => []PushTypeOK
<1>1. PInv => PushTypeOK
  BY DEF PInv
<1>2. QED
  BY <1>1, FirstNotEmpty, WholePages, OthersInTime, PushInductive, PTL

\* Only the firmware that is meant to be installed is ever VERIFIED, even when the
\* client's hash comes too late to be compared: what it sent was the firmware
\* (ota_server.go 284-337, cmd/cli/main.go 425-465).
THEOREM PushVerifiesImage ==
    ASSUME FirstNotEmpty, WholePages, OthersInTime
    PROVE  PushSpec => []VerifiedImage
<1>1. PInv => VerifiedImage
  BY StreamIsImage DEF PInv
<1>2. QED
  BY <1>1, FirstNotEmpty, WholePages, OthersInTime, PushInductive, PTL

\* With pushes under way the device still runs one whole firmware at a time
\* (ota_server.go 229-450, ota.go 91-133).
THEOREM PushImplements ==
    ASSUME FirstNotEmpty, WholePages, OthersInTime
    PROVE  PushSpec => ImplementsFirmwareUpdate
<1>1. PushInit => Abstract!Init
  BY AbstractInit DEF PushInit
<1>2. PushSpec => []PInv
  BY FirstNotEmpty, WholePages, OthersInTime, PushInductive
<1>3. PInv /\ [PushNext]_pushVars => [Abstract!Next]_<<Running, Kept, OnTrial>>
  BY StreamIsImage, StepIsSession, StepImplements DEF PInv
<1>4. QED
  BY <1>1, <1>2, <1>3, PTL
  DEF PushSpec, ImplementsFirmwareUpdate, Abstract!Spec, Running, Kept, OnTrial

\* "Firmware verified!" is said only when the device holds what the file spells out
\* (cmd/cli/main.go 470-484, 655-715).
THEOREM ReportsTrue ==
    ASSUME FirstNotEmpty, WholePages, OthersInTime
    PROVE  PushSpec => []ReportIsTrue
<1>1. PInv => ReportIsTrue
  <2> SUFFICES ASSUME PInv, step = "pushed"
               PROVE  SpeltBy(file, Firmware(target))
    BY DEF ReportIsTrue
  <2>1. file \in Files /\ Extractable(file)
    BY DEF PInv, PushTypeOK
  <2>2. SpeltBy(file, Image)
    BY <2>1, PushAssumption
  <2>3. Firmware(target) = Image
    BY DEF PInv, Delivered
  <2>4. QED
    BY <2>2, <2>3
<1>2. QED
  BY <1>1, FirstNotEmpty, WholePages, OthersInTime, PushInductive, PTL
=============================================================================
