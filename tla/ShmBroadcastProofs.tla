------------------------- MODULE ShmBroadcastProofs -------------------------
(* Proofs about the shared-memory message queue for any number of readers,  *)
(* chunks and messages: types, one lap, whole reads in order, and the       *)
(* implementation of the broadcast FIFO of the readers without timeouts.    *)
EXTENDS ShmBroadcast, TLAPS

(* Zenon, with a minute for each leaf; the leaves that count name SMT.      *)
USE ZenonT(60)

(* The position of message n in the ring: chunk i, after q full laps.  A    *)
(* formula without % that the provers can count with.                       *)
Turn(n, i) == i \in Chunk /\ \E q \in Nat : n = q * MaxChunks + i

(* The first message is put in chunk 0.                                     *)
LEMMA TurnZero == Turn(0, 0)
  BY ShmAssumption, SMTT(60) DEF Turn, Chunk

(* current_idx moves on with the message number.                            *)
LEMMA TurnNext ==
  ASSUME NEW n \in Nat, NEW i, Turn(n, i)
  PROVE  NextChunk(i) \in Chunk /\ Turn(n + 1, NextChunk(i))
<1>1. PICK q \in Nat : n = q * MaxChunks + i
  BY DEF Turn
<1>2. i \in 0 .. MaxChunks - 1 /\ MaxChunks \in Nat \ {0}
  BY ShmAssumption DEF Turn, Chunk
<1>3. NextChunk(i) = IF i + 1 = MaxChunks THEN 0 ELSE i + 1
  BY <1>2, SMTT(60) DEF NextChunk
<1>4. CASE i + 1 = MaxChunks
  <2>1. n + 1 = (q + 1) * MaxChunks + 0
    BY <1>1, <1>2, <1>4, SMTT(60)
  <2>2. 0 \in Chunk /\ q + 1 \in Nat
    BY <1>2, SMTT(60) DEF Chunk
  <2>3. Turn(n + 1, 0)
    BY <2>1, <2>2 DEF Turn
  <2>4. QED BY <1>3, <1>4, <2>2, <2>3
<1>5. CASE i + 1 # MaxChunks
  <2>1. n + 1 = q * MaxChunks + (i + 1) /\ i + 1 \in Chunk
    BY <1>1, <1>2, <1>5, SMTT(60) DEF Chunk
  <2>2. QED BY <1>3, <1>5, <2>1 DEF Turn
<1>6. QED BY <1>4, <1>5

(* Two messages of one chunk that are at most a lap apart are the same      *)
(* message or exactly one lap apart.                                        *)
LEMMA TurnLap ==
  ASSUME NEW m \in Nat, NEW n \in Nat, NEW i, Turn(m, i), Turn(n, i),
         m <= n, n <= m + MaxChunks
  PROVE  n = m \/ n = m + MaxChunks
<1>1. PICK p \in Nat : m = p * MaxChunks + i
  BY DEF Turn
<1>2. PICK q \in Nat : n = q * MaxChunks + i
  BY DEF Turn
<1>3. i \in 0 .. MaxChunks - 1 /\ MaxChunks \in Nat \ {0}
  BY ShmAssumption DEF Turn, Chunk
<1>4. CASE q <= p
  <2>1. q * MaxChunks <= p * MaxChunks
    BY <1>3, <1>4, SMTT(60)
  <2>2. QED BY <1>1, <1>2, <1>3, <2>1, SMTT(60)
<1>5. CASE q = p + 1
  <2>1. q * MaxChunks = p * MaxChunks + MaxChunks
    BY <1>3, <1>5, SMTT(60)
  <2>2. QED BY <1>1, <1>2, <1>3, <2>1, SMTT(60)
<1>6. CASE q >= p + 2
  <2>1. q * MaxChunks >= (p + 2) * MaxChunks
    BY <1>3, <1>6, SMTT(60)
  <2>2. (p + 2) * MaxChunks = p * MaxChunks + MaxChunks + MaxChunks
    BY <1>3, SMTT(60)
  <2>3. QED BY <1>1, <1>2, <1>3, <2>1, <2>2, SMTT(60)
<1>7. QED BY <1>4, <1>5, <1>6, SMTT(60)

(* A message has one chunk.                                                 *)
LEMMA TurnUnique ==
  ASSUME NEW n \in Nat, NEW i, NEW j, Turn(n, i), Turn(n, j)
  PROVE  i = j
<1>1. PICK p \in Nat : n = p * MaxChunks + i
  BY DEF Turn
<1>2. PICK q \in Nat : n = q * MaxChunks + j
  BY DEF Turn
<1>3. /\ i \in 0 .. MaxChunks - 1 /\ j \in 0 .. MaxChunks - 1
      /\ MaxChunks \in Nat \ {0}
  BY ShmAssumption DEF Turn, Chunk
<1>4. CASE p = q
  BY <1>1, <1>2, <1>3, <1>4, SMTT(60)
<1>5. CASE p >= q + 1
  <2>1. p * MaxChunks >= (q + 1) * MaxChunks
    BY <1>3, <1>5, SMTT(60)
  <2>2. (q + 1) * MaxChunks = q * MaxChunks + MaxChunks
    BY <1>3, SMTT(60)
  <2>3. QED BY <1>1, <1>2, <1>3, <2>1, <2>2, SMTT(60)
<1>6. CASE q >= p + 1
  <2>1. q * MaxChunks >= (p + 1) * MaxChunks
    BY <1>3, <1>6, SMTT(60)
  <2>2. (p + 1) * MaxChunks = p * MaxChunks + MaxChunks
    BY <1>3, SMTT(60)
  <2>3. QED BY <1>1, <1>2, <1>3, <2>1, <2>2, SMTT(60)
<1>7. QED BY <1>4, <1>5, <1>6, SMTT(60)

(* One lap on, a message lands in the same chunk.                           *)
LEMMA TurnPlus ==
  ASSUME NEW n \in Nat, NEW i, Turn(n, i)
  PROVE  Turn(n + MaxChunks, i)
<1>1. PICK q \in Nat : n = q * MaxChunks + i
  BY DEF Turn
<1>2. i \in 0 .. MaxChunks - 1 /\ MaxChunks \in Nat \ {0}
  BY ShmAssumption DEF Turn, Chunk
<1>3. n + MaxChunks = (q + 1) * MaxChunks + i
  BY <1>1, <1>2, SMTT(60)
<1>4. QED BY <1>2, <1>3, SMTT(60) DEF Turn, Chunk

(* ... and so it did one lap before.                                        *)
LEMMA TurnMinus ==
  ASSUME NEW n \in Nat, NEW i, Turn(n, i), n >= MaxChunks
  PROVE  n - MaxChunks \in Nat /\ Turn(n - MaxChunks, i)
<1>1. PICK q \in Nat : n = q * MaxChunks + i
  BY DEF Turn
<1>2. i \in 0 .. MaxChunks - 1 /\ MaxChunks \in Nat \ {0}
  BY ShmAssumption DEF Turn, Chunk
<1>3. q >= 1
  BY <1>1, <1>2, SMTT(60)
<1>4. n - MaxChunks = (q - 1) * MaxChunks + i
  BY <1>1, <1>2, <1>3, SMTT(60)
<1>5. QED BY <1>1, <1>2, <1>3, <1>4, SMTT(60) DEF Turn, Chunk

-----------------------------------------------------------------------------
(* The strengthening of AtMostOneLap and ReadsNextMessage.                  *)

(* Indices and message numbers keep step.                                   *)
Positions ==
  /\ Turn(wn, widx)
  /\ \A r \in Reader : Turn(rn[r], ridx[r])

(* A chunk that is marked written holds a message of the last lap; every    *)
(* message of the last lap is in its chunk, with the flags of the readers   *)
(* that have passed it, unless its chunk is the one being rewritten.        *)
Chunks ==
  /\ \A c \in Chunk : written[c] =>
       \E m \in Nat : Turn(m, c) /\ m < wn /\ wn <= m + MaxChunks
  /\ \A c \in Chunk, m \in Nat :
       Turn(m, c) /\ m < wn /\ wn <= m + MaxChunks /\ (wn < m + MaxChunks \/ written[c]) =>
         /\ written[c]
         /\ data[c] = Content(m)
         /\ \A r \in Reader : read[c][r] = (m < rn[r])

(* The writer: the chunk at its index is not written only once every reader *)
(* has passed the message it held.                                          *)
WriterInv ==
  /\ ~written[widx] => \A r \in Reader : wn < rn[r] + MaxChunks
  /\ wpc \in {"fill", "reset"} => ~written[widx]
  /\ wpc = "reset" =>
       /\ data[widx] = Content(wn)
       /\ \A r \in Reader : r < wk => ~read[widx][r]

(* A reader that found its flag clear and the chunk written has a message   *)
(* to read.                                                                 *)
Ready(r) ==
  /\ rn[r] <= wn /\ wn <= rn[r] + MaxChunks
  /\ rpc[r] = "written" /\ ~saw[r] /\ written[ridx[r]] => rn[r] < wn
  /\ rpc[r] \in {"read", "mark"} => rn[r] < wn
  /\ rpc[r] = "mark" => seen[r] = Content(rn[r])

ReaderInv == \A r \in Reader : Ready(r)

RingInv == TypeOK /\ Positions /\ Chunks /\ WriterInv /\ ReaderInv

-----------------------------------------------------------------------------
(* current_idx stays an index of the ring.                                  *)
LEMMA NextChunkType ==
  ASSUME NEW i \in Chunk
  PROVE  NextChunk(i) \in Chunk
  BY ShmAssumption, SMTT(60) DEF NextChunk, Chunk

(* The types hold initially and are kept by every step.                     *)
LEMMA TypeInit == Init => TypeOK
  BY ShmAssumption, SMTT(60)
  DEF Init, TypeOK, Chunk, Reader, WriterPC, ReaderPC, Torn, OverflowByte

(* Marking a chunk as read keeps the types.                                 *)
LEMMA TypeMark ==
  ASSUME TypeOK, NEW r \in Reader, MarkRead(r)
  PROVE  TypeOK'
<1>1. /\ read \in [Chunk -> [Reader -> BOOLEAN]] /\ ridx \in [Reader -> Chunk]
      /\ rn \in [Reader -> Nat] /\ rpc \in [Reader -> ReaderPC] /\ seen \in [Reader -> Int]
      /\ count \in [Reader -> Nat] /\ last \in [Reader -> Int]
  BY DEF TypeOK
<1>2. read' \in [Chunk -> [Reader -> BOOLEAN]]
  BY <1>1 DEF MarkRead
<1>3. NextChunk(ridx[r]) \in Chunk
  BY <1>1, NextChunkType
<1>4. ridx' \in [Reader -> Chunk] /\ rn' \in [Reader -> Nat]
  BY <1>1, <1>3, SMTT(60) DEF MarkRead
<1>5. rpc' \in [Reader -> ReaderPC]
  <2>1. "recv" \in ReaderPC /\ "flag" \in ReaderPC
    BY DEF ReaderPC
  <2>2. QED BY <1>1, <2>1 DEF MarkRead
<1>6. count' \in [Reader -> Nat] /\ last' \in [Reader -> Int]
  BY <1>1, SMTT(60) DEF MarkRead, Return, output
<1>7. UNCHANGED <<written, data, writerVars, saw, seen, ping, sock, shutting>>
  BY DEF MarkRead
<1>8. QED BY <1>2, <1>4, <1>5, <1>6, <1>7 DEF TypeOK, writerVars

(* Receiving a payload from the socket keeps the types.                     *)
LEMMA TypeRecv ==
  ASSUME TypeOK, NEW r \in Reader, RecvPayload(r)
  PROVE  TypeOK'
<1>1. /\ sock \in [Reader -> Seq(Int)] /\ rpc \in [Reader -> ReaderPC]
      /\ count \in [Reader -> Nat] /\ last \in [Reader -> Int]
  BY DEF TypeOK
<1>2. Head(sock[r]) \in Int /\ Tail(sock[r]) \in Seq(Int)
  BY <1>1, SMTT(60) DEF RecvPayload
<1>3. sock' \in [Reader -> Seq(Int)]
  BY <1>1, <1>2 DEF RecvPayload
<1>4. rpc' \in [Reader -> ReaderPC]
  <2>1. "flag" \in ReaderPC
    BY DEF ReaderPC
  <2>2. QED BY <1>1, <2>1 DEF RecvPayload
<1>5. count' \in [Reader -> Nat] /\ last' \in [Reader -> Int]
  BY <1>1, <1>2, SMTT(60) DEF RecvPayload, Return
<1>6. UNCHANGED <<written, read, data, writerVars, ridx, rn, saw, seen, ping, shutting>>
  BY DEF RecvPayload
<1>7. QED BY <1>3, <1>4, <1>5, <1>6 DEF TypeOK, writerVars

(* Every step keeps the types.                                              *)
LEMMA TypeStep == TypeOK /\ [Next]_vars => TypeOK'
<1> SUFFICES ASSUME TypeOK, [Next]_vars PROVE TypeOK'
  OBVIOUS
<1> USE DEF TypeOK, WriterPC, ReaderPC
<1>1. ASSUME Enqueue PROVE TypeOK'
  BY <1>1 DEF Enqueue, readerVars, output
<1>2. ASSUME AcquireWrite PROVE TypeOK'
  BY <1>2, SMTT(60) DEF AcquireWrite, Torn, readerVars, output
<1>3. ASSUME Fill PROVE TypeOK'
  <2>1. Content(wn) \in Int
    BY SMTT(60) DEF Content, OverflowByte
  <2>2. QED BY <1>3, <2>1, ShmAssumption, SMTT(60) DEF Fill, readerVars, output
<1>4. ASSUME ResetFlag PROVE TypeOK'
  <2>1. wk \in Reader /\ wk + 1 \in 0 .. NReader
    BY <1>4, ShmAssumption, SMTT(60) DEF ResetFlag, Reader
  <2>2. read' \in [Chunk -> [Reader -> BOOLEAN]]
    BY <1>4, <2>1 DEF ResetFlag
  <2>3. QED BY <1>4, <2>1, <2>2 DEF ResetFlag, readerVars, output
<1>5. ASSUME Publish PROVE TypeOK'
  BY <1>5, NextChunkType, SMTT(60) DEF Publish, readerVars, output
<1>6. ASSUME SendPayload PROVE TypeOK'
  <2>1. \A r \in Reader : Append(sock[r], wn - 1) \in Seq(Int)
    BY SMTT(60)
  <2>2. QED BY <1>6, <2>1 DEF SendPayload, readerVars, output
<1>7. ASSUME Notify PROVE TypeOK'
  BY <1>7 DEF Notify, readerVars, output
<1>8. ASSUME Crash PROVE TypeOK'
  BY <1>8 DEF Crash, readerVars, output
<1>9. ASSUME NEW r \in Reader, ReaderStep(r) PROVE TypeOK'
  <2>1. CASE LoadRead(r)
    BY <2>1 DEF LoadRead, writerVars, output
  <2>2. CASE LoadWritten(r)
    BY <2>2 DEF LoadWritten, writerVars, output
  <2>3. CASE Spin(r) \/ Park(r) \/ WakeCancelled(r) \/ WakeRecheck(r) \/ RecvTimeout(r)
    BY <2>3
    DEF Spin, Park, WakeCancelled, WakeRecheck, RecvTimeout, AfterWait, writerVars, output
  <2>4. CASE WakeNotified(r)
    BY <2>4 DEF WakeNotified, AfterWait, writerVars, output
  <2>5. CASE ReadChunk(r)
    BY <2>5 DEF ReadChunk, writerVars, output
  <2>6. CASE MarkRead(r)
    BY <2>6, TypeMark
  <2>7. CASE RecvPayload(r)
    BY <2>7, TypeRecv
  <2>8. QED
    BY <1>9, <2>1, <2>2, <2>3, <2>4, <2>5, <2>6, <2>7 DEF ReaderStep
<1>10. ASSUME NEW r \in Reader, Shutdown(r) PROVE TypeOK'
  BY <1>10 DEF Shutdown, writerVars, readerVars, output
<1>11. ASSUME UNCHANGED vars PROVE TypeOK'
  BY <1>11 DEF vars, writerVars, readerVars, output
<1>12. QED
  BY <1>1, <1>2, <1>3, <1>4, <1>5, <1>6, <1>7, <1>8, <1>9, <1>10, <1>11
  DEF Next, WriterStep

-----------------------------------------------------------------------------
(* The part of TypeOK the ring's arguments use.                             *)
RingTypes ==
  /\ wn \in Nat /\ widx \in Chunk /\ wk \in Nat /\ MaxChunks \in Nat \ {0}
  /\ rn \in [Reader -> Nat] /\ ridx \in [Reader -> Chunk]
  /\ written \in [Chunk -> BOOLEAN] /\ data \in [Chunk -> Int]
  /\ read \in [Chunk -> [Reader -> BOOLEAN]]
  /\ rpc \in [Reader -> ReaderPC] /\ saw \in [Reader -> BOOLEAN]
  /\ seen \in [Reader -> Int]

(* The types of the ring, for the provers.                                  *)
LEMMA RingTyped == TypeOK => RingTypes
  BY ShmAssumption, SMTT(60) DEF TypeOK, RingTypes

(* The ring invariant holds initially.                                      *)
LEMMA RingInit == Init => RingInv
<1> SUFFICES ASSUME Init PROVE RingInv
  OBVIOUS
<1>1. TypeOK
  BY TypeInit
<1>2. Positions
  BY TurnZero DEF Init, Positions
<1>3. Chunks /\ WriterInv /\ ReaderInv
  BY ShmAssumption, TurnZero, SMTT(60) DEF Init, Chunks, WriterInv, ReaderInv, Ready, Turn
<1>4. QED BY <1>1, <1>2, <1>3 DEF RingInv

(* The chunks stay as they are described while nobody touches them.         *)
LEMMA ChunksFrame ==
  ASSUME Positions, Chunks, UNCHANGED <<written, read, data, widx, wn, ridx, rn>>
  PROVE  Positions' /\ Chunks'
<1>1. Positions'
  BY DEF Positions
<1>2. Chunks'
  BY DEF Chunks, Content
<1>3. QED BY <1>1, <1>2

(* The message in a written chunk at the writer's index is one lap old.     *)
LEMMA OldestChunk ==
  ASSUME RingInv, NEW m \in Nat, Turn(m, widx), m < wn, wn <= m + MaxChunks
  PROVE  wn = m + MaxChunks
  BY TurnLap, SMTT(60) DEF RingInv, Positions, TypeOK

(* AcquireWrite frees the chunk only after every reader passed it.          *)
LEMMA RingAcquire ==
  ASSUME RingInv, AcquireWrite, TypeOK'
  PROVE  RingInv'
<1>0. RingTypes
  BY RingTyped DEF RingInv
<1> USE DEF RingTypes
<1>1. Positions'
  BY DEF RingInv, Positions, AcquireWrite, readerVars
<1>2. ASSUME NEW r \in Reader PROVE wn < rn[r] + MaxChunks
  <2>1. CASE ~written[widx]
    BY <2>1 DEF RingInv, WriterInv
  <2>2. CASE written[widx]
    <3>1. PICK m \in Nat : Turn(m, widx) /\ m < wn /\ wn <= m + MaxChunks
      BY <1>0, <2>2 DEF RingInv, Chunks
    <3>2. wn = m + MaxChunks
      BY <3>1, OldestChunk
    <3>3. read[widx][r] = (m < rn[r])
      BY <1>0, <2>2, <3>1 DEF RingInv, Chunks
    <3>4. read[widx][r]
      BY <2>2 DEF AcquireWrite
    <3>5. rn[r] \in Nat
      BY <1>0
    <3>6. QED BY <1>0, <3>2, <3>3, <3>4, <3>5, SMTT(60)
  <2>3. QED BY <2>1, <2>2
<1>3. Chunks'
  <2>1. ASSUME NEW c \in Chunk, written'[c]
        PROVE \E m \in Nat : Turn(m, c) /\ m < wn /\ wn <= m + MaxChunks
    BY <1>0, <2>1 DEF RingInv, Chunks, AcquireWrite
  <2>2. ASSUME NEW c \in Chunk, NEW m \in Nat,
               Turn(m, c), m < wn, wn <= m + MaxChunks, wn < m + MaxChunks \/ written'[c]
        PROVE  /\ written'[c] /\ data'[c] = Content(m)
               /\ \A r \in Reader : read[c][r] = (m < rn[r])
    <3>1. c # widx
      BY <1>0, <2>2, OldestChunk, SMTT(60) DEF AcquireWrite
    <3>2. written'[c] = written[c] /\ data'[c] = data[c]
      BY <1>0, <3>1 DEF AcquireWrite
    <3>3. QED BY <2>2, <3>2 DEF RingInv, Chunks
  <2>3. QED BY <2>1, <2>2, SMTT(60) DEF Chunks, AcquireWrite, readerVars, Content
<1>4. WriterInv'
  BY <1>0, <1>2 DEF WriterInv, AcquireWrite, readerVars
<1>5. ReaderInv'
  <2>1. \A c \in Chunk : written'[c] => written[c]
    BY <1>0 DEF AcquireWrite
  <2>2. QED
    BY <1>0, <2>1 DEF RingInv, ReaderInv, Ready, AcquireWrite, readerVars, Content
<1>6. QED BY <1>1, <1>3, <1>4, <1>5 DEF RingInv

(* Filling the chunk and resetting its flags touches no message of the lap. *)
LEMMA RingFill ==
  ASSUME RingInv, Fill \/ ResetFlag, TypeOK'
  PROVE  RingInv'
<1>0. RingTypes /\ ~written[widx]
  BY RingTyped DEF RingInv, WriterInv, Fill, ResetFlag
<1> USE DEF RingTypes
<1>1. Positions'
  BY DEF RingInv, Positions, Fill, ResetFlag, readerVars
<1>2. UNCHANGED <<written, widx, wn, rpc, ridx, rn, saw, seen>>
  BY DEF Fill, ResetFlag, readerVars
<1>3. Chunks'
  <2>1. ASSUME NEW c \in Chunk, c # widx
        PROVE  data'[c] = data[c] /\ read'[c] = read[c]
    BY <1>0, <2>1 DEF Fill, ResetFlag
  <2>2. ASSUME NEW c \in Chunk, NEW m \in Nat,
               Turn(m, c), m < wn, wn <= m + MaxChunks, wn < m + MaxChunks \/ written[c]
        PROVE  /\ written[c] /\ data'[c] = Content(m)
               /\ \A r \in Reader : read'[c][r] = (m < rn[r])
    <3>1. c # widx
      BY <1>0, <2>2, OldestChunk, SMTT(60)
    <3>2. QED BY <2>1, <2>2, <3>1, SMTT(60) DEF RingInv, Chunks
  <2>3. \A c \in Chunk : written[c] =>
          \E m \in Nat : Turn(m, c) /\ m < wn /\ wn <= m + MaxChunks
    BY DEF RingInv, Chunks
  <2>4. QED BY <1>2, <2>2, <2>3 DEF Chunks, Content
<1>4. WriterInv'
  <2>1. CASE Fill
    BY <1>0, <2>1, ShmAssumption, SMTT(60) DEF RingInv, WriterInv, Fill, Reader, readerVars, Content
  <2>2. CASE ResetFlag
    <3>1. \A r \in Reader : read'[widx][r] = IF r = wk THEN FALSE ELSE read[widx][r]
      BY <1>0, <2>2 DEF ResetFlag
    <3>2. \A r \in Reader : r < wk + 1 => r = wk \/ r < wk
      BY <1>0, ShmAssumption, SMTT(60) DEF Reader
    <3>3. \A r \in Reader : r < wk' => ~read'[widx][r]
      BY <1>0, <2>2, <3>1, <3>2 DEF RingInv, WriterInv, ResetFlag
    <3>4. QED BY <1>0, <1>2, <2>2, <3>3, SMTT(60) DEF RingInv, WriterInv, ResetFlag, Content
  <2>3. QED BY <2>1, <2>2
<1>5. ReaderInv'
  BY <1>2 DEF RingInv, ReaderInv, Ready, Content
<1>6. QED BY <1>1, <1>3, <1>4, <1>5 DEF RingInv

(* Publishing adds the message wn to the lap and drops the oldest.          *)
LEMMA RingPublish ==
  ASSUME RingInv, Publish, TypeOK'
  PROVE  RingInv'
<1>0. /\ RingTypes /\ ~written[widx] /\ wn' = wn + 1 /\ widx' = NextChunk(widx)
      /\ Turn(wn, widx)
  BY RingTyped DEF RingInv, WriterInv, Publish, Positions
<1> USE DEF RingTypes
<1>1. Turn(wn', widx') /\ widx' \in Chunk
  BY <1>0, TurnNext
<1>2. Positions'
  BY <1>1 DEF RingInv, Positions, Publish, readerVars
<1>3. \A c \in Chunk : written'[c] = IF c = widx THEN TRUE ELSE written[c]
  BY <1>0 DEF Publish
<1>4. \A r \in Reader : /\ wn < rn[r] + MaxChunks /\ rn[r] <= wn /\ rn[r] \in Nat
                        /\ Turn(rn[r], ridx[r]) /\ ridx[r] \in Chunk
  BY <1>0 DEF RingInv, WriterInv, ReaderInv, Ready, Positions
<1>5. ASSUME NEW c \in Chunk, NEW m \in Nat, Turn(m, c), m < wn, wn <= m + MaxChunks, c # widx
      PROVE  wn < m + MaxChunks
  <2>1. CASE wn = m + MaxChunks
    <3>1. Turn(wn, c)
      BY <1>5, <2>1, TurnPlus
    <3>2. QED BY <1>0, <1>5, <3>1, TurnUnique
  <2>2. QED BY <1>0, <1>5, <2>1, SMTT(60)
<1>6. Chunks'
  <2>1. ASSUME NEW c \in Chunk, written'[c]
        PROVE  \E m \in Nat : Turn(m, c) /\ m < wn' /\ wn' <= m + MaxChunks
    <3>1. CASE c = widx
      BY <1>0, <3>1, SMTT(60)
    <3>2. CASE c # widx
      <4>1. PICK m \in Nat : Turn(m, c) /\ m < wn /\ wn <= m + MaxChunks
        BY <1>3, <2>1, <3>2 DEF RingInv, Chunks
      <4>2. QED BY <1>0, <1>5, <3>2, <4>1, SMTT(60)
    <3>3. QED BY <3>1, <3>2
  <2>2. ASSUME NEW c \in Chunk, NEW m \in Nat,
               Turn(m, c), m < wn', wn' <= m + MaxChunks
        PROVE  /\ written'[c] /\ data[c] = Content(m)
               /\ \A r \in Reader : read[c][r] = (m < rn[r])
    <3>1. CASE m = wn
      <4>1. c = widx
        BY <1>0, <2>2, <3>1, TurnUnique
      <4>2. \A r \in Reader : ~read[c][r]
        <5>1. \A r \in Reader : r < wk
          BY ShmAssumption, SMTT(60) DEF Publish, Reader
        <5>2. QED BY <4>1, <5>1 DEF RingInv, WriterInv, Publish
      <4>3. \A r \in Reader : ~(m < rn[r])
        BY <1>0, <1>4, <3>1, SMTT(60)
      <4>4. data[c] = Content(m)
        BY <3>1, <4>1 DEF RingInv, WriterInv, Publish
      <4>5. \A r \in Reader : read[c][r] = (m < rn[r])
        BY <1>0, <4>2, <4>3, SMTT(60)
      <4>6. written'[c]
        BY <1>3, <4>1
      <4>7. QED BY <4>4, <4>5, <4>6
    <3>2. CASE m < wn
      <4>1. wn < m + MaxChunks
        BY <1>0, <2>2, SMTT(60)
      <4>2. c # widx
        BY <1>0, <2>2, <3>2, <4>1, OldestChunk, SMTT(60)
      <4>3. /\ written[c] /\ data[c] = Content(m)
            /\ \A r \in Reader : read[c][r] = (m < rn[r])
        BY <1>0, <2>2, <3>2, <4>1, SMTT(60) DEF RingInv, Chunks
      <4>4. written'[c]
        BY <1>3, <4>2, <4>3
      <4>5. QED BY <4>3, <4>4
    <3>3. QED BY <1>0, <2>2, <3>1, <3>2, SMTT(60)
  <2>3. QED BY <2>1, <2>2 DEF Chunks, Publish, readerVars, Content
<1>7. WriterInv'
  <2>1. ASSUME ~written'[widx'], NEW r \in Reader PROVE wn' < rn[r] + MaxChunks
    <3>1. widx' # widx
      BY <1>0, <1>3, <2>1
    <3>2. CASE wn + 1 < MaxChunks
      BY <1>0, <1>4, <3>2, SMTT(60)
    <3>3. CASE wn + 1 >= MaxChunks
      <4>1. wn + 1 - MaxChunks \in Nat /\ Turn(wn + 1 - MaxChunks, widx')
        BY <1>0, <1>1, <3>3, TurnMinus, SMTT(60)
      <4>2. wn + 1 - MaxChunks < wn \/ MaxChunks = 1
        BY <1>0, SMTT(60)
      <4>3. CASE MaxChunks = 1
        BY <1>0, <1>1, <3>1, <4>3, SMTT(60) DEF Chunk
      <4>4. CASE wn + 1 - MaxChunks < wn
        <5>1. wn < (wn + 1 - MaxChunks) + MaxChunks
          BY <1>0, SMTT(60)
        <5>2. written[widx']
          BY <1>0, <1>1, <4>1, <4>4, <5>1, SMTT(60) DEF RingInv, Chunks
        <5>3. QED BY <1>1, <1>3, <2>1, <5>2
      <4>5. QED BY <4>2, <4>3, <4>4
    <3>4. QED BY <1>0, <3>2, <3>3, SMTT(60)
  <2>2. wpc' \notin {"fill", "reset"}
    BY DEF Publish
  <2>3. QED BY <2>1, <2>2 DEF WriterInv, Publish, readerVars
<1>8. ReaderInv'
  <2>1. ASSUME NEW r \in Reader, rpc[r] = "written", ~saw[r], written'[ridx[r]]
        PROVE  rn[r] < wn'
    <3>1. CASE ridx[r] = widx
      BY <1>0, <1>4, <3>1, SMTT(60)
    <3>2. CASE ridx[r] # widx
      BY <1>0, <1>3, <1>4, <2>1, <3>2, SMTT(60) DEF RingInv, ReaderInv, Ready
    <3>3. QED BY <3>1, <3>2
  <2>2. \A r \in Reader : rn[r] <= wn' /\ wn' <= rn[r] + MaxChunks
    BY <1>0, <1>4, SMTT(60)
  <2>3. QED
    BY <1>0, <1>4, <2>1, <2>2, SMTT(60) DEF RingInv, ReaderInv, Ready, Publish, readerVars, Content
<1>9. QED BY <1>2, <1>6, <1>7, <1>8 DEF RingInv

(* In a chunk the reader may read is the reader's next message.             *)
LEMMA ReadableChunk ==
  ASSUME RingInv, NEW r \in Reader, rpc[r] = "read"
  PROVE  data[ridx[r]] = Content(rn[r])
<1>0. RingTypes
  BY RingTyped DEF RingInv
<1>1. /\ rn[r] \in Nat /\ ridx[r] \in Chunk /\ Turn(rn[r], ridx[r])
      /\ rn[r] < wn /\ wn <= rn[r] + MaxChunks /\ wn \in Nat /\ MaxChunks \in Nat
  BY <1>0 DEF RingInv, Positions, ReaderInv, Ready, RingTypes
<1>2. CASE wn = rn[r] + MaxChunks
  <2>1. ridx[r] = widx
    <3>1. Turn(wn, ridx[r])
      BY <1>1, <1>2, TurnPlus
    <3>2. QED BY <1>1, <3>1, TurnUnique DEF RingInv, Positions
  <2>2. written[widx]
    BY <1>1, <1>2, SMTT(60) DEF RingInv, WriterInv
  <2>3. QED BY <1>1, <2>1, <2>2 DEF RingInv, Chunks
<1>3. CASE wn # rn[r] + MaxChunks
  <2>1. wn < rn[r] + MaxChunks
    BY <1>1, <1>3, SMTT(60)
  <2>2. QED BY <1>1, <2>1 DEF RingInv, Chunks
<1>4. QED BY <1>2, <1>3

(* check() and the copy of the chunk: a clear flag and a written chunk mean *)
(* an unread message, and its chunk is left alone until it is marked.       *)
LEMMA RingRead ==
  ASSUME RingInv, NEW r \in Reader, LoadRead(r) \/ LoadWritten(r) \/ ReadChunk(r), TypeOK'
  PROVE  RingInv'
<1>0. RingTypes
  BY RingTyped DEF RingInv
<1> USE DEF RingTypes
<1>1. UNCHANGED <<written, read, data, wpc, widx, wn, wk, ridx, rn>>
  BY DEF LoadRead, LoadWritten, ReadChunk, writerVars
<1>2. Positions' /\ Chunks' /\ WriterInv'
  <2>1. Positions' /\ Chunks'
    BY <1>1, ChunksFrame DEF RingInv
  <2>2. WriterInv'
    BY <1>1 DEF RingInv, WriterInv, Content
  <2>3. QED BY <2>1, <2>2
<1>3. /\ rn[r] \in Nat /\ ridx[r] \in Chunk /\ Turn(rn[r], ridx[r])
      /\ rn[r] <= wn /\ wn <= rn[r] + MaxChunks
  BY <1>0 DEF RingInv, Positions, ReaderInv, Ready
<1>4. ASSUME NEW q \in Reader, q # r
      PROVE  rpc'[q] = rpc[q] /\ saw'[q] = saw[q] /\ seen'[q] = seen[q]
  BY <1>0, <1>4 DEF LoadRead, LoadWritten, ReadChunk
<1>5. ASSUME NEW q \in Reader, q # r PROVE Ready(q)'
  BY <1>1, <1>4, <1>5 DEF RingInv, ReaderInv, Ready, Content
<1>6. CASE LoadRead(r)
  <2>1. rpc'[r] = "written" /\ saw'[r] = read[ridx[r]][r]
    BY <1>0, <1>6 DEF LoadRead
  <2>2. ASSUME ~read[ridx[r]][r], written[ridx[r]] PROVE rn[r] < wn
    <3>1. PICK m \in Nat : Turn(m, ridx[r]) /\ m < wn /\ wn <= m + MaxChunks
      BY <1>3, <2>2 DEF RingInv, Chunks
    <3>2. read[ridx[r]][r] = (m < rn[r])
      BY <1>3, <2>2, <3>1 DEF RingInv, Chunks
    <3>3. QED BY <1>0, <1>3, <2>2, <3>1, <3>2, SMTT(60)
  <2>3. Ready(r)'
    BY <1>1, <1>3, <2>1, <2>2 DEF Ready, Content
  <2>4. QED BY <1>2, <1>5, <2>3 DEF RingInv, ReaderInv
<1>7. CASE LoadWritten(r)
  <2>1. /\ rpc'[r] \in {"read", "wait"} /\ UNCHANGED seen
        /\ rpc'[r] = "read" => written[ridx[r]] /\ ~saw[r] /\ rpc[r] = "written"
    BY <1>0, <1>7 DEF LoadWritten
  <2>2. rpc'[r] = "read" => rn[r] < wn
    BY <2>1 DEF RingInv, ReaderInv, Ready
  <2>3. Ready(r)'
    BY <1>1, <1>3, <2>1, <2>2 DEF Ready, Content
  <2>4. QED BY <1>2, <1>5, <2>3 DEF RingInv, ReaderInv
<1>8. CASE ReadChunk(r)
  <2>1. /\ rpc[r] = "read" /\ rpc'[r] = "mark" /\ seen'[r] = data[ridx[r]]
        /\ rn[r] < wn
    BY <1>0, <1>8 DEF ReadChunk, RingInv, ReaderInv, Ready
  <2>2. data[ridx[r]] = Content(rn[r])
    BY <2>1, ReadableChunk
  <2>3. Ready(r)'
    BY <1>1, <1>3, <2>1, <2>2 DEF Ready, Content
  <2>4. QED BY <1>2, <1>5, <2>3 DEF RingInv, ReaderInv
<1>9. QED BY <1>6, <1>7, <1>8

(* Marking the chunk read moves the reader past one message.                *)
LEMMA RingMark ==
  ASSUME RingInv, NEW r \in Reader, MarkRead(r), TypeOK'
  PROVE  RingInv'
<1>0. RingTypes
  BY RingTyped DEF RingInv
<1> USE DEF RingTypes
<1>1. UNCHANGED <<written, data, wpc, widx, wn, wk, saw, seen>>
  BY DEF MarkRead, writerVars
<1>2. /\ rn[r] \in Nat /\ ridx[r] \in Chunk /\ Turn(rn[r], ridx[r])
      /\ rn[r] < wn /\ wn <= rn[r] + MaxChunks /\ wn \in Nat
  BY <1>0 DEF RingInv, Positions, ReaderInv, Ready, MarkRead
<1>3. /\ rn'[r] = rn[r] + 1 /\ ridx'[r] = NextChunk(ridx[r])
      /\ rpc'[r] \in {"recv", "flag"}
      /\ \A q \in Reader : q # r => rn'[q] = rn[q] /\ ridx'[q] = ridx[q] /\ rpc'[q] = rpc[q]
  BY <1>0 DEF MarkRead
<1>4. /\ \A c \in Chunk, q \in Reader :
           read'[c][q] = IF c = ridx[r] /\ q = r THEN TRUE ELSE read[c][q]
  BY <1>0 DEF MarkRead
<1>5. Positions'
  BY <1>0, <1>1, <1>2, <1>3, TurnNext, SMTT(60) DEF RingInv, Positions
<1>6. Chunks'
  <2>1. ASSUME NEW c \in Chunk, NEW m \in Nat,
               Turn(m, c), m < wn, wn <= m + MaxChunks, wn < m + MaxChunks \/ written[c]
        PROVE  written[c] /\ data[c] = Content(m) /\ \A q \in Reader : read'[c][q] = (m < rn'[q])
    <3>1. /\ written[c] /\ data[c] = Content(m)
          /\ \A q \in Reader : read[c][q] = (m < rn[q])
      BY <2>1 DEF RingInv, Chunks
    <3>2. ASSUME c = ridx[r] PROVE m = rn[r]
      <4>1. m <= rn[r] => rn[r] <= m + MaxChunks
        BY <1>0, <1>2, <2>1, SMTT(60)
      <4>2. rn[r] # m + MaxChunks
        BY <1>0, <1>2, <2>1, SMTT(60)
      <4>3. m # rn[r] + MaxChunks
        BY <1>0, <1>2, <2>1, SMTT(60)
      <4>4. rn[r] <= m => m <= rn[r] + MaxChunks
        BY <1>0, <1>2, <2>1, SMTT(60)
      <4>5. CASE m <= rn[r]
        BY <1>2, <2>1, <3>2, <4>1, <4>2, <4>5, TurnLap
      <4>6. CASE rn[r] <= m
        BY <1>2, <2>1, <3>2, <4>3, <4>4, <4>6, TurnLap
      <4>7. QED BY <1>2, <4>5, <4>6, SMTT(60)
    <3>3. ASSUME m = rn[r] PROVE c = ridx[r]
      BY <1>2, <2>1, <3>3, TurnUnique
    <3>4. read'[c][r] = (m < rn'[r])
      <4>1. CASE c = ridx[r]
        <5>1. m < rn'[r]
          BY <1>2, <1>3, <3>2, <4>1, SMTT(60)
        <5>2. read'[c][r]
          BY <1>4, <4>1
        <5>3. read'[c][r] \in BOOLEAN
          BY <1>4, <4>1
        <5>4. QED BY <5>1, <5>2, <5>3
      <4>2. CASE c # ridx[r]
        <5>1. m # rn[r] /\ read'[c][r] = read[c][r]
          BY <1>4, <3>3, <4>2
        <5>2. (m < rn[r]) = (m < rn[r] + 1)
          BY <1>2, <5>1, SMTT(60)
        <5>3. QED BY <1>3, <3>1, <5>1, <5>2
      <4>3. QED BY <4>1, <4>2
    <3>5. ASSUME NEW q \in Reader, q # r PROVE read'[c][q] = (m < rn'[q])
      <4>1. read'[c][q] = read[c][q] /\ rn'[q] = rn[q]
        BY <1>3, <1>4, <3>5
      <4>2. QED BY <3>1, <4>1
    <3>6. QED BY <3>1, <3>4, <3>5
  <2>2. \A c \in Chunk : written[c] =>
          \E m \in Nat : Turn(m, c) /\ m < wn /\ wn <= m + MaxChunks
    BY DEF RingInv, Chunks
  <2>3. QED BY <1>1, <2>1, <2>2 DEF Chunks, Content
<1>7. WriterInv'
  <2>1. ~written[widx] => \A q \in Reader : wn < rn'[q] + MaxChunks
    BY <1>0, <1>2, <1>3, SMTT(60) DEF RingInv, WriterInv
  <2>2. ASSUME wpc = "reset", NEW q \in Reader, q < wk PROVE ~read'[widx][q]
    <3>1. ~read[widx][q] /\ ~written[widx]
      BY <2>2 DEF RingInv, WriterInv
    <3>2. widx # ridx[r] \/ q # r
      <4>1. ASSUME widx = ridx[r] PROVE FALSE
        <5>1. wn = rn[r] + MaxChunks
          <6>1. Turn(wn, ridx[r])
            BY <4>1 DEF RingInv, Positions
          <6>2. wn = rn[r] \/ wn = rn[r] + MaxChunks
            BY <1>2, <6>1, TurnLap, SMTT(60)
          <6>3. rn[r] \in Nat /\ wn \in Nat /\ rn[r] < wn
            BY <1>2
          <6>4. QED BY <6>2, <6>3, SMTT(60)
        <5>2. QED BY <1>0, <1>2, <3>1, <5>1, SMTT(60) DEF RingInv, WriterInv
      <4>2. QED BY <4>1
    <3>3. QED BY <1>0, <1>4, <3>1, <3>2
  <2>3. QED BY <1>1, <2>1, <2>2 DEF RingInv, WriterInv, Content
<1>8. ReaderInv'
  BY <1>0, <1>1, <1>2, <1>3, SMTT(60) DEF RingInv, ReaderInv, Ready, Content
<1>9. QED BY <1>5, <1>6, <1>7, <1>8 DEF RingInv

(* Every step keeps the ring invariant.                                     *)
LEMMA RingStep == RingInv /\ [Next]_vars => RingInv'
<1> SUFFICES ASSUME RingInv, [Next]_vars PROVE RingInv'
  OBVIOUS
<1>0. TypeOK' /\ TypeOK
  BY TypeStep DEF RingInv
<1>1. CASE AcquireWrite
  BY <1>0, <1>1, RingAcquire
<1>2. CASE Fill \/ ResetFlag
  BY <1>0, <1>2, RingFill
<1>3. CASE Publish
  BY <1>0, <1>3, RingPublish
<1>4. ASSUME NEW r \in Reader, LoadRead(r) \/ LoadWritten(r) \/ ReadChunk(r)
      PROVE  RingInv'
  BY <1>0, <1>4, RingRead
<1>5. ASSUME NEW r \in Reader, MarkRead(r) PROVE RingInv'
  BY <1>0, <1>5, RingMark
<1>6. CASE Enqueue \/ SendPayload \/ Notify \/ Crash
  <2>1. /\ UNCHANGED <<written, read, data, widx, wn, readerVars>>
        /\ wpc' \notin {"fill", "reset"}
    BY <1>6 DEF Enqueue, SendPayload, Notify, Crash
  <2>2. Positions' /\ Chunks'
    BY <2>1, ChunksFrame DEF RingInv, readerVars
  <2>3. WriterInv' /\ ReaderInv'
    BY <2>1 DEF RingInv, WriterInv, ReaderInv, Ready, readerVars, Content
  <2>4. QED BY <1>0, <2>2, <2>3 DEF RingInv
<1>7. ASSUME NEW r \in Reader,
             \/ Spin(r) \/ Park(r) \/ WakeCancelled(r) \/ WakeNotified(r) \/ WakeRecheck(r)
             \/ RecvPayload(r) \/ RecvTimeout(r)
      PROVE  RingInv'
  <2>1. /\ UNCHANGED <<written, read, data, writerVars, ridx, rn, saw, seen>>
        /\ rpc'[r] \in {"flag", "parked", "stopped"}
        /\ \A q \in Reader : q # r => rpc'[q] = rpc[q]
    BY <1>0, <1>7
    DEF TypeOK, Spin, Park, WakeCancelled, WakeNotified, WakeRecheck, RecvPayload, RecvTimeout, AfterWait
  <2>2. Positions' /\ Chunks'
    BY <2>1, ChunksFrame DEF RingInv, writerVars
  <2>3. WriterInv'
    BY <2>1 DEF RingInv, WriterInv, writerVars, Content
  <2>4. ReaderInv'
    BY <2>1 DEF RingInv, ReaderInv, Ready, writerVars, Content
  <2>5. QED BY <1>0, <2>2, <2>3, <2>4 DEF RingInv
<1>8. CASE UNCHANGED vars \/ \E r \in Reader : Shutdown(r)
  <2>1. UNCHANGED <<written, read, data, writerVars, readerVars>>
    BY <1>8 DEF vars, Shutdown
  <2>2. Positions' /\ Chunks'
    BY <2>1, ChunksFrame DEF RingInv, writerVars, readerVars
  <2>3. WriterInv' /\ ReaderInv'
    BY <2>1 DEF RingInv, WriterInv, ReaderInv, Ready, writerVars, readerVars, Content
  <2>4. QED BY <1>0, <2>2, <2>3 DEF RingInv
<1>9. QED
  BY <1>1, <1>2, <1>3, <1>4, <1>5, <1>6, <1>7, <1>8 DEF Next, WriterStep, ReaderStep

(* The ring invariant is an invariant of the queue.                         *)
THEOREM RingInvariant == Spec => []RingInv
  BY RingInit, RingStep, PTL DEF Spec

(* For every number of readers and chunks, with lost pings, timeouts,       *)
(* shutdowns and a writer that dies: acquire_write never laps a reader and  *)
(* acquire_read only ever yields the next message, whole.                   *)
THEOREM RingSafe == Spec => [](AtMostOneLap /\ ReadsNextMessage)
<1>1. RingInv => AtMostOneLap
  BY DEF RingInv, ReaderInv, Ready, AtMostOneLap
<1>2. RingInv => ReadsNextMessage
  BY ReadableChunk DEF RingInv, ReaderInv, Ready, ReadsNextMessage
<1>3. QED BY <1>1, <1>2, RingInvariant, PTL

-----------------------------------------------------------------------------
(* The strengthening for the broadcast FIFO: what dequeue has returned, and *)
(* which overflow payloads wait in a reader's socket, for the readers that  *)
(* do not use timeouts.                                                     *)

Returned ==
  \A r \in Patient :
    /\ count[r] = IF rpc[r] = "recv" THEN rn[r] - 1 ELSE rn[r]
    /\ rpc[r] = "recv" => count[r] \in Overflow

(* The socket holds, in order, the overflow messages the reader has not     *)
(* returned, except one that is published and not yet sent.                 *)
Waiting(r) ==
  /\ \A i \in 1 .. Len(sock[r]) :
       sock[r][i] \in Overflow /\ count[r] <= sock[r][i] /\ sock[r][i] < wn
  /\ \A i, j \in 1 .. Len(sock[r]) : i < j => sock[r][i] < sock[r][j]
  /\ \A m \in Overflow :
       count[r] <= m /\ m < wn /\ (m # wn - 1 \/ wpc \notin {"send", "crashed"}) =>
         \E i \in 1 .. Len(sock[r]) : sock[r][i] = m

Unsent ==
  wpc = "send" =>
    /\ wn - 1 \in Overflow
    /\ \A r \in Patient :
         /\ count[r] <= wn - 1
         /\ \A i \in 1 .. Len(sock[r]) : sock[r][i] < wn - 1

QueueInv == Returned /\ (\A r \in Patient : Waiting(r)) /\ Unsent

QueueTypes ==
  /\ wn \in Nat /\ rn \in [Reader -> Nat] /\ count \in [Reader -> Nat]
  /\ rpc \in [Reader -> ReaderPC] /\ sock \in [Reader -> Seq(Int)]
  /\ seen \in [Reader -> Int] /\ last \in [Reader -> Int]
  /\ MaxChunks \in Nat \ {0} /\ Overflow \subseteq Nat

(* The types of the queues, for the provers.                                *)
LEMMA QueueTyped == TypeOK => QueueTypes
  BY ShmAssumption DEF TypeOK, QueueTypes

(* Nothing is returned and nothing waits at first.                          *)
LEMMA QueueInit == Init => QueueInv
  BY ShmAssumption, SMTT(60) DEF Init, Patient, QueueInv, Returned, Waiting, Unsent

(* A reader without timeouts is a reader.                                   *)
LEMMA PatientIsReader == \A r \in Patient : r \in Reader
  BY DEF Patient

(* The payload a reader receives is the one of the chunk it has just read.  *)
LEMMA PayloadMatches ==
  ASSUME RingInv, QueueInv, NEW r \in Patient, RecvPayload(r)
  PROVE  Head(sock[r]) = count[r] /\ count[r] < wn
<1>0. QueueTypes
  BY QueueTyped DEF RingInv
<1> USE PatientIsReader
<1>1. /\ sock[r] \in Seq(Int) /\ sock[r] # <<>> /\ Len(sock[r]) \in Nat \ {0}
      /\ Head(sock[r]) = sock[r][1]
  BY <1>0, SMTT(60) DEF QueueTypes, RecvPayload
<1>2. /\ count[r] \in Nat /\ wn \in Nat /\ count[r] \in Overflow
      /\ sock[r][1] \in Int /\ count[r] <= sock[r][1] /\ sock[r][1] < wn
  BY <1>0, <1>1, SMTT(60) DEF QueueTypes, RecvPayload, QueueInv, Returned, Waiting
<1>3. CASE count[r] = wn - 1
  BY <1>1, <1>2, <1>3, SMTT(60)
<1>4. CASE count[r] # wn - 1
  <2>1. count[r] < wn
    BY <1>2, SMTT(60)
  <2>2. PICK i \in 1 .. Len(sock[r]) : sock[r][i] = count[r]
    BY <1>2, <1>4, <2>1, SMTT(60) DEF QueueInv, Waiting
  <2>3. CASE i = 1
    BY <1>1, <2>1, <2>2, <2>3
  <2>4. CASE 1 < i
    <3>1. sock[r][1] < sock[r][i]
      BY <1>1, <2>2, <2>4, SMTT(60) DEF QueueInv, Waiting
    <3>2. QED BY <1>2, <2>2, <3>1, SMTT(60)
  <2>5. QED BY <1>1, <2>2, <2>3, <2>4, SMTT(60)
<1>5. QED BY <1>2, <1>3, <1>4

(* Publishing: the new message is unreturned, and unsent if it overflows.   *)
LEMMA QueuePublish ==
  ASSUME RingInv, QueueInv, Publish
  PROVE  QueueInv'
<1>0. QueueTypes
  BY QueueTyped DEF RingInv
<1> USE PatientIsReader
<1> USE DEF QueueTypes
<1>1. /\ UNCHANGED <<sock, count, rpc, rn>> /\ wn' = wn + 1 /\ wpc = "reset"
      /\ wpc' = IF wn \in Overflow THEN "send" ELSE "notify"
  BY DEF Publish, readerVars, output
<1>2. ASSUME NEW r \in Patient
      PROVE  count[r] \in Nat /\ count[r] <= wn /\ sock[r] \in Seq(Int)
  <2>1. count[r] \in Nat /\ rn[r] \in Nat /\ wn \in Nat /\ sock[r] \in Seq(Int)
    BY <1>0
  <2>2. rn[r] <= wn /\ (count[r] = rn[r] \/ count[r] = rn[r] - 1)
    BY DEF RingInv, ReaderInv, Ready, QueueInv, Returned
  <2>3. QED BY <2>1, <2>2, SMTT(60)
<1>3. Returned'
  BY <1>1 DEF QueueInv, Returned
<1>4. ASSUME NEW r \in Patient PROVE Waiting(r)'
  <2>1. \A i \in 1 .. Len(sock[r]) :
          /\ sock[r][i] \in Overflow /\ sock[r][i] \in Int
          /\ count[r] <= sock[r][i] /\ sock[r][i] < wn
    BY <1>2, SMTT(60) DEF QueueInv, Waiting
  <2>2. ASSUME NEW m \in Overflow, count[r] <= m, m < wn',
               m # wn' - 1 \/ wpc' \notin {"send", "crashed"}
        PROVE  \E i \in 1 .. Len(sock[r]) : sock[r][i] = m
    <3>1. m \in Nat /\ m # wn
      BY <1>0, <1>1, <2>2, SMTT(60)
    <3>2. m < wn
      BY <1>0, <1>1, <2>2, <3>1, SMTT(60)
    <3>3. QED BY <1>1, <2>2, <3>2 DEF QueueInv, Waiting
  <2>3. \A i \in 1 .. Len(sock[r]) : sock[r][i] < wn'
    BY <1>0, <1>1, <2>1, SMTT(60)
  <2>4. QED BY <1>1, <2>1, <2>2, <2>3 DEF QueueInv, Waiting
<1>5. Unsent'
  <2>1. wn' - 1 = wn
    BY <1>0, <1>1, SMTT(60)
  <2>2. \A r \in Patient : \A i \in 1 .. Len(sock[r]) : sock[r][i] < wn
    BY DEF QueueInv, Waiting
  <2>3. QED BY <1>1, <1>2, <2>1, <2>2 DEF Unsent
<1>6. QED BY <1>3, <1>4, <1>5 DEF QueueInv

(* Sending: the payload goes to the end of every socket.                    *)
LEMMA QueueSend ==
  ASSUME RingInv, QueueInv, SendPayload
  PROVE  QueueInv'
<1>0. QueueTypes
  BY QueueTyped DEF RingInv
<1> USE PatientIsReader
<1> USE DEF QueueTypes
<1>1. UNCHANGED <<count, rpc, rn, wn>> /\ wpc = "send" /\ wpc' = "notify"
  BY DEF SendPayload, readerVars, output
<1>2. Returned' /\ Unsent'
  BY <1>1 DEF QueueInv, Returned, Unsent
<1>3. ASSUME NEW r \in Patient PROVE Waiting(r)'
  <2>1. sock[r] \in Seq(Int) /\ count[r] \in Nat /\ wn \in Nat
    BY <1>0
  <2>2. /\ sock'[r] = Append(sock[r], wn - 1) /\ Len(sock'[r]) = Len(sock[r]) + 1
        /\ \A i \in 1 .. Len(sock[r]) : sock'[r][i] = sock[r][i]
        /\ sock'[r][Len(sock[r]) + 1] = wn - 1
    BY <2>1, SMTT(60) DEF SendPayload
  <2>3. wn - 1 \in Overflow /\ count[r] <= wn - 1
    BY <1>1 DEF QueueInv, Unsent
  <2>4. \A i \in 1 .. Len(sock[r]) :
          /\ sock[r][i] \in Overflow /\ count[r] <= sock[r][i]
          /\ sock[r][i] < wn /\ sock[r][i] < wn - 1
    BY <1>1 DEF QueueInv, Unsent, Waiting
  <2>5. \A i \in 1 .. Len(sock'[r]) :
          sock'[r][i] \in Overflow /\ count[r] <= sock'[r][i] /\ sock'[r][i] < wn
    BY <2>1, <2>2, <2>3, <2>4, SMTT(60)
  <2>6. \A i, j \in 1 .. Len(sock'[r]) : i < j => sock'[r][i] < sock'[r][j]
    <3>1. \A i, j \in 1 .. Len(sock[r]) : i < j => sock[r][i] < sock[r][j]
      BY DEF QueueInv, Waiting
    <3>2. QED BY <2>1, <2>2, <2>4, <3>1, SMTT(60)
  <2>7. ASSUME NEW m \in Overflow, count[r] <= m, m < wn
        PROVE  \E i \in 1 .. Len(sock'[r]) : sock'[r][i] = m
    <3>1. CASE m = wn - 1
      BY <2>1, <2>2, <3>1, SMTT(60)
    <3>2. CASE m # wn - 1
      <4>1. PICK i \in 1 .. Len(sock[r]) : sock[r][i] = m
        BY <2>7, <3>2 DEF QueueInv, Waiting
      <4>2. i \in 1 .. Len(sock'[r]) /\ sock'[r][i] = m
        BY <2>1, <2>2, <4>1, SMTT(60)
      <4>3. QED BY <4>2
    <3>3. QED BY <3>1, <3>2
  <2>8. QED BY <1>1, <2>5, <2>6, <2>7 DEF Waiting
<1>4. QED BY <1>2, <1>3 DEF QueueInv

(* An inline message is returned, an overflow byte makes the reader wait.   *)
LEMMA QueueMark ==
  ASSUME RingInv, QueueInv, NEW r \in Patient, MarkRead(r)
  PROVE  /\ QueueInv' /\ count[r] = rn[r] /\ rn[r] < wn
         /\ seen[r] # OverflowByte => seen[r] = rn[r]
<1>0. QueueTypes
  BY QueueTyped DEF RingInv
<1> USE PatientIsReader
<1> USE DEF QueueTypes
<1>1. /\ UNCHANGED <<sock, wn, wpc>> /\ rpc[r] = "mark"
      /\ rn' = [rn EXCEPT ![r] = @ + 1]
  BY DEF MarkRead, writerVars
<1>2. count[r] = rn[r] /\ rn[r] \in Nat /\ rn[r] < wn /\ seen[r] = Content(rn[r]) /\ wn \in Nat
  BY <1>0, <1>1 DEF RingInv, ReaderInv, Ready, QueueInv, Returned
<1>3. ASSUME NEW q \in Patient, q # r
      PROVE  rn'[q] = rn[q] /\ rpc'[q] = rpc[q] /\ count'[q] = count[q]
  <2>1. rn'[q] = rn[q] /\ rpc'[q] = rpc[q]
    BY <1>0, <1>1, <1>3 DEF MarkRead
  <2>2. count'[q] = count[q]
    BY <1>0, <1>3 DEF MarkRead, Return, output
  <2>3. QED BY <2>1, <2>2
<1>4. CASE rn[r] \in Overflow
  <2>1. seen[r] = OverflowByte
    BY <1>2, <1>4 DEF Content
  <2>2. UNCHANGED count /\ rpc'[r] = "recv" /\ rn'[r] = rn[r] + 1
    BY <1>0, <1>1, <2>1 DEF MarkRead, output
  <2>3. Returned'
    BY <1>2, <1>3, <1>4, <2>2, SMTT(60) DEF QueueInv, Returned
  <2>4. (\A q \in Patient : Waiting(q)') /\ Unsent'
    <3>1. UNCHANGED <<sock, wn, wpc, count>>
      BY <1>1, <2>2
    <3> HIDE PatientIsReader
    <3>2. QED BY <3>1 DEF QueueInv, Waiting, Unsent
  <2>5. QED BY <1>2, <2>1, <2>3, <2>4 DEF QueueInv
<1>5. CASE rn[r] \notin Overflow
  <2>1. seen[r] = rn[r] /\ seen[r] # OverflowByte
    BY <1>2, <1>5, SMTT(60) DEF Content, OverflowByte
  <2>2. count'[r] = count[r] + 1 /\ rpc'[r] = "flag" /\ rn'[r] = rn[r] + 1
    BY <1>0, <1>1, <2>1 DEF MarkRead, Return
  <2>3. Returned'
    BY <1>2, <1>3, <2>2 DEF QueueInv, Returned
  <2>4. ASSUME NEW q \in Patient PROVE Waiting(q)'
    <3>1. CASE q = r
      <4>1. \A i \in 1 .. Len(sock[r]) :
              sock[r][i] \in Overflow /\ count[r] <= sock[r][i] /\ sock[r][i] < wn
        BY DEF QueueInv, Waiting
      <4>2. \A m \in Overflow : m \in Nat /\ (count[r] <= m <=> count'[r] <= m)
        <5>1. \A m \in Overflow : m \in Nat /\ m # rn[r]
          BY <1>0, <1>5
        <5>2. count'[r] = rn[r] + 1
          BY <1>2, <2>2
        <5>3. QED BY <1>2, <5>1, <5>2, SMTT(60)
      <4>3. QED BY <1>1, <3>1, <4>1, <4>2, SMTT(60) DEF QueueInv, Waiting
    <3>2. CASE q # r
      BY <1>1, <1>3, <3>2 DEF QueueInv, Waiting
    <3>3. QED BY <3>1, <3>2
  <2>5. Unsent'
    <3>1. ASSUME wpc = "send" PROVE count'[r] <= wn - 1
      BY <1>2, <1>5, <2>2, <3>1, SMTT(60) DEF QueueInv, Unsent
    <3>2. QED BY <1>1, <1>3, <3>1 DEF QueueInv, Unsent
  <2>6. QED BY <1>2, <2>1, <2>3, <2>4, <2>5 DEF QueueInv
<1>6. QED BY <1>4, <1>5

(* Receiving: the head of the socket is returned and leaves it.             *)
LEMMA QueueRecv ==
  ASSUME RingInv, QueueInv, NEW r \in Patient, RecvPayload(r)
  PROVE  QueueInv'
<1>0. QueueTypes
  BY QueueTyped DEF RingInv
<1> USE PatientIsReader
<1> USE DEF QueueTypes
<1>1. /\ UNCHANGED <<wn, wpc, rn>> /\ rpc[r] = "recv" /\ rpc'[r] = "flag"
      /\ sock'[r] = Tail(sock[r]) /\ count'[r] = count[r] + 1
  BY <1>0 DEF RecvPayload, Return, writerVars
<1>2. ASSUME NEW q \in Patient, q # r
      PROVE  rpc'[q] = rpc[q] /\ sock'[q] = sock[q] /\ count'[q] = count[q]
  BY <1>0, <1>2 DEF RecvPayload, Return
<1>3. sock[r][1] = count[r] /\ count[r] < wn
  <2>1. Head(sock[r]) = count[r] /\ count[r] < wn
    BY PayloadMatches
  <2>2. sock[r] \in Seq(Int) /\ sock[r] # <<>>
    BY <1>0 DEF RecvPayload
  <2>3. QED BY <2>1, <2>2, SMTT(60)
<1>4. /\ sock[r] \in Seq(Int) /\ sock[r] # <<>> /\ Len(sock[r]) \in Nat \ {0}
      /\ Len(sock'[r]) = Len(sock[r]) - 1
      /\ \A i \in 1 .. Len(sock'[r]) : sock'[r][i] = sock[r][i + 1]
      /\ count[r] \in Nat /\ wn \in Nat /\ rn[r] \in Nat
  BY <1>0, <1>1, SMTT(60) DEF RecvPayload
<1>5. Returned'
  BY <1>1, <1>2, <1>4, SMTT(60) DEF QueueInv, Returned
<1>6. /\ \A i \in 1 .. Len(sock[r]) :
           sock[r][i] \in Overflow /\ count[r] <= sock[r][i] /\ sock[r][i] < wn
      /\ \A i, j \in 1 .. Len(sock[r]) : i < j => sock[r][i] < sock[r][j]
  BY DEF QueueInv, Waiting
<1>7. Waiting(r)'
  <2>1. ASSUME NEW i \in 1 .. Len(sock'[r])
        PROVE  /\ sock'[r][i] \in Overflow /\ count'[r] <= sock'[r][i]
               /\ sock'[r][i] < wn /\ sock'[r][i] \in Int
    <3>1. i + 1 \in 1 .. Len(sock[r]) /\ 1 \in 1 .. Len(sock[r]) /\ 1 < i + 1
      BY <1>4, SMTT(60)
    <3>2. /\ sock[r][i + 1] \in Overflow /\ sock[r][i + 1] < wn
          /\ sock[r][1] < sock[r][i + 1] /\ sock[r][i + 1] \in Int
      BY <1>4, <1>6, <3>1, SMTT(60)
    <3>3. QED BY <1>1, <1>3, <1>4, <3>2, SMTT(60)
  <2>2. ASSUME NEW i \in 1 .. Len(sock'[r]), NEW j \in 1 .. Len(sock'[r]), i < j
        PROVE  sock'[r][i] < sock'[r][j]
    <3>1. i + 1 \in 1 .. Len(sock[r]) /\ j + 1 \in 1 .. Len(sock[r]) /\ i + 1 < j + 1
      BY <1>4, <2>2, SMTT(60)
    <3>2. QED BY <1>4, <1>6, <3>1
  <2>3. ASSUME NEW m \in Overflow, count'[r] <= m, m < wn,
               m # wn - 1 \/ wpc \notin {"send", "crashed"}
        PROVE  \E i \in 1 .. Len(sock'[r]) : sock'[r][i] = m
    <3>1. m \in Nat /\ count[r] < m
      BY <1>0, <1>1, <1>4, <2>3, SMTT(60)
    <3>2. PICK i \in 1 .. Len(sock[r]) : sock[r][i] = m
      BY <1>4, <2>3, <3>1, SMTT(60) DEF QueueInv, Waiting
    <3>3. i # 1
      BY <1>3, <1>4, <3>1, <3>2, SMTT(60)
    <3>4. i - 1 \in 1 .. Len(sock'[r]) /\ sock'[r][i - 1] = m
      <4>1. i - 1 \in 1 .. Len(sock'[r]) /\ (i - 1) + 1 = i
        BY <1>4, <3>2, <3>3, SMTT(60)
      <4>2. sock'[r][i - 1] = sock[r][(i - 1) + 1]
        BY <1>4, <4>1
      <4>3. QED BY <3>2, <4>1, <4>2
    <3>5. QED BY <3>4
  <2>4. QED BY <1>1, <2>1, <2>2, <2>3 DEF Waiting
<1>8. ASSUME NEW q \in Patient, q # r PROVE Waiting(q)'
  BY <1>1, <1>2, <1>8, SMTT(60) DEF QueueInv, Waiting
<1>9. Unsent'
  <2>1. ASSUME wpc = "send"
        PROVE  /\ count'[r] <= wn - 1
               /\ \A i \in 1 .. Len(sock'[r]) : sock'[r][i] < wn - 1
    <3>1. \A i \in 1 .. Len(sock[r]) : sock[r][i] < wn - 1
      BY <2>1 DEF QueueInv, Unsent
    <3>2. count[r] < wn - 1
      BY <1>3, <1>4, <3>1, SMTT(60)
    <3>3. ASSUME NEW i \in 1 .. Len(sock'[r]) PROVE sock'[r][i] < wn - 1
      <4>1. i + 1 \in 1 .. Len(sock[r])
        BY <1>4, SMTT(60)
      <4>2. QED BY <1>4, <3>1, <4>1
    <3>4. QED BY <1>1, <1>4, <3>2, <3>3, SMTT(60)
  <2>2. QED BY <1>1, <1>2, <2>1 DEF QueueInv, Unsent
<1>10. QED BY <1>5, <1>7, <1>8, <1>9 DEF QueueInv

(* What a reader with timeouts does, the others do not notice.              *)
LEMMA TimedReader ==
  ASSUME RingInv, NEW r \in Reader, r \notin Patient,
         MarkRead(r) \/ RecvPayload(r) \/ RecvTimeout(r)
  PROVE  /\ UNCHANGED <<wn, wpc>>
         /\ \A q \in Patient : /\ rn'[q] = rn[q] /\ rpc'[q] = rpc[q] /\ sock'[q] = sock[q]
                              /\ count'[q] = count[q] /\ last'[q] = last[q]
<1>0. QueueTypes
  BY QueueTyped DEF RingInv
<1>1. UNCHANGED <<wn, wpc>>
  BY DEF MarkRead, RecvPayload, RecvTimeout, writerVars
<1>2. ASSUME NEW q \in Patient
      PROVE  /\ rn'[q] = rn[q] /\ rpc'[q] = rpc[q] /\ sock'[q] = sock[q]
             /\ count'[q] = count[q] /\ last'[q] = last[q]
  <2>1. q \in Reader /\ q # r
    BY PatientIsReader
  <2>2. CASE MarkRead(r)
    <3>1. rn'[q] = rn[q] /\ rpc'[q] = rpc[q] /\ sock'[q] = sock[q]
      BY <1>0, <2>1, <2>2 DEF MarkRead, QueueTypes
    <3>2. count'[q] = count[q] /\ last'[q] = last[q]
      BY <1>0, <2>1, <2>2 DEF MarkRead, Return, output, QueueTypes
    <3>3. QED BY <3>1, <3>2
  <2>3. CASE RecvPayload(r)
    BY <1>0, <2>1, <2>3 DEF RecvPayload, Return, QueueTypes
  <2>4. CASE RecvTimeout(r)
    BY <1>0, <2>1, <2>4 DEF RecvTimeout, output, QueueTypes
  <2>5. QED BY <2>2, <2>3, <2>4
<1>3. QED BY <1>1, <1>2

(* Every step keeps the queue invariant.                                    *)
LEMMA QueueStep == RingInv /\ QueueInv /\ [Next]_vars => QueueInv'
<1> SUFFICES ASSUME RingInv, QueueInv, [Next]_vars PROVE QueueInv'
  OBVIOUS
<1>0. QueueTypes
  BY QueueTyped DEF RingInv
<1>1. CASE Publish
  BY <1>1, QueuePublish
<1>2. CASE SendPayload
  BY <1>2, QueueSend
<1>3. ASSUME NEW r \in Patient, MarkRead(r) PROVE QueueInv'
  BY <1>3, QueueMark
<1>4. ASSUME NEW r \in Patient, RecvPayload(r) PROVE QueueInv'
  BY <1>4, QueueRecv
<1>5. CASE Enqueue \/ AcquireWrite \/ Fill \/ ResetFlag \/ Notify \/ Crash
  <2>1. /\ UNCHANGED <<wn, rpc, rn, sock, count>>
        /\ wpc' # "send" /\ (wpc' = "crashed" \/ wpc \notin {"send", "crashed"})
    BY <1>5 DEF Enqueue, AcquireWrite, Fill, ResetFlag, Notify, Crash, readerVars, output
  <2>2. QED BY <2>1 DEF QueueInv, Returned, Waiting, Unsent
<1>6. ASSUME NEW r \in Reader,
             \/ LoadRead(r) \/ LoadWritten(r) \/ ReadChunk(r) \/ Spin(r) \/ Park(r)
             \/ WakeCancelled(r) \/ WakeNotified(r) \/ WakeRecheck(r)
      PROVE  QueueInv'
  <2>1. UNCHANGED <<wn, wpc, rn, sock, count>>
    <3>1. CASE LoadRead(r) \/ LoadWritten(r) \/ ReadChunk(r)
      BY <3>1 DEF LoadRead, LoadWritten, ReadChunk, writerVars, output
    <3>2. CASE Spin(r) \/ Park(r)
      BY <3>2 DEF Spin, Park, writerVars, output
    <3>3. CASE WakeCancelled(r) \/ WakeNotified(r) \/ WakeRecheck(r)
      BY <3>3 DEF WakeCancelled, WakeNotified, WakeRecheck, writerVars, output
    <3>4. QED BY <1>6, <3>1, <3>2, <3>3
  <2>2. \A q \in Reader : (rpc'[q] = "recv") = (rpc[q] = "recv")
    BY <1>0, <1>6
    DEF QueueTypes, LoadRead, LoadWritten, ReadChunk, Spin, Park, WakeCancelled, WakeNotified,
        WakeRecheck, AfterWait
  <2>3. Returned'
    BY <2>1, <2>2, PatientIsReader DEF QueueInv, Returned
  <2>4. (\A q \in Patient : Waiting(q)') /\ Unsent'
    BY <2>1 DEF QueueInv, Waiting, Unsent
  <2>5. QED BY <2>3, <2>4 DEF QueueInv
<1>7. ASSUME NEW r \in Reader, r \notin Patient,
             MarkRead(r) \/ RecvPayload(r) \/ RecvTimeout(r)
      PROVE  QueueInv'
  <2>1. /\ UNCHANGED <<wn, wpc>>
        /\ \A q \in Patient : /\ rn'[q] = rn[q] /\ rpc'[q] = rpc[q] /\ sock'[q] = sock[q]
                             /\ count'[q] = count[q]
    BY <1>7, TimedReader
  <2>2. Returned' /\ Unsent'
    BY <2>1 DEF QueueInv, Returned, Unsent
  <2>3. ASSUME NEW q \in Patient PROVE Waiting(q)'
    <3>1. Waiting(q)
      BY DEF QueueInv
    <3>2. wn' = wn /\ wpc' = wpc /\ sock'[q] = sock[q] /\ count'[q] = count[q]
      BY <2>1
    <3>3. QED BY <3>1, <3>2 DEF Waiting
  <2>4. QED BY <2>2, <2>3 DEF QueueInv
<1>8. ASSUME NEW r \in Patient, RecvTimeout(r) PROVE FALSE
  BY <1>8 DEF RecvTimeout, Patient
<1>9. CASE UNCHANGED vars \/ \E r \in Reader : Shutdown(r)
  <2>1. UNCHANGED <<wn, wpc, rpc, rn, sock, count>>
    BY <1>9 DEF vars, Shutdown, writerVars, readerVars, output
  <2>2. QED BY <2>1 DEF QueueInv, Returned, Waiting, Unsent
<1>10. QED
  BY <1>1, <1>2, <1>3, <1>4, <1>5, <1>6, <1>7, <1>8, <1>9 DEF Next, WriterStep, ReaderStep

(* One update of a function restricted to S.                                *)
LEMMA ExceptAt ==
  ASSUME NEW S, NEW f, NEW r \in S, NEW v
  PROVE  [[q \in S |-> f[q]] EXCEPT ![r] = v] = [q \in S |-> IF q = r THEN v ELSE f[q]]
<1> DEFINE g == [q \in S |-> f[q]]
<1>1. \A q \in S : g[q] = f[q]
  OBVIOUS
<1>2. DOMAIN g = S /\ g = [q \in S |-> g[q]]
  OBVIOUS
<1> HIDE DEF g
<1>3. [g EXCEPT ![r] = v] = [q \in S |-> IF q = r THEN v ELSE g[q]]
  BY <1>2
<1>4. [q \in S |-> IF q = r THEN v ELSE g[q]] = [q \in S |-> IF q = r THEN v ELSE f[q]]
  BY <1>1
<1>5. QED BY <1>3, <1>4 DEF g

(* Every step of the ring is a step of the broadcast queue or a stutter.    *)
LEMMA QueueRefines ==
  ASSUME RingInv, QueueInv, [Next]_vars
  PROVE  [Abstract!Next]_(Abstract!vars)
<1> DEFINE given  == [r \in Patient |-> count[r]]
           latest == [r \in Patient |-> last[r]]
<1>0. QueueTypes
  BY QueueTyped DEF RingInv
<1> USE DEF Abstract!Next, Abstract!vars
<1>1. CASE Publish
  <2>1. wn' = wn + 1 /\ UNCHANGED <<count, last>>
    BY <1>1 DEF Publish, output
  <2>2. ASSUME NEW r \in Patient
        PROVE  wn - given[r] < IF Overflow = {} THEN MaxChunks ELSE MaxChunks + 1
    <3>1. wn \in Nat /\ rn[r] \in Nat /\ count[r] \in Nat /\ MaxChunks \in Nat
      BY <1>0, PatientIsReader DEF QueueTypes
    <3>2. wn < rn[r] + MaxChunks
      <4>1. WriterInv /\ wpc = "reset"
        BY <1>1 DEF RingInv, Publish
      <4>2. QED BY <4>1, PatientIsReader DEF WriterInv
    <3>3. count[r] = rn[r] \/ (count[r] = rn[r] - 1 /\ Overflow # {})
      BY DEF QueueInv, Returned
    <3>4. QED BY <3>1, <3>2, <3>3, SMTT(60)
  <2>3. Abstract!Enqueue
    BY <2>1, <2>2 DEF Abstract!Enqueue
  <2>4. QED BY <2>3
<1>2. ASSUME NEW r \in Patient, count'[r] = count[r] + 1, last'[r] = count[r], count[r] < wn,
             \A q \in Patient \ {r} : count'[q] = count[q] /\ last'[q] = last[q],
             UNCHANGED wn
      PROVE  Abstract!Dequeue(r)
  <2>1. given' = [given EXCEPT ![r] = @ + 1] /\ latest' = [latest EXCEPT ![r] = given[r]]
    <3>1. \A q \in Patient : count'[q] = IF q = r THEN count[r] + 1 ELSE count[q]
      BY <1>2
    <3>2. \A q \in Patient : last'[q] = IF q = r THEN count[r] ELSE last[q]
      BY <1>2
    <3>3. given' = [given EXCEPT ![r] = @ + 1]
      <4>1. given' = [q \in Patient |-> count'[q]]
        BY DEF Patient, Reader
      <4>2. [q \in Patient |-> count'[q]]
              = [q \in Patient |-> IF q = r THEN count[r] + 1 ELSE count[q]]
        BY <3>1
      <4>3. [given EXCEPT ![r] = @ + 1]
              = [q \in Patient |-> IF q = r THEN count[r] + 1 ELSE count[q]]
        BY ExceptAt
      <4>4. QED BY <4>1, <4>2, <4>3
    <3>4. latest' = [latest EXCEPT ![r] = given[r]]
      <4>1. latest' = [q \in Patient |-> last'[q]]
        BY DEF Patient, Reader
      <4>2. [q \in Patient |-> last'[q]]
              = [q \in Patient |-> IF q = r THEN count[r] ELSE last[q]]
        BY <3>2
      <4>3. [latest EXCEPT ![r] = given[r]]
              = [q \in Patient |-> IF q = r THEN count[r] ELSE last[q]]
        BY ExceptAt
      <4>4. QED BY <4>1, <4>2, <4>3
    <3>5. QED BY <3>3, <3>4
  <2>2. given[r] < wn
    BY <1>2
  <2>3. QED BY <1>2, <2>1, <2>2 DEF Abstract!Dequeue
<1>3. ASSUME NEW r \in Patient, MarkRead(r) PROVE [Abstract!Next]_(Abstract!vars)
  <2>1. /\ count[r] = rn[r] /\ rn[r] < wn
        /\ seen[r] # OverflowByte => seen[r] = rn[r]
    BY <1>3, QueueMark
  <2>2. CASE seen[r] = OverflowByte
    <3>1. UNCHANGED <<wn, count, last>>
      BY <1>3, <2>2 DEF MarkRead, writerVars, output
    <3>2. QED BY <3>1
  <2>3. CASE seen[r] # OverflowByte
    <3>1. /\ count'[r] = count[r] + 1 /\ last'[r] = count[r] /\ count[r] < wn
          /\ \A q \in Patient \ {r} : count'[q] = count[q] /\ last'[q] = last[q]
          /\ UNCHANGED wn
      BY <1>0, <1>3, <2>1, <2>3, PatientIsReader
      DEF QueueTypes, MarkRead, Return, writerVars
    <3>2. QED BY <1>2, <3>1
  <2>4. QED BY <2>2, <2>3
<1>4. ASSUME NEW r \in Patient, RecvPayload(r) PROVE [Abstract!Next]_(Abstract!vars)
  <2>1. Head(sock[r]) = count[r] /\ count[r] < wn
    BY <1>4, PayloadMatches
  <2>2. /\ count'[r] = count[r] + 1 /\ last'[r] = count[r]
        /\ \A q \in Patient \ {r} : count'[q] = count[q] /\ last'[q] = last[q]
        /\ UNCHANGED wn
    BY <1>0, <1>4, <2>1, PatientIsReader
    DEF QueueTypes, RecvPayload, Return, writerVars
  <2>3. QED BY <1>2, <2>1, <2>2
<1>5. CASE Enqueue \/ AcquireWrite \/ Fill \/ ResetFlag \/ SendPayload \/ Notify \/ Crash
  BY <1>5 DEF Enqueue, AcquireWrite, Fill, ResetFlag, SendPayload, Notify, Crash, output
<1>6. ASSUME NEW r \in Reader,
             \/ LoadRead(r) \/ LoadWritten(r) \/ ReadChunk(r) \/ Spin(r) \/ Park(r)
             \/ WakeCancelled(r) \/ WakeNotified(r) \/ WakeRecheck(r) \/ RecvTimeout(r)
             \/ Shutdown(r)
      PROVE  UNCHANGED <<wn, count, last>>
  BY <1>6
  DEF LoadRead, LoadWritten, ReadChunk, Spin, Park, WakeCancelled, WakeNotified, WakeRecheck,
      RecvTimeout, Shutdown, writerVars, output
<1>7. ASSUME NEW r \in Reader, r \notin Patient, MarkRead(r) \/ RecvPayload(r)
      PROVE  UNCHANGED Abstract!vars
  <2>1. UNCHANGED wn /\ \A q \in Patient : count'[q] = count[q] /\ last'[q] = last[q]
    BY <1>7, TimedReader
  <2>2. given' = given /\ latest' = latest
    BY <2>1
  <2>3. QED BY <2>1, <2>2
<1>8. CASE UNCHANGED vars
  BY <1>8 DEF vars, writerVars, output
<1>9. QED
  BY <1>1, <1>3, <1>4, <1>5, <1>6, <1>7, <1>8 DEF Next, WriterStep, ReaderStep

(* For every number of readers, chunks and messages, inline or overflowing, *)
(* with lost notifications, readers that are shut down and a writer that    *)
(* may die at any point: enqueue and dequeue implement a broadcast FIFO for *)
(* the readers that pass dequeue no timeout, whatever the other readers do. *)
THEOREM RingImplementsQueue == Spec => ImplementsQueue
<1>1. Init => Abstract!Init
  BY DEF Init, Abstract!Init, Patient
<1>2. Spec => []QueueInv
  BY QueueInit, QueueStep, RingInvariant, PTL DEF Spec
<1>3. RingInv /\ QueueInv /\ [Next]_vars => [Abstract!Next]_(Abstract!vars)
  BY QueueRefines
<1>4. QED
  BY <1>1, <1>2, <1>3, RingInvariant, PTL DEF Spec, ImplementsQueue, Abstract!Spec
=============================================================================
