---------------------------- MODULE ShmBroadcast ----------------------------
(* The shared-memory MessageQueue of vllm/distributed/device_communicators/ *)
(* shm_broadcast.py: a ring of max_chunks chunks, each with one written     *)
(* flag and one read flag per local reader, that the writer and the readers *)
(* load and store one at a time; a ZMQ ping that may be dropped and that    *)
(* wakes idle readers; and a ZMQ socket for the payload of a message too    *)
(* large for a chunk, which is sent after the chunk was published.          *)
(*                                                                          *)
(* The fences of the code order every flag access, so each load or store is *)
(* one step.  A message is its number.  Readers are the local ranks; remote *)
(* readers only ever use a FIFO socket and are not part of the ring.        *)
EXTENDS Integers, Sequences

CONSTANTS
  NReader,    \* n_local_reader
  MaxChunks,  \* max_chunks
  MaxMsg,     \* bound: number of messages enqueued
  Overflow,   \* the messages whose payload does not fit a chunk
  Timed,      \* the readers that call dequeue with a timeout
  Stoppable,  \* the readers whose queue may be shut down
  Crashes     \* whether the writer's process may die

Reader == 0 .. NReader - 1
Chunk == 0 .. MaxChunks - 1

ASSUME ShmAssumption ==
  /\ NReader \in Nat \ {0}
  /\ MaxChunks \in Nat \ {0}
  /\ MaxMsg \in Nat
  /\ Overflow \subseteq Nat
  /\ Timed \subseteq Reader
  /\ Stoppable \subseteq Reader
  /\ Crashes \in BOOLEAN

(* Contents of a chunk other than an inline message.                        *)
OverflowByte == -1    \* buf[0] = 1, nothing else
Torn == -2            \* never written, or being overwritten

VARIABLES
  written,    \* metadata[0] of each chunk
  read,       \* metadata[1 + rank] of each chunk
  data,       \* the chunk's bytes
  wpc,        \* where the writer is in enqueue
  widx,       \* the writer's current_idx
  wn,         \* number of messages published in the ring
  wk,         \* next read flag the writer resets
  rpc,        \* where each reader is in dequeue
  ridx,       \* each reader's current_idx
  rn,         \* number of chunks each reader has marked read
  saw,        \* the read flag a reader's check() loaded
  seen,       \* what the reader found in the chunk
  ping,       \* a notification waits in the reader's (conflated) socket
  sock,       \* overflow payloads in the reader's local_socket
  shutting,   \* readers whose queue's shutting_down is set
  count,      \* number of messages dequeue returned
  last        \* the message it returned last

writerVars == <<wpc, widx, wn, wk>>
readerVars == <<rpc, ridx, rn, saw, seen>>
output == <<count, last>>
vars == <<written, read, data, writerVars, readerVars, ping, sock, shutting, output>>

Init ==
  /\ written = [c \in Chunk |-> FALSE]
  /\ read = [c \in Chunk |-> [r \in Reader |-> FALSE]]
  /\ data = [c \in Chunk |-> Torn]
  /\ wpc = "idle" /\ widx = 0 /\ wn = 0 /\ wk = 0
  /\ rpc = [r \in Reader |-> "flag"]
  /\ ridx = [r \in Reader |-> 0]
  /\ rn = [r \in Reader |-> 0]
  /\ saw = [r \in Reader |-> FALSE]
  /\ seen = [r \in Reader |-> Torn]
  /\ ping = [r \in Reader |-> FALSE]
  /\ sock = [r \in Reader |-> <<>>]
  /\ shutting = {}
  /\ count = [r \in Reader |-> 0]
  /\ last = [r \in Reader |-> -1]

-----------------------------------------------------------------------------
(* The writer: enqueue and acquire_write.                                   *)

Enqueue ==
  /\ wpc = "idle" /\ wn < MaxMsg
  /\ wpc' = "acquire"
  /\ UNCHANGED <<written, read, data, widx, wn, wk, readerVars, ping, sock, shutting, output>>

(* check() passes: not written, or read by all; the chunk is marked not     *)
(* written and the caller starts to fill it.                                *)
AcquireWrite ==
  /\ wpc = "acquire"
  /\ written[widx] => \A r \in Reader : read[widx][r]
  /\ written' = [written EXCEPT ![widx] = FALSE]
  /\ data' = [data EXCEPT ![widx] = Torn]
  /\ wpc' = "fill"
  /\ UNCHANGED <<read, widx, wn, wk, readerVars, ping, sock, shutting, output>>

Content(m) == IF m \in Overflow THEN OverflowByte ELSE m

Fill ==
  /\ wpc = "fill"
  /\ data' = [data EXCEPT ![widx] = Content(wn)]
  /\ wpc' = "reset" /\ wk' = 0
  /\ UNCHANGED <<written, read, widx, wn, readerVars, ping, sock, shutting, output>>

(* The read flags are reset one after the other ...                         *)
ResetFlag ==
  /\ wpc = "reset" /\ wk < NReader
  /\ read' = [read EXCEPT ![widx][wk] = FALSE]
  /\ wk' = wk + 1
  /\ UNCHANGED <<written, data, wpc, widx, wn, readerVars, ping, sock, shutting, output>>

NextChunk(i) == (i + 1) % MaxChunks

(* ... and only then is the chunk marked written.                           *)
Publish ==
  /\ wpc = "reset" /\ wk = NReader
  /\ written' = [written EXCEPT ![widx] = TRUE]
  /\ widx' = NextChunk(widx)
  /\ wn' = wn + 1
  /\ wpc' = IF wn \in Overflow THEN "send" ELSE "notify"
  /\ UNCHANGED <<read, data, wk, readerVars, ping, sock, shutting, output>>

(* Faulty variant: the socket keeps only the newest payload.                *)
SendPayloadConflated ==
  /\ wpc = "send"
  /\ sock' = [r \in Reader |-> <<wn - 1>>]
  /\ wpc' = "notify"
  /\ UNCHANGED <<written, read, data, widx, wn, wk, readerVars, ping, shutting, output>>

SendPayload ==
  /\ wpc = "send"
  /\ sock' = [r \in Reader |-> Append(sock[r], wn - 1)]
  /\ wpc' = "notify"
  /\ UNCHANGED <<written, read, data, widx, wn, wk, readerVars, ping, shutting, output>>

(* SpinCondition.notify: a PUB socket with SNDHWM 1 drops what does not fit *)
(* and the readers' CONFLATE sockets keep one ping.                         *)
Notify ==
  /\ wpc = "notify"
  /\ \E lost \in SUBSET Reader :
       ping' = [r \in Reader |-> ping[r] \/ r \notin lost]
  /\ wpc' = "idle"
  /\ UNCHANGED <<written, read, data, widx, wn, wk, readerVars, sock, shutting, output>>

Crash ==
  /\ Crashes /\ wpc # "crashed"
  /\ wpc' = "crashed"
  /\ UNCHANGED <<written, read, data, widx, wn, wk, readerVars, ping, sock, shutting, output>>

-----------------------------------------------------------------------------
(* A reader: dequeue, acquire_read and SpinCondition.wait.                  *)

(* check() loads the reader's read flag and then the written flag.          *)
LoadRead(r) ==
  /\ rpc[r] = "flag"
  /\ saw' = [saw EXCEPT ![r] = read[ridx[r]][r]]
  /\ rpc' = [rpc EXCEPT ![r] = "written"]
  /\ UNCHANGED <<written, read, data, writerVars, ridx, rn, seen, ping, sock, shutting, output>>

(* Faulty variant: the read flag is ignored.                                *)
LoadWrittenOnly(r) ==
  /\ rpc[r] = "written"
  /\ rpc' = [rpc EXCEPT ![r] = IF written[ridx[r]] THEN "read" ELSE "wait"]
  /\ UNCHANGED <<written, read, data, writerVars, ridx, rn, saw, seen, ping, sock, shutting, output>>

LoadWritten(r) ==
  /\ rpc[r] = "written"
  /\ rpc' = [rpc EXCEPT ![r] =
               IF written[ridx[r]] /\ ~saw[r] THEN "read" ELSE "wait"]
  /\ UNCHANGED <<written, read, data, writerVars, ridx, rn, saw, seen, ping, sock, shutting, output>>

(* Faulty variant: shutting_down is not tested.                             *)
AfterWaitIgnored(r) == "flag"

(* wait() after a recent read only yields; shutting_down is tested next.    *)
AfterWait(r) == IF r \in shutting THEN "stopped" ELSE "flag"

Spin(r) ==
  /\ rpc[r] = "wait"
  /\ rpc' = [rpc EXCEPT ![r] = AfterWait(r)]
  /\ UNCHANGED <<written, read, data, writerVars, ridx, rn, saw, seen, ping, sock, shutting, output>>

(* After busy_loop_s without a read it polls its sockets.                   *)
Park(r) ==
  /\ rpc[r] = "wait"
  /\ rpc' = [rpc EXCEPT ![r] = "parked"]
  /\ UNCHANGED <<written, read, data, writerVars, ridx, rn, saw, seen, ping, sock, shutting, output>>

(* The poll returns on cancel() ...                                         *)
WakeCancelled(r) ==
  /\ rpc[r] = "parked" /\ r \in shutting
  /\ rpc' = [rpc EXCEPT ![r] = AfterWait(r)]
  /\ UNCHANGED <<written, read, data, writerVars, ridx, rn, saw, seen, ping, sock, shutting, output>>

(* ... on a notification, which it consumes ...                             *)
WakeNotified(r) ==
  /\ rpc[r] = "parked" /\ ping[r]
  /\ ping' = [ping EXCEPT ![r] = FALSE]
  /\ rpc' = [rpc EXCEPT ![r] = AfterWait(r)]
  /\ UNCHANGED <<written, read, data, writerVars, ridx, rn, saw, seen, sock, shutting, output>>

(* Faulty variant: the poll has no timeout.                                 *)
WakeRecheckNever(r) ==
  /\ rpc[r] = "parked" /\ r \in shutting
  /\ rpc' = [rpc EXCEPT ![r] = AfterWait(r)]
  /\ UNCHANGED <<written, read, data, writerVars, ridx, rn, saw, seen, ping, sock, shutting, output>>

(* ... and at the latest after SHM_READER_RECHECK_INTERVAL_MS.              *)
WakeRecheck(r) ==
  /\ rpc[r] = "parked"
  /\ rpc' = [rpc EXCEPT ![r] = AfterWait(r)]
  /\ UNCHANGED <<written, read, data, writerVars, ridx, rn, saw, seen, ping, sock, shutting, output>>

(* dequeue returns m.                                                       *)
Return(r, m) ==
  /\ count' = [count EXCEPT ![r] = @ + 1]
  /\ last' = [last EXCEPT ![r] = m]

(* The body of acquire_read: the reader copies the chunk ...                *)
ReadChunk(r) ==
  /\ rpc[r] = "read"
  /\ seen' = [seen EXCEPT ![r] = data[ridx[r]]]
  /\ rpc' = [rpc EXCEPT ![r] = "mark"]
  /\ UNCHANGED <<written, read, data, writerVars, ridx, rn, saw, ping, sock, shutting, output>>

(* ... and its finally clause sets the read flag.  An inline message is     *)
(* returned; for an overflow byte the payload is received next.             *)
MarkRead(r) ==
  /\ rpc[r] = "mark"
  /\ read' = [read EXCEPT ![ridx[r]][r] = TRUE]
  /\ ridx' = [ridx EXCEPT ![r] = NextChunk(@)]
  /\ rn' = [rn EXCEPT ![r] = @ + 1]
  /\ \/ /\ seen[r] = OverflowByte
        /\ rpc' = [rpc EXCEPT ![r] = "recv"]
        /\ UNCHANGED output
     \/ /\ seen[r] # OverflowByte
        /\ rpc' = [rpc EXCEPT ![r] = "flag"]
        /\ Return(r, seen[r])
  /\ UNCHANGED <<written, data, writerVars, saw, seen, ping, sock, shutting>>

(* recv: a blocking receive on local_socket.                                *)
RecvPayload(r) ==
  /\ rpc[r] = "recv" /\ sock[r] # <<>>
  /\ sock' = [sock EXCEPT ![r] = Tail(@)]
  /\ Return(r, Head(sock[r]))
  /\ rpc' = [rpc EXCEPT ![r] = "flag"]
  /\ UNCHANGED <<written, read, data, writerVars, ridx, rn, saw, seen, ping, shutting>>

(* The poll of recv times out: dequeue raises TimeoutError and the caller's *)
(* next dequeue starts over.  (A timeout in acquire_read changes nothing:   *)
(* it is a WakeRecheck.)                                                    *)
RecvTimeout(r) ==
  /\ rpc[r] = "recv" /\ sock[r] = <<>> /\ r \in Timed
  /\ rpc' = [rpc EXCEPT ![r] = "flag"]
  /\ UNCHANGED <<written, read, data, writerVars, ridx, rn, saw, seen, ping, sock, shutting, output>>

(* MessageQueue.shutdown, from the reader process's monitor thread.         *)
Shutdown(r) ==
  /\ r \in Stoppable \ shutting
  /\ shutting' = shutting \cup {r}
  /\ UNCHANGED <<written, read, data, writerVars, readerVars, ping, sock, output>>

-----------------------------------------------------------------------------
WriterStep ==
  AcquireWrite \/ Fill \/ ResetFlag \/ Publish \/ SendPayload \/ Notify

ReaderStep(r) ==
  \/ LoadRead(r) \/ LoadWritten(r)
  \/ Spin(r) \/ Park(r)
  \/ WakeCancelled(r) \/ WakeNotified(r) \/ WakeRecheck(r)
  \/ ReadChunk(r) \/ MarkRead(r) \/ RecvPayload(r) \/ RecvTimeout(r)

Next ==
  \/ Enqueue \/ WriterStep \/ Crash
  \/ \E r \in Reader : ReaderStep(r) \/ Shutdown(r)

Spec == Init /\ [][Next]_vars

(* An enqueue that has begun runs on while its process lives; the workers   *)
(* call dequeue in an endless loop (worker_busy_loop), and a poll with a    *)
(* timeout returns.                                                         *)
FairSpec ==
  /\ Spec
  /\ WF_vars(WriterStep)
  /\ \A r \in Reader : WF_vars(ReaderStep(r))

-----------------------------------------------------------------------------
WriterPC == {"idle", "acquire", "fill", "reset", "send", "notify", "crashed"}
ReaderPC == {"flag", "written", "wait", "parked", "read", "mark", "recv", "stopped"}

(* Every variable has the type of the code's flags, indices and queues.     *)
TypeOK ==
  /\ written \in [Chunk -> BOOLEAN]
  /\ read \in [Chunk -> [Reader -> BOOLEAN]]
  /\ data \in [Chunk -> Int]
  /\ wpc \in WriterPC
  /\ widx \in Chunk
  /\ wn \in Nat
  /\ wk \in 0 .. NReader
  /\ rpc \in [Reader -> ReaderPC]
  /\ ridx \in [Reader -> Chunk]
  /\ rn \in [Reader -> Nat]
  /\ saw \in [Reader -> BOOLEAN]
  /\ seen \in [Reader -> Int]
  /\ ping \in [Reader -> BOOLEAN]
  /\ sock \in [Reader -> Seq(Int)]
  /\ shutting \in SUBSET Reader
  /\ count \in [Reader -> Nat]
  /\ last \in [Reader -> Int]

(* No reader takes anything but the next message from the ring, whole:      *)
(* between a reader's check() and its copy of the chunk the writer neither  *)
(* overwrites the chunk nor laps the reader, although every flag is loaded  *)
(* and stored separately, and the reader never reads a chunk twice.         *)
ReadsNextMessage ==
  \A r \in Reader :
    /\ rpc[r] = "read" => data[ridx[r]] = Content(rn[r])
    /\ rpc[r] = "mark" => seen[r] = Content(rn[r])

(* The writer is at most one lap ahead of the slowest reader, so it never   *)
(* reuses a chunk somebody has still to read.                               *)
AtMostOneLap ==
  \A r \in Reader : rn[r] <= wn /\ wn <= rn[r] + MaxChunks

(* The readers that wait for an overflow payload however long it takes.     *)
Patient == Reader \ Timed

(* The queue implements the broadcast FIFO its users rely on: every reader  *)
(* that does not use timeouts gets every message once, in order, inline or  *)
(* through the socket, whatever readers with timeouts do next to it.  A     *)
(* reader holds at most one overflow message whose chunk is marked read.    *)
Abstract == INSTANCE BroadcastQueue
              WITH Reader <- Patient,
                   sent <- wn,
                   count <- [r \in Patient |-> count[r]],
                   last <- [r \in Patient |-> last[r]],
                   Capacity <- IF Overflow = {} THEN MaxChunks ELSE MaxChunks + 1

ImplementsQueue == Abstract!Spec

(* The writer died after publishing an overflow chunk and before sending    *)
(* its payload: nothing ends the receive of a reader without a timeout.     *)
Orphaned(r) == wpc = "crashed" /\ rpc[r] = "recv" /\ sock[r] = <<>>

(* An enqueue returns unless a reader was shut down: the ring never         *)
(* deadlocks the writer against readers that wait for it.                   *)
EnqueueReturns ==
  (wpc = "acquire") ~> (wpc \in {"idle", "crashed"} \/ shutting # {})

(* Every published message is returned to every reader that is not shut     *)
(* down, even if all notifications are lost: an idle reader looks again     *)
(* after SHM_READER_RECHECK_INTERVAL_MS.  And every enqueue returns.        *)
EveryMessageReturned ==
  /\ EnqueueReturns
  /\ \A m \in 0 .. MaxMsg - 1, r \in Patient :
       (wn > m) ~> (count[r] > m \/ r \in shutting \/ Orphaned(r))

(* shutdown() makes the reader leave dequeue: "a separate thread in the     *)
(* reader's process must be able to wake the reader so that it can exit".   *)
ShutdownStops ==
  \A r \in Reader : (r \in shutting) ~> (rpc[r] = "stopped" \/ Orphaned(r))
=============================================================================
