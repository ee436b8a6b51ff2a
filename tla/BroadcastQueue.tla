--------------------------- MODULE BroadcastQueue ---------------------------
(* What a MessageQueue of vllm/distributed/device_communicators/            *)
(* shm_broadcast.py promises its users: one writer, a fixed set of readers, *)
(* and every reader is given the messages 0, 1, 2, ... in the order they    *)
(* were enqueued, each exactly once, with at most Capacity messages that    *)
(* some reader has not been given.  ShmBroadcast implements it.             *)
EXTENDS Integers

CONSTANTS Reader, Capacity

VARIABLES
  sent,     \* number of messages enqueued
  count,    \* count[r]: number of messages given to r
  last      \* last[r]: the message given to r last, -1 before the first

vars == <<sent, count, last>>

Init ==
  /\ sent = 0
  /\ count = [r \in Reader |-> 0]
  /\ last = [r \in Reader |-> -1]

Enqueue ==
  /\ \A r \in Reader : sent - count[r] < Capacity
  /\ sent' = sent + 1
  /\ UNCHANGED <<count, last>>

Dequeue(r) ==
  /\ count[r] < sent
  /\ last' = [last EXCEPT ![r] = count[r]]
  /\ count' = [count EXCEPT ![r] = @ + 1]
  /\ UNCHANGED sent

Next == Enqueue \/ \E r \in Reader : Dequeue(r)

Spec == Init /\ [][Next]_vars
=============================================================================
