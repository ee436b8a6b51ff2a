-------------------------- MODULE MultiprocExecutor --------------------------
(* RPCs from the engine core to its worker processes                        *)
(* (vllm/v1/executor/multiproc_executor.py): collective_rpc broadcasts a    *)
(* call, every worker runs the calls in order and answers through its own   *)
(* response queue, in asynchronous scheduling by way of an output thread;   *)
(* answers carry no call number, and FutureWrapper pairs them with calls by *)
(* draining the futures in the order they were made.                        *)
(*                                                                          *)
(* The queues are the broadcast FIFOs that ShmBroadcast implements.  An     *)
(* answer is the number of the call it answers and whether it succeeded.    *)
EXTENDS Integers, Sequences, Functions

CONSTANTS
  NWorker,     \* world_size
  MaxCalls,    \* bound: number of calls
  Configs      \* the configurations the engine may be started with

Worker == 0 .. NWorker - 1
OutputRank == NWorker - 1    \* _get_output_rank with one worker per stage
All == NWorker               \* output_rank is None: every worker answers
Call == 1 .. MaxCalls

ASSUME ExecutorAssumption ==
  /\ NWorker \in Nat \ {0} /\ MaxCalls \in Nat
  /\ Configs \subseteq [async : BOOLEAN, timeouts : BOOLEAN, aggregated : BOOLEAN,
                         tolerant : BOOLEAN]

VARIABLES
  config,     \* the configuration, fixed when the engine starts
  calls,      \* the calls broadcast so far: output_rank and whether timed
  taken,      \* number of calls each worker has taken from the broadcast
  outq,       \* each worker's async_output_queue
  resp,       \* each worker's response queue
  futures,    \* futures_queue, oldest first
  outcome,    \* of each call: "none", "ok" or "error"
  used,       \* used[c][w]: the call whose answer by w went into c's result
  wait,       \* the call whose result() the engine is in, 0 if in none
  cur,        \* the future being served, 0 if none
  at,         \* the rank whose queue get_response reads next
  dead,       \* worker processes that have exited
  isFailed,   \* is_failed
  shut        \* the response queues are shut down

workerVars == <<taken, outq, dead>>
engineVars == <<futures, outcome, used, wait, cur, at>>
vars == <<config, calls, workerVars, resp, engineVars, isFailed, shut>>

Async == config.async              \* use_async_scheduling
Timeouts == config.timeouts        \* whether a call may carry a timeout
Aggregated == config.aggregated    \* a connector's output aggregator is configured
Tolerant == config.tolerant        \* the engine goes on after an RPC raised

Answer == [call : Call, ok : BOOLEAN]

Init ==
  /\ config \in Configs
  /\ calls = <<>>
  /\ taken = [w \in Worker |-> 0]
  /\ outq = [w \in Worker |-> <<>>]
  /\ resp = [w \in Worker |-> <<>>]
  /\ futures = <<>>
  /\ outcome = [c \in Call |-> "none"]
  /\ used = [c \in Call |-> [w \in Worker |-> 0]]
  /\ wait = 0 /\ cur = 0 /\ at = 0
  /\ dead = {} /\ isFailed = FALSE /\ shut = FALSE

-----------------------------------------------------------------------------
(* The engine's thread.                                                     *)

(* An error of execute_model ends the engine's loop; one of a utility call  *)
(* is reported to the client and the loop goes on.                          *)
Running == Tolerant \/ \A c \in Call : outcome[c] # "error"

(* collective_rpc: broadcast the call and queue its future; a blocking call *)
(* asks for the result at once.  Only execute_model and sample_tokens do    *)
(* not block, and an aggregator makes all workers answer those.             *)
CollectiveRpc(rank, timed, nonBlock) ==
  /\ wait = 0 /\ Running /\ ~isFailed /\ Len(calls) < MaxCalls
  /\ nonBlock => rank = IF Aggregated THEN All ELSE OutputRank
  /\ calls' = Append(calls, [rank |-> rank, timed |-> timed])
  /\ futures' = Append(futures, Len(calls) + 1)
  /\ wait' = IF nonBlock THEN 0 ELSE Len(calls) + 1
  /\ UNCHANGED <<config, workerVars, resp, outcome, used, cur, at, isFailed, shut>>

(* FutureWrapper.result of a future handed out before.                      *)
Result(c) ==
  /\ wait = 0 /\ Running
  /\ c \in 1 .. Len(calls) /\ outcome[c] = "none"
  /\ wait' = c
  /\ UNCHANGED <<config, calls, workerVars, resp, futures, outcome, used, cur, at, isFailed, shut>>

FirstRank(c) == IF calls[c].rank = All THEN 0 ELSE calls[c].rank
LastRank(c) == IF calls[c].rank = All THEN NWorker - 1 ELSE calls[c].rank

(* Faulty variant: the newest future is served first.                       *)
PopNewest ==
  /\ wait # 0 /\ cur = 0 /\ outcome[wait] = "none"
  /\ futures # <<>>
  /\ cur' = futures[Len(futures)]
  /\ futures' = SubSeq(futures, 1, Len(futures) - 1)
  /\ at' = FirstRank(futures[Len(futures)])
  /\ UNCHANGED <<config, calls, workerVars, resp, outcome, used, wait, isFailed, shut>>

(* Faulty variant: the future served stays in the queue until it is done.   *)
PopPeeks ==
  /\ wait # 0 /\ cur = 0 /\ outcome[wait] = "none"
  /\ futures # <<>>
  /\ cur' = Head(futures)
  /\ at' = FirstRank(Head(futures))
  /\ UNCHANGED <<config, calls, workerVars, resp, futures, outcome, used, wait, isFailed, shut>>

(* While the future is not done, result() serves the oldest one.            *)
Pop ==
  /\ wait # 0 /\ cur = 0 /\ outcome[wait] = "none"
  /\ futures # <<>>
  /\ cur' = Head(futures)
  /\ futures' = Tail(futures)
  /\ at' = FirstRank(Head(futures))
  /\ UNCHANGED <<config, calls, workerVars, resp, outcome, used, wait, isFailed, shut>>

(* _wait_for_response ends with a result or an exception.                   *)
Finish(o) ==
  /\ outcome' = [outcome EXCEPT ![cur] = o]
  /\ cur' = 0

(* get_response: one answer from each response queue in turn; an answer     *)
(* that failed raises and the queues after it are not read.                 *)
Receive ==
  /\ cur # 0 /\ resp[at] # <<>>
  /\ resp' = [resp EXCEPT ![at] = Tail(@)]
  /\ \/ /\ ~Head(resp[at]).ok
        /\ Finish("error")
        /\ UNCHANGED <<used, at>>
     \/ /\ Head(resp[at]).ok
        /\ used' = [used EXCEPT ![cur][at] = Head(resp[at]).call]
        /\ IF at = LastRank(cur)
           THEN Finish("ok") /\ UNCHANGED at
           ELSE at' = at + 1 /\ UNCHANGED <<outcome, cur>>
  /\ UNCHANGED <<config, calls, workerVars, futures, wait, isFailed, shut>>

(* The deadline passes before the next answer is there.                     *)
Timeout ==
  /\ cur # 0 /\ calls[cur].timed /\ resp[at] = <<>>
  /\ Finish("error")
  /\ UNCHANGED <<config, calls, workerVars, resp, futures, used, wait, at, isFailed, shut>>

(* The queue was shut down: its blocked dequeue raises.                     *)
Cancelled ==
  /\ cur # 0 /\ shut /\ resp[at] = <<>>
  /\ Finish("error")
  /\ UNCHANGED <<config, calls, workerVars, resp, futures, used, wait, at, isFailed, shut>>

(* The future is done: result() returns or raises.                          *)
Return ==
  /\ wait # 0 /\ outcome[wait] # "none"
  /\ wait' = 0
  /\ UNCHANGED <<config, calls, workerVars, resp, futures, outcome, used, cur, at, isFailed, shut>>

EngineStep == Pop \/ Receive \/ Timeout \/ Cancelled \/ Return

-----------------------------------------------------------------------------
(* A worker process.                                                        *)

(* Whether w answers call c.                                                *)
Answers(w, c) == calls[c].rank \in {All, w}

(* _execute_worker_rpc; handle_output hands the output (or the exception)   *)
(* to the output thread in asynchronous scheduling.                         *)
Execute(w) ==
  /\ w \notin dead /\ taken[w] < Len(calls)
  /\ taken' = [taken EXCEPT ![w] = @ + 1]
  /\ \E ok \in BOOLEAN :
       LET answer == [call |-> taken[w] + 1, ok |-> ok]
       IN  IF ~Answers(w, taken[w] + 1) THEN UNCHANGED <<outq, resp>>
           ELSE IF Async THEN /\ outq' = [outq EXCEPT ![w] = Append(@, answer)]
                              /\ UNCHANGED resp
           ELSE /\ resp' = [resp EXCEPT ![w] = Append(@, answer)]
                /\ UNCHANGED outq
  /\ UNCHANGED <<config, calls, dead, engineVars, isFailed, shut>>

(* async_output_busy_loop: get_output may still raise.                      *)
SendOutput(w) ==
  /\ w \notin dead /\ outq[w] # <<>>
  /\ outq' = [outq EXCEPT ![w] = Tail(@)]
  /\ \E ok \in BOOLEAN :
       resp' = [resp EXCEPT ![w] =
                  Append(@, [call |-> Head(outq[w]).call, ok |-> Head(outq[w]).ok /\ ok])]
  /\ UNCHANGED <<config, calls, taken, dead, engineVars, isFailed, shut>>

WorkerStep(w) == Execute(w) \/ SendOutput(w)

Die(w) ==
  /\ w \notin dead
  /\ dead' = dead \cup {w}
  /\ UNCHANGED <<config, calls, taken, outq, resp, engineVars, isFailed, shut>>

-----------------------------------------------------------------------------
(* The monitor thread (start_worker_monitor).                               *)

(* Faulty variant: the response queues are not shut down.                   *)
ShutdownForgets ==
  /\ isFailed /\ ~shut
  /\ dead' = Worker
  /\ UNCHANGED <<config, calls, taken, outq, resp, engineVars, isFailed, shut>>

(* shutdown(): the workers are terminated, then the queues shut down.       *)
Shutdown ==
  /\ isFailed /\ ~shut
  /\ dead' = Worker
  /\ shut' = TRUE
  /\ UNCHANGED <<config, calls, taken, outq, resp, engineVars, isFailed>>

Monitor ==
  /\ dead # {} /\ ~isFailed
  /\ isFailed' = TRUE
  /\ UNCHANGED <<config, calls, workerVars, resp, engineVars, shut>>

-----------------------------------------------------------------------------
Next ==
  \/ \E rank \in {OutputRank, All}, timed \in IF Timeouts THEN BOOLEAN ELSE {FALSE},
        nonBlock \in BOOLEAN : CollectiveRpc(rank, timed, nonBlock)
  \/ \E c \in Call : Result(c)
  \/ EngineStep
  \/ \E w \in Worker : WorkerStep(w) \/ Die(w)
  \/ Monitor \/ Shutdown

Spec == Init /\ [][Next]_vars

(* Every thread and process runs on; the engine may stop making calls.      *)
FairSpec ==
  /\ Spec
  /\ WF_vars(EngineStep)
  /\ \A w \in Worker : WF_vars(Execute(w)) /\ WF_vars(SendOutput(w))
  /\ WF_vars(Monitor) /\ WF_vars(Shutdown)

-----------------------------------------------------------------------------
(* Types of the queues and books; at is a rank the executor has a queue of. *)
TypeOK ==
  /\ calls \in Seq([rank : Worker \cup {All}, timed : BOOLEAN])
  /\ taken \in [Worker -> 0 .. MaxCalls]
  /\ outq \in [Worker -> Seq(Answer)] /\ resp \in [Worker -> Seq(Answer)]
  /\ futures \in Seq(Call)
  /\ outcome \in [Call -> {"none", "ok", "error"}]
  /\ used \in [Call -> [Worker -> 0 .. MaxCalls]]
  /\ wait \in 0 .. MaxCalls /\ cur \in 0 .. MaxCalls /\ at \in Worker
  /\ dead \subseteq Worker /\ isFailed \in BOOLEAN /\ shut \in BOOLEAN

(* Every future that is not done is queued once or being served, so the     *)
(* loop of result() ends before futures_queue.pop() finds the queue empty,  *)
(* whichever future is asked for first and whatever raises.                 *)
UndoneAreQueued ==
  /\ TypeOK
  /\ {c \in 1 .. Len(calls) : outcome[c] = "none"} = Range(futures) \cup ({cur} \ {0})
  /\ cur \notin Range(futures)
  /\ \A i, j \in 1 .. Len(futures) : i < j => futures[i] < futures[j]

(* collective_rpc returns "A list containing the results from each worker": *)
(* the results of this call, not those another call has left in a queue.    *)
(* It holds while every worker's answer to a failed call is read or the     *)
(* engine stops at the failure.                                             *)
ResultsOfOwnCall ==
  ~Timeouts /\ ~Aggregated /\ ~Tolerant =>
    \A c \in Call : outcome[c] = "ok" =>
      \A w \in FirstRank(c) .. LastRank(c) : used[c][w] = c

(* A call whose result is awaited returns or raises, even if a worker dies  *)
(* before it answers.                                                       *)
EveryWaitEnds == (wait # 0) ~> (wait = 0)
=============================================================================
