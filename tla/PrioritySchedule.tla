-------------------------- MODULE PrioritySchedule --------------------------
(***************************************************************************)
(* The scheduling policies "fcfs" and "priority", with prefix caching of   *)
(* full-attention blocks: Scheduler.schedule one request at a time, the    *)
(* step it yields, and update_from_output (synchronous scheduling).        *)
(*                                                                         *)
(* Under "priority" the victim of a preemption is the running request that *)
(* sorts last, wherever it stands in the running list.  It may have been   *)
(* given its tokens, its blocks and its entries in the prefix cache in the *)
(* very step that now preempts it.                                         *)
(*                                                                         *)
(* A block's hash, and what the worker has written into a block, are       *)
(* abstracted to the prefix of tokens that ends with the block.            *)
(***************************************************************************)
EXTENDS Integers, Sequences, FiniteSets, SequencesExt

CONSTANTS
  Req,
  Configs,        \* the configurations the engine may be started with
  BlockSize,
  Budget,         \* max_num_scheduled_tokens
  Threshold,      \* long_prefill_token_threshold, 0 when there is none
  Stream,         \* Stream[r]: the tokens of r, its outputs included
  NumPrompt,
  Priority,       \* Priority[r]: smaller is served first
  None

ASSUME PriorityAssumption ==
  /\ BlockSize \in Nat \ {0} /\ Budget \in Nat \ {0} /\ Threshold \in Nat
  /\ \A r \in Req : NumPrompt[r] \in 1 .. Len(Stream[r]) - 1 /\ Priority[r] \in Int
  /\ Configs \subseteq [policy : {"fcfs", "priority"}, num_gpu_blocks : Nat,
                         max_num_running : Nat \ {0}, watermark : Nat,
                         reserve_full : BOOLEAN]

VARIABLES
  config,     \* the configuration, fixed when the engine starts
  req,        \* Request: status, num_computed_tokens, num_tokens
  arrived,    \* the requests in the order of their arrival_time
  waiting, running,
  pool,       \* BlockPool: free queue, ref_cnt, block_hash
  table, num_cached_block,
  step,       \* the step under construction
  content     \* what the worker has written into each block

vars == <<config, req, arrived, waiting, running, pool, table, num_cached_block,
          step, content>>

Policy        == config.policy
MaxNumRunning == config.max_num_running
Watermark     == config.watermark      \* watermark_blocks
ReserveFull   == config.reserve_full   \* scheduler_reserve_full_isl
Block         == 1 .. config.num_gpu_blocks

Cdiv(n) == (n + BlockSize - 1) \div BlockSize
Least(a, b) == IF a <= b THEN a ELSE b
Prefix(r, n) == SubSeq(Stream[r], 1, n)
Garbage == <<0>>

Idle == [phase |-> "idle", idx |-> 1, left |-> Budget, threshold |-> 0,
         rows |-> <<>>, victims |-> {}]

Init ==
  /\ config \in Configs
  /\ req = [r \in Req |-> [status |-> "new", computed |-> 0, tokens |-> NumPrompt[r]]]
  /\ arrived = <<>> /\ waiting = <<>> /\ running = <<>>
  /\ pool = [free |-> [b \in Block |-> b], ref |-> [b \in Block |-> 0],
             hash |-> [b \in Block |-> None]]
  /\ table = [r \in Req |-> <<>>]
  /\ num_cached_block = [r \in Req |-> 0]
  /\ step = Idle
  /\ content = [b \in Block |-> Garbage]

\* Request.__lt__: by priority, then by arrival time.
Before(r, s) ==
  \/ Priority[r] < Priority[s]
  \/ Priority[r] = Priority[s]
     /\ \E i, j \in 1 .. Len(arrived) : arrived[i] = r /\ arrived[j] = s /\ i < j

\* BlockPool.free_blocks: blocks nobody holds any more become free, the ones
\* without a hash at the front of the queue, cached ones at its end.
FreeBlocks(p, blocks) ==
  LET gone == SelectSeq(blocks, LAMBDA b : p.ref[b] = 1) IN
  [p EXCEPT
     !.ref  = [b \in Block |-> IF b \in ToSet(blocks) THEN @[b] - 1 ELSE @[b]],
     !.free = SelectSeq(gone, LAMBDA b : p.hash[b] = None) \o @
              \o SelectSeq(gone, LAMBDA b : p.hash[b] # None)]

\* touch, then get_new_blocks, which evicts what the new blocks cached.
Allocate(p, hits, k) ==
  LET rest == SelectSeq(p.free, LAMBDA b : b \notin ToSet(hits))
      new  == SubSeq(rest, 1, k)
  IN [p EXCEPT !.free = SubSeq(rest, k + 1, Len(rest)),
               !.ref  = [b \in Block |-> IF b \in ToSet(hits) \cup ToSet(new)
                                         THEN @[b] + 1 ELSE @[b]],
               !.hash = [b \in Block |-> IF b \in ToSet(new) THEN None ELSE @[b]]]

\* cache_blocks: the blocks that n computed tokens fill, up to the known ones.
FullAfter(r, n) == Least(n, req[r].tokens) \div BlockSize

Cached(p, r, t, from, to) ==
  [p EXCEPT !.hash = [b \in Block |->
     LET at == {i \in from + 1 .. to : t[i] = b} IN
     IF at = {} THEN @[b] ELSE Prefix(r, (CHOOSE i \in at : TRUE) * BlockSize)]]

\* allocate_slots for n tokens of r after the blocks hits; Fits when the free
\* queue suffices, and Admissible when it also leaves the watermark and, if so
\* configured, holds all the known tokens of a request that is not running yet.
NumNeeded(r, hits, n) ==
  Cdiv(req[r].computed + Len(hits) * BlockSize + n) - Len(table[r]) - Len(hits)
NumToAllocate(r, hits, n) ==
  NumNeeded(r, hits, n) + Len(SelectSeq(hits, LAMBDA b : pool.ref[b] = 0))
\* Mutant: the watermark is kept even when nothing runs.
AdmissibleAlways(r, hits, n) ==
  LET rest == req[r].tokens - Len(hits) * BlockSize
  IN \A k \in {n} \cup (IF ReserveFull THEN {rest} ELSE {}) :
       NumToAllocate(r, hits, k) + Watermark <= Len(pool.free)

Fits(r, hits, n) == NumToAllocate(r, hits, n) <= Len(pool.free)
Admissible(r, hits, n) ==
  LET headroom == IF running = <<>> THEN 0 ELSE Watermark
      rest     == req[r].tokens - Len(hits) * BlockSize
  IN \A k \in {n} \cup (IF ReserveFull THEN {rest} ELSE {}) :
       NumToAllocate(r, hits, k) + headroom <= Len(pool.free)
AllocateSlots(r, hits, n) ==
  LET k    == NumNeeded(r, hits, n)
      rest == SelectSeq(pool.free, LAMBDA b : b \notin ToSet(hits))
      t    == table[r] \o hits \o SubSeq(rest, 1, k)
      full == FullAfter(r, req[r].computed + Len(hits) * BlockSize + n)
      from == num_cached_block[r] + Len(hits)
  IN /\ pool' = Cached(Allocate(pool, hits, k), r, t, from, full)
     /\ table' = [table EXCEPT ![r] = t]
     /\ num_cached_block' = [num_cached_block EXCEPT ![r] = IF full > from THEN full ELSE from]

Release(r) ==
  /\ pool' = FreeBlocks(pool, Reverse(table[r]))
  /\ table' = [table EXCEPT ![r] = <<>>]
  /\ num_cached_block' = [num_cached_block EXCEPT ![r] = 0]

-----------------------------------------------------------------------------
\* add_request, between two steps.
AddRequest(r) ==
  /\ step.phase = "idle" /\ req[r].status = "new"
  /\ req' = [req EXCEPT ![r].status = "waiting"]
  /\ arrived' = Append(arrived, r)
  /\ waiting' = Append(waiting, r)
  /\ UNCHANGED <<config, running, pool, table, num_cached_block, step, content>>

\* A long prefill is held back only when there is somebody to starve.
StartStep ==
  /\ step.phase = "idle" /\ waiting \o running # <<>>
  /\ step' = [Idle EXCEPT !.phase = "running",
                          !.threshold = IF Len(running \o waiting) > 1 THEN Threshold ELSE 0]
  /\ UNCHANGED <<config, req, arrived, waiting, running, pool, table, num_cached_block,
                 content>>

\* What of n tokens the threshold and the budget let one step compute.
Chunk(n) == Least(IF step.threshold > 0 THEN Least(n, step.threshold) ELSE n, step.left)

Turn == running[step.idx]
InRunningLoop == step.phase = "running" /\ step.idx <= Len(running) /\ step.left > 0
NumNewTokens(r) == Chunk(req[r].tokens - req[r].computed)

ScheduleRunning ==
  /\ InRunningLoop /\ Fits(Turn, <<>>, NumNewTokens(Turn))
  /\ AllocateSlots(Turn, <<>>, NumNewTokens(Turn))
  /\ step' = [step EXCEPT !.rows = Append(@, [req |-> Turn, n |-> NumNewTokens(Turn)]),
                          !.idx = @ + 1, !.left = @ - NumNewTokens(Turn)]
  /\ UNCHANGED <<config, req, arrived, waiting, running, content>>

\* Mutant: the first admitted is preempted.
VictimFirst ==
  IF Policy = "fcfs" THEN Head(running)
  ELSE CHOOSE v \in ToSet(running) : \A r \in ToSet(running) \ {v} : Before(r, v)

\* The request to preempt: the last to be served, or the last admitted.
Victim ==
  IF Policy = "fcfs" THEN Last(running)
  ELSE CHOOSE v \in ToSet(running) : \A r \in ToSet(running) \ {v} : Before(r, v)

IndexIn(s, r) == CHOOSE i \in 1 .. Len(s) : s[i] = r

\* Mutant: the tokens of a victim scheduled in this step are not given back.
WithoutVictimSpent(v) ==
  [step EXCEPT !.rows = SelectSeq(@, LAMBDA row : row.req # v),
               !.idx = IF IndexIn(running, v) < step.idx THEN @ - 1 ELSE @,
               !.victims = @ \cup {v},
               !.phase = IF v = Turn THEN "done" ELSE @]

\* What schedule has decided so far, with the victim taken back out of it.
WithoutVictim(v) ==
  LET given == SelectSeq(step.rows, LAMBDA row : row.req = v) IN
  [step EXCEPT !.rows = SelectSeq(@, LAMBDA row : row.req # v),
               !.left = IF given = <<>> THEN @ ELSE @ + given[1].n,
               !.idx = IF IndexIn(running, v) < step.idx THEN @ - 1 ELSE @,
               !.victims = @ \cup {v},
               !.phase = IF v = Turn THEN "done" ELSE @]

\* No block for the request whose turn it is: preempt, and try again unless
\* the victim is that request.
PreemptRunning ==
  /\ InRunningLoop /\ ~Fits(Turn, <<>>, NumNewTokens(Turn))
  /\ Release(Victim)
  /\ req' = [req EXCEPT ![Victim].status = "preempted", ![Victim].computed = 0]
  /\ running' = SelectSeq(running, LAMBDA r : r # Victim)
  /\ waiting' = <<Victim>> \o waiting
  /\ step' = WithoutVictim(Victim)
  /\ UNCHANGED <<config, arrived, content>>

\* Nothing waiting is admitted in a step that preempted.
EndRunningLoop ==
  /\ step.phase = "running" /\ ~InRunningLoop
  /\ step' = [step EXCEPT !.phase = IF step.victims = {} THEN "waiting" ELSE "done"]
  /\ UNCHANGED <<config, req, arrived, waiting, running, pool, table, num_cached_block,
                 content>>

\* peek_request
Candidate ==
  IF Policy = "fcfs" THEN Head(waiting)
  ELSE CHOOSE r \in ToSet(waiting) : \A s \in ToSet(waiting) \ {r} : Before(r, s)

\* get_computed_blocks: the longest run of cached blocks from the start that
\* leaves a token to compute.
Hits(r) ==
  LET InCache(i) == {b \in Block : pool.hash[b] = Prefix(r, i * BlockSize)}
      k == CHOOSE k \in 0 .. (req[r].tokens - 1) \div BlockSize :
             /\ \A i \in 1 .. k : InCache(i) # {}
             /\ k < (req[r].tokens - 1) \div BlockSize => InCache(k + 1) = {}
  IN FoldLeft(LAMBDA hs, i : {Append(h, b) : h \in hs, b \in InCache(i)},
              {<<>>}, [i \in 1 .. k |-> i])

NumWaitingTokens(r, hits) == Chunk(req[r].tokens - Len(hits) * BlockSize)

ScheduleWaiting ==
  /\ step.phase = "waiting" /\ step.left > 0 /\ waiting # <<>>
  /\ Len(running) < MaxNumRunning
  /\ \E hits \in Hits(Candidate) :
       LET n == NumWaitingTokens(Candidate, hits) IN
       /\ Admissible(Candidate, hits, n)
       /\ AllocateSlots(Candidate, hits, n)
       /\ req' = [req EXCEPT ![Candidate].status = "running",
                             ![Candidate].computed = Len(hits) * BlockSize]
       /\ step' = [step EXCEPT !.rows = Append(@, [req |-> Candidate, n |-> n]),
                               !.left = @ - n]
  /\ running' = Append(running, Candidate)
  /\ waiting' = SelectSeq(waiting, LAMBDA r : r # Candidate)
  /\ UNCHANGED <<config, arrived, content>>

EndWaitingLoop ==
  /\ step.phase = "waiting"
  /\ \/ step.left = 0 \/ waiting = <<>> \/ Len(running) = MaxNumRunning
     \/ /\ waiting # <<>>
        /\ \E hits \in Hits(Candidate) :
             ~Admissible(Candidate, hits, NumWaitingTokens(Candidate, hits))
  /\ step' = [step EXCEPT !.phase = "done"]
  /\ UNCHANGED <<config, req, arrived, waiting, running, pool, table, num_cached_block,
                 content>>

RowOf(r) == SelectSeq(step.rows, LAMBDA row : row.req = r)
EndOf(r) == req[r].computed + RowOf(r)[1].n

\* The worker computes the scheduled tokens; update_from_output appends a
\* token to the requests that have computed all of theirs, and finishes them.
RunStep ==
  /\ step.phase = "done"
  /\ content' = [b \in Block |->
       LET at == {<<r, i>> \in Req \X Block :
                    /\ RowOf(r) # <<>> /\ i <= Len(table[r]) /\ table[r][i] = b
                    /\ i * BlockSize > req[r].computed}
           x == CHOOSE x \in at : TRUE
       IN IF at = {} THEN content[b]
          ELSE Prefix(x[1], Least(x[2] * BlockSize, EndOf(x[1])))]
  /\ LET sampled == {r \in Req : RowOf(r) # <<>> /\ EndOf(r) = req[r].tokens}
         done    == {r \in sampled : req[r].tokens + 1 = Len(Stream[r])}
         ended   == SelectSeq(running, LAMBDA r : r \in done)
     IN /\ req' = [r \in Req |->
             [req[r] EXCEPT !.computed = IF RowOf(r) # <<>> THEN EndOf(r) ELSE @,
                            !.tokens = IF r \in sampled THEN @ + 1 ELSE @,
                            !.status = IF r \in done THEN "finished" ELSE @]]
        /\ running' = SelectSeq(running, LAMBDA r : r \notin done)
        /\ pool' = FoldLeft(LAMBDA p, r : FreeBlocks(p, Reverse(table[r])), pool, ended)
        /\ table' = [r \in Req |-> IF r \in done THEN <<>> ELSE table[r]]
        /\ num_cached_block' = [r \in Req |-> IF r \in done THEN 0 ELSE num_cached_block[r]]
  /\ step' = Idle
  /\ UNCHANGED <<config, arrived, waiting>>

Terminated ==
  /\ \A r \in Req : req[r].status = "finished"
  /\ step.phase = "idle"
  /\ UNCHANGED vars

Next ==
  \/ \E r \in Req : AddRequest(r)
  \/ StartStep \/ ScheduleRunning \/ PreemptRunning \/ EndRunningLoop
  \/ ScheduleWaiting \/ EndWaitingLoop \/ RunStep
  \/ Terminated

Spec == Init /\ [][Next]_vars
\* The engine loop keeps stepping while it has requests.
EngineStep ==
  \/ StartStep \/ ScheduleRunning \/ PreemptRunning \/ EndRunningLoop
  \/ ScheduleWaiting \/ EndWaitingLoop \/ RunStep
FairSpec == Spec /\ WF_vars(EngineStep)

-----------------------------------------------------------------------------
\* Type correctness; references are exact and the free queue holds the rest.
TypeOK ==
  /\ \A r \in Req :
       /\ req[r].status \in {"new", "waiting", "running", "preempted", "finished"}
       /\ req[r].computed \in 0 .. req[r].tokens /\ req[r].tokens <= Len(Stream[r])
       /\ ToSet(table[r]) \subseteq Block
  /\ \A b \in Block : pool.ref[b] = Cardinality({r \in Req : b \in ToSet(table[r])})
  /\ IsInjective(pool.free) /\ ToSet(pool.free) = {b \in Block : pool.ref[b] = 0}
  /\ step.left \in 0 .. Budget

\* The blocks get_computed_blocks may return "have already been computed":
\* between steps, a cached block holds the prefix its hash stands for.
CachedBlocksComputed ==
  step.phase = "idle" =>
    \A b \in Block : pool.hash[b] # None => content[b] = pool.hash[b]

\* Under "fcfs" a victim is the last of the running list, never one that the
\* step has scheduled, so hashing blocks before they are computed is safe.
FcfsCacheComputed == Policy = "fcfs" => CachedBlocksComputed

\* Under "priority" nobody keeps running, at the expense of a request
\* preempted in the same step, who would be served after it.
VictimsServedLast ==
  Policy = "priority" =>
    \A v \in step.victims : \A r \in ToSet(running) : Before(r, v)

\* Taking a scheduled victim back out of the step restores the budget and the
\* place in the running list: rows are running requests, each once, spend
\* what is missing from the budget, and everyone before the place has a row.
\* The victims are the least urgent, and the pool's books are exact (TypeOK).
StepBooksExact ==
  /\ TypeOK /\ VictimsServedLast
  /\ IsInjective([i \in DOMAIN step.rows |-> step.rows[i].req])
  /\ {step.rows[i].req : i \in DOMAIN step.rows} \subseteq ToSet(running)
  /\ step.left + FoldLeft(LAMBDA a, row : a + row.n, 0, step.rows) = Budget
  /\ step.phase = "running" =>
       \A i \in 1 .. Least(step.idx - 1, Len(running)) : RowOf(running[i]) # <<>>

\* However requests preempt one another, every request that arrives finishes.
EveryArrivalFinishes ==
  \A r \in Req : req[r].status = "waiting" ~> req[r].status = "finished"
=============================================================================
