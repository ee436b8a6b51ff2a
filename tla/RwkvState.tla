----------------------------- MODULE RwkvState -----------------------------
(***************************************************************************)
(* The recurrent state of RWKV requests, from the scheduler to the GPU.    *)
(*                                                                         *)
(* A request has no keys and values: what it carries is one state, the     *)
(* fold of the tokens it has read.  With prefix caching ("align" mode) the *)
(* states at block boundaries are kept in the blocks of the pool, a        *)
(* request's table is mostly null blocks, and the worker copies the state  *)
(* from one block to the next before a step crosses a boundary.  Without   *)
(* prefix caching a request has one block, zeroed when it is taken.        *)
(*                                                                         *)
(* Modelled together: Scheduler.schedule and update_from_output under      *)
(* asynchronous scheduling (up to MaxInFlight steps between them), the     *)
(* MambaManager with one cache group, and in the worker finish_requests,   *)
(* add_requests, update_requests, RwkvModelState.preprocess_state and      *)
(* RwkvSampler.  The worker executes the steps in the order scheduled.     *)
(*                                                                         *)
(* A state is abstracted to the sequence of tokens folded into it; so is   *)
(* the chained hash of a block boundary.                                   *)
(***************************************************************************)
EXTENDS Integers, Sequences, FiniteSets, SequencesExt

CONSTANTS
  Req,
  Configs,        \* the configurations the engine may be started with
  MaxInFlight,    \* depth of the batch queue
  Stream,         \* Stream[r]: the tokens of r, its outputs included
  NumPrompt,
  None

ASSUME RwkvAssumption ==
  /\ MaxInFlight \in Nat \ {0}
  /\ \A r \in Req : NumPrompt[r] \in 1 .. Len(Stream[r]) - 1
  /\ \A c \in Configs :
       /\ c.align \in BOOLEAN
       /\ {c.num_gpu_blocks, c.block_size, c.budget} \subseteq Nat \ {0}
       /\ c.aborts \subseteq Req /\ c.resets \in Nat
       \* Without prefix caching a block spans the longest request.
       /\ ~c.align => \A r \in Req : Len(Stream[r]) <= c.block_size

VARIABLES
  config,     \* the configuration, fixed when the engine starts
  req,        \* Request: status, token counts, stale output
  waiting, running,
  pool,       \* BlockPool: free queue, ref_cnt, block_hash
  mgr,        \* MambaManager, per request
  cached_blocks_this_step,
  step,       \* the SchedulerOutput under construction
  finished_req_ids, preempted_req_ids,
  queue,      \* steps scheduled and not yet processed, oldest first
  executed,   \* how many of them the worker has executed
  worker,     \* per request: slot, block table, column, counter, penalties
  preserved,  \* RwkvSampler._preserved_requests: penalties of preempted requests
  state,      \* the state in each block
  dropped,    \* history: sampled tokens discarded with drop-mode stale output
  resets      \* history: calls of reset_prefix_cache

vars == <<config, req, waiting, running, pool, mgr, cached_blocks_this_step, step,
          finished_req_ids, preempted_req_ids, queue, executed, worker,
          preserved, state, dropped, resets>>

Align     == config.align           \* mamba_cache_mode is "align", not "none"
BlockSize == config.block_size
Budget    == config.budget          \* max_num_scheduled_tokens
Null      == 0
Block     == 1 .. config.num_gpu_blocks

Cdiv(n) == (n + BlockSize - 1) \div BlockSize
Least(a, b) == IF a <= b THEN a ELSE b
Most(a, b) == IF a >= b THEN a ELSE b
Prefix(r, n) == SubSeq(Stream[r], 1, n)
MaxTokens(r) == Len(Stream[r])
Garbage == <<Null>>
Nulls(k) == [i \in 1 .. k |-> Null]

NoBlocks == [table |-> <<>>, last |-> 0, retired |-> 0, cached |-> 0]
Idle == [phase |-> "idle", idx |-> 1, left |-> Budget, rows |-> <<>>,
         preempted |-> FALSE]
NoSlot == [in |-> FALSE, table |-> <<>>, column |-> -1, computed |-> 0,
           penalties |-> 0]

Init ==
  /\ config \in Configs
  /\ req = [r \in Req |-> [status |-> "waiting", computed |-> 0,
                           tokens |-> NumPrompt[r], placeholders |-> 0,
                           inflight |-> 0, stale |-> 0, drop |-> FALSE]]
  /\ waiting \in SetToSeqs(Req)
  /\ running = <<>>
  /\ pool = [free |-> [b \in Block |-> b], ref |-> [b \in Block |-> 0],
             hash |-> [b \in Block |-> None]]
  /\ mgr = [r \in Req |-> NoBlocks]
  /\ cached_blocks_this_step = {}
  /\ step = Idle
  /\ finished_req_ids = {} /\ preempted_req_ids = {}
  /\ queue = <<>> /\ executed = 0
  /\ worker = [r \in Req |-> NoSlot]
  /\ preserved = [r \in Req |-> None]
  /\ state = [b \in Block |-> Garbage]
  /\ dropped = [r \in Req |-> 0] /\ resets = 0

-----------------------------------------------------------------------------
(* The block pool.                                                         *)

\* BlockPool.free_blocks: drop one reference of each; blocks without a hash
\* go to the front of the free queue, cached ones to its end.
FreeBlocks(p, blocks) ==
  LET real == SelectSeq(blocks, LAMBDA b : b # Null)
      gone == SelectSeq(real, LAMBDA b : p.ref[b] = 1)
  IN [p EXCEPT
        !.ref  = [b \in Block |-> IF b \in ToSet(real) THEN @[b] - 1 ELSE @[b]],
        !.free = SelectSeq(gone, LAMBDA b : p.hash[b] = None) \o @
                 \o SelectSeq(gone, LAMBDA b : p.hash[b] # None)]

\* get_new_blocks(1): the head of the free queue, evicted from the cache.
TakeBlock(p) ==
  LET b == Head(p.free) IN
  [p EXCEPT !.free = Tail(@), !.ref[b] = 1, !.hash[b] = None]

\* touch
Touch(p, b) ==
  [p EXCEPT !.ref[b] = @ + 1, !.free = SelectSeq(@, LAMBDA f : f # b)]

-----------------------------------------------------------------------------
(* MambaManager.                                                           *)

\* find_longest_cache_hit: from right to left, the last boundary with a
\* cached state; a hit leaves at least one token to compute.
HitBlocks(r) ==
  LET found(i) == {b \in Block : pool.hash[b] = Prefix(r, i * BlockSize)}
      hits == {i \in 1 .. (req[r].tokens - 1) \div BlockSize : found(i) # {}}
      last == CHOOSE i \in hits : \A j \in hits : j <= i
  IN IF ~Align \/ hits = {} THEN {<<>>}
     ELSE {Append(Nulls(last - 1), b) : b \in found(last)}

\* The block at index i of the table goes back to the pool.
RetireBlock(m, p, i) ==
  [m |-> [m EXCEPT !.table[i] = Null], p |-> FreeBlocks(p, <<m.table[i]>>)]

\* remove_skipped_blocks: all but the state of the last processed token, and
\* the block the previous allocation moved away from.
RemoveSkippedBlocks(m, p, processed) ==
  LET skipped == Least(Most(processed - 1, 0) \div BlockSize, Len(m.table))
      range   == {i \in m.retired + 1 .. skipped : m.table[i] # Null}
      freed   == [k \in 1 .. Cardinality(range) |->
                    m.table[CHOOSE i \in range :
                              Cardinality({j \in range : j >= i}) = k]]
      m1 == [m EXCEPT !.table = [i \in DOMAIN @ |-> IF i \in range THEN Null ELSE @[i]],
                      !.retired = Most(@, skipped)]
      p1 == FreeBlocks(p, freed)
  IN IF ~Align THEN [m |-> m, p |-> p]
     ELSE IF m.last # 0 /\ m.last < Cdiv(processed) THEN RetireBlock(m1, p1, m.last)
     ELSE [m |-> m1, p |-> p1]

\* get_num_blocks_to_allocate: at most one real block a step, plus the hits
\* that leave the free queue.
NumBlocksToAllocate(m, p, hit, end) ==
  (IF Cdiv(end) > Len(m.table) + Len(hit) THEN 1 ELSE 0)
  + (IF hit # <<>> /\ p.ref[Last(hit)] = 0 THEN 1 ELSE 0)

\* add_local_computed_blocks: only the last hit is real.
AddHit(m, p, hit) ==
  IF hit = <<>> THEN [m |-> m, p |-> p]
  ELSE [m |-> [m EXCEPT !.table = hit, !.cached = Len(hit)], p |-> Touch(p, Last(hit))]

\* allocate_new_blocks: null blocks up to the one that will hold the state
\* at the end of the step.
AllocateNewBlocks(m, p, end) ==
  IF Cdiv(end) <= Len(m.table)
  THEN [m |-> m, p |-> p]
  ELSE [m |-> [m EXCEPT !.last = IF Align THEN Len(m.table) ELSE 0,
                        !.table = @ \o Nulls(Cdiv(end) - 1 - Len(@))
                                    \o <<Head(p.free)>>],
        p |-> TakeBlock(p)]

\* cache_blocks: the boundaries reached that have a block enter the cache.
CacheBlocks(r, m, p, n) ==
  LET new == {i \in m.cached + 1 .. n \div BlockSize : m.table[i] # Null}
      at(b) == {i \in new : m.table[i] = b}
  IN IF ~Align THEN [m |-> m, p |-> p, hashes |-> {}]
     ELSE [m |-> [m EXCEPT !.cached = Most(@, n \div BlockSize)],
           p |-> [p EXCEPT !.hash = [b \in Block |->
                    IF at(b) = {} THEN @[b]
                    ELSE Prefix(r, (CHOOSE i \in at(b) : TRUE) * BlockSize)]],
           hashes |-> {Prefix(r, i * BlockSize) : i \in new}]

-----------------------------------------------------------------------------
(* Scheduler.schedule, one request at a time.  Nothing else of the engine  *)
(* core runs while a step is under construction.                           *)

\* Mutants: chunks end anywhere; chunks end on boundaries even when a block is
\* wider than the budget.
BlockAlignedSplitOff(r, start, n) == n
BlockAlignedSplitAlways(r, start, n) ==
  LET end == ((start + n) \div BlockSize) * BlockSize IN
  IF start + n >= NumPrompt[r] THEN n ELSE Most(end - start, 0)

\* _mamba_block_aligned_split: prefill chunks end on block boundaries, so
\* that the state there can be cached.
BlockAlignedSplit(r, start, n) ==
  LET tokens      == req[r].tokens
      prefill_end == Most(NumPrompt[r], tokens - 1)
      aligned     == ((start + n) \div BlockSize) * BlockSize
      end   == IF start + n < prefill_end /\ (aligned > start \/ BlockSize <= Budget)
               THEN aligned ELSE start + n
      stops == {s \in {((tokens - 1) \div BlockSize) * BlockSize}
                      \cup (IF start % BlockSize # 0
                            THEN {(start \div BlockSize + 1) * BlockSize} ELSE {}) :
                  start < s /\ s < end}
      stop  == IF stops = {} THEN end
               ELSE CHOOSE s \in stops : \A t \in stops : s <= t
  IN IF ~Align \/ start >= prefill_end THEN n ELSE Most(stop - start, 0)

\* The worker is sent the blocks the allocation added to the table.
Row(r, n, start, fresh, old, m) ==
  [req |-> r, n |-> n, start |-> start, new |-> fresh,
   blocks |-> SubSeq(m.table, old + 1, Len(m.table)),
   sample |-> start + n = req[r].tokens + req[r].placeholders]

\* allocate_slots, when the blocks suffice: remove_skipped_blocks, the hit,
\* the new block, and cache_blocks up to the known tokens.
AllocateSlots(r, n, hit, fresh, s) ==
  LET start == req[r].computed + Len(hit) * BlockSize
      b == AddHit(s.m, s.p, hit)
      c == AllocateNewBlocks(b.m, b.p, start + n)
      d == CacheBlocks(r, c.m, c.p, Least(start + n, req[r].tokens))
  IN /\ mgr' = [mgr EXCEPT ![r] = d.m]
     /\ pool' = d.p
     /\ cached_blocks_this_step' = cached_blocks_this_step \cup d.hashes
     /\ step' = [step EXCEPT !.rows = Append(@, Row(r, n, start, fresh,
                                      IF fresh THEN 0 ELSE Len(mgr[r].table), d.m)),
                             !.idx = IF fresh THEN @ ELSE @ + 1,
                             !.left = @ - n]

\* Freeing on the processed tokens: in-flight steps still read the rest.
Skipped(r, hit) ==
  RemoveSkippedBlocks(mgr[r], pool,
    Most(0, req[r].computed + Len(hit) * BlockSize - req[r].inflight))

StartStep ==
  /\ step.phase = "idle"
  /\ Len(queue) < MaxInFlight
  /\ \/ waiting # <<>> \/ running # <<>>
     \/ finished_req_ids # {} \/ preempted_req_ids # {}
  /\ step' = [Idle EXCEPT !.phase = "running"]
  /\ cached_blocks_this_step' = {}
  /\ UNCHANGED <<config, req, waiting, running, pool, mgr, finished_req_ids,
                 preempted_req_ids, queue, executed, worker, preserved, state,
                 dropped, resets>>

Turn == running[step.idx]
InRunningLoop == step.phase = "running" /\ step.idx <= Len(running) /\ step.left > 0

\* No step is scheduled past the last token of the request.
ReachedMax(r) ==
  /\ req[r].placeholders > 0
  /\ req[r].computed + 2 - req[r].placeholders >= MaxTokens(r)

NumNewTokens(r) ==
  BlockAlignedSplit(r, req[r].computed,
    Least(req[r].tokens + req[r].placeholders - req[r].computed, step.left))

SkipRunning ==
  /\ InRunningLoop
  /\ ReachedMax(Turn) \/ NumNewTokens(Turn) = 0
  /\ step' = [step EXCEPT !.idx = @ + 1]
  /\ UNCHANGED <<config, req, waiting, running, pool, mgr, cached_blocks_this_step,
                 finished_req_ids, preempted_req_ids, queue, executed, worker,
                 preserved, state, dropped, resets>>

CanSchedule(r, s, hit, end) == NumBlocksToAllocate(s.m, s.p, hit, end) <= Len(s.p.free)

ScheduleRunning ==
  /\ InRunningLoop
  /\ ~ReachedMax(Turn)
  /\ LET n == NumNewTokens(Turn)
         s == Skipped(Turn, <<>>)
     IN /\ n > 0
        /\ CanSchedule(Turn, s, <<>>, req[Turn].computed + n)
        /\ AllocateSlots(Turn, n, <<>>, FALSE, s)
  /\ UNCHANGED <<config, req, waiting, running, finished_req_ids, preempted_req_ids,
                 queue, executed, worker, preserved, state, dropped, resets>>

\* _preempt_request: all output in flight becomes stale.
Requeued(q, drop) ==
  [q EXCEPT !.status = "preempted", !.computed = 0, !.placeholders = 0,
            !.drop = drop \/ (@ /\ q.stale > 0), !.stale = q.inflight]

\* No block left: the last running request is preempted, and the allocation
\* tried again; the loop ends when that is the request itself.
PreemptRunning ==
  /\ InRunningLoop
  /\ ~ReachedMax(Turn)
  /\ LET n == NumNewTokens(Turn)
         s == Skipped(Turn, <<>>)
         victim == Last(running)
         m1 == [mgr EXCEPT ![Turn] = s.m]
     IN /\ n > 0
        /\ ~CanSchedule(Turn, s, <<>>, req[Turn].computed + n)
        /\ pool' = FreeBlocks(s.p, Reverse(m1[victim].table))
        /\ mgr' = [m1 EXCEPT ![victim] = NoBlocks]
        /\ req' = [req EXCEPT ![victim] = Requeued(@, FALSE)]
        /\ running' = Front(running)
        /\ waiting' = <<victim>> \o waiting
        /\ preempted_req_ids' = preempted_req_ids \cup {victim}
        /\ step' = [step EXCEPT !.preempted = TRUE,
                     !.phase = IF victim = Turn THEN "done" ELSE @]
  /\ UNCHANGED <<config, cached_blocks_this_step, finished_req_ids, queue, executed,
                 worker, preserved, state, dropped, resets>>

\* The running loop is over; the waiting requests have their turn unless
\* something was preempted in this step.
EndRunningLoop ==
  /\ step.phase = "running" /\ ~InRunningLoop
  /\ step' = [step EXCEPT !.phase = IF step.preempted THEN "done" ELSE "waiting"]
  /\ UNCHANGED <<config, req, waiting, running, pool, mgr, cached_blocks_this_step,
                 finished_req_ids, preempted_req_ids, queue, executed, worker,
                 preserved, state, dropped, resets>>

\* A request whose stale output is still to be delivered is passed over.
Eligible(r) == req[r].stale = 0 \/ req[r].drop
Candidates == SelectSeq(waiting, Eligible)
Candidate == Head(Candidates)

\* The chunk of a waiting request after a prefix cache hit.
NumWaitingTokens(r, hit) ==
  BlockAlignedSplit(r, Len(hit) * BlockSize,
    Least(req[r].tokens - Len(hit) * BlockSize, step.left))

\* Mutant: a state of this very step counts as computed.
HitDeferredNever(hit) == FALSE

\* get_num_blocks_to_allocate defers a hit on a state that this very step
\* will compute.
HitDeferred(hit) == hit # <<>> /\ pool.hash[Last(hit)] \in cached_blocks_this_step

Admissible(r, hit) ==
  LET n == NumWaitingTokens(r, hit) IN
  /\ n > 0
  /\ ~HitDeferred(hit)
  /\ CanSchedule(r, Skipped(r, hit), hit, Len(hit) * BlockSize + n)

ScheduleWaiting ==
  /\ step.phase = "waiting" /\ step.left > 0 /\ Candidates # <<>>
  /\ \E hit \in HitBlocks(Candidate) :
       /\ Admissible(Candidate, hit)
       /\ AllocateSlots(Candidate, NumWaitingTokens(Candidate, hit), hit, TRUE,
                        Skipped(Candidate, hit))
       /\ req' = [req EXCEPT ![Candidate].status = "running",
                             ![Candidate].computed = Len(hit) * BlockSize]
  /\ running' = Append(running, Candidate)
  /\ waiting' = SelectSeq(waiting, LAMBDA r : r # Candidate)
  /\ UNCHANGED <<config, finished_req_ids, preempted_req_ids, queue, executed, worker,
                 preserved, state, dropped, resets>>

EndWaitingLoop ==
  /\ step.phase = "waiting"
  /\ \/ step.left = 0 \/ Candidates = <<>>
     \/ /\ Candidates # <<>>
        /\ \E hit \in HitBlocks(Candidate) : ~Admissible(Candidate, hit)
  /\ step' = [step EXCEPT !.phase = "done"]
  /\ UNCHANGED <<config, req, waiting, running, pool, mgr, cached_blocks_this_step,
                 finished_req_ids, preempted_req_ids, queue, executed, worker,
                 preserved, state, dropped, resets>>

RowsOf(rows, r) == {i \in 1 .. Len(rows) : rows[i].req = r}
RowOf(rows, r) == rows[CHOOSE i \in RowsOf(rows, r) : TRUE]

\* The output leaves for the worker, and _update_after_schedule counts its
\* tokens as computed and in flight.
EndStep ==
  /\ step.phase = "done"
  /\ queue' = Append(queue, [rows |-> step.rows, finished |-> finished_req_ids,
                             preempted |-> preempted_req_ids])
  /\ req' = [r \in Req |->
       IF RowsOf(step.rows, r) = {} THEN req[r]
       ELSE LET row == RowOf(step.rows, r) IN
            [req[r] EXCEPT !.computed = @ + row.n, !.inflight = @ + row.n,
                           !.placeholders = IF row.sample THEN @ + 1 ELSE @]]
  /\ finished_req_ids' = {} /\ preempted_req_ids' = {}
  /\ step' = Idle
  /\ UNCHANGED <<config, waiting, running, pool, mgr, cached_blocks_this_step, executed,
                 worker, preserved, state, dropped, resets>>

-----------------------------------------------------------------------------
(* The worker.                                                             *)

\* Mutant: a preempted request's penalties are not saved.
PreservedAfterLost(out) ==
  [r \in Req |-> IF r \in out.finished /\ ~worker[r].in THEN None ELSE preserved[r]]

\* finish_requests: preempt_request saves the penalties of every preempted
\* request, then the slots are given up; RwkvSampler.remove_request forgets
\* what was saved only for a request that has no slot.
PreservedAfter(out) ==
  [r \in Req |->
     IF r \in out.preempted THEN worker[r].penalties
     ELSE IF r \in out.finished /\ ~worker[r].in THEN None
     ELSE preserved[r]]

\* add_requests and update_requests.
SlotAfter(row, saved) ==
  LET r == row.req IN
  IF row.new
  THEN [in |-> TRUE, table |-> row.blocks, column |-> (row.start - 1) \div BlockSize,
        computed |-> row.start,
        penalties |-> IF saved[r] = None THEN 0 ELSE saved[r]]
  ELSE [worker[r] EXCEPT !.table = @ \o row.blocks]

Column(slot, row) == (slot.computed + row.n - 1) \div BlockSize
Target(slot, row) == slot.table[IF Align THEN Column(slot, row) + 1 ELSE 1]

\* preprocess_state: the state the step starts from.  A request without a
\* state starts from a reset block; one that moves to another column copies.
StartState(slot, row, targets) ==
  LET source == slot.table[slot.column + 1] IN
  IF ~Align
  THEN IF row.blocks # <<>> THEN <<>> ELSE state[Target(slot, row)]
  ELSE IF slot.column < 0 THEN <<>>
  ELSE IF source = Null \/ (source # Target(slot, row) /\ source \in targets)
  THEN Garbage
  ELSE state[source]

\* The worker executes the oldest scheduled step: the requests leave and
\* enter their slots, the states move and advance by the step's tokens, and
\* rows that reach the last known token sample one more.
Execute ==
  /\ executed < Len(queue)
  /\ LET out   == queue[executed + 1]
         rows  == out.rows
         saved == PreservedAfter(out)
         slot(row) == SlotAfter(row, saved)
         target(row) == Target(slot(row), row)
         targets == {target(rows[i]) : i \in 1 .. Len(rows)}
         folded(row) ==
           StartState(slot(row), row, targets)
           \o SubSeq(Stream[row.req], slot(row).computed + 1, slot(row).computed + row.n)
         writers(b) == {i \in 1 .. Len(rows) : target(rows[i]) = b}
     IN /\ worker' = [r \in Req |->
             IF RowsOf(rows, r) # {}
             THEN LET row == RowOf(rows, r) IN
                  [slot(row) EXCEPT !.column = Column(slot(row), row),
                                    !.computed = @ + row.n,
                                    !.penalties = IF row.sample THEN @ + 1 ELSE @]
             ELSE IF r \in out.finished \cup out.preempted THEN NoSlot
             ELSE worker[r]]
        /\ preserved' = [r \in Req |->
             IF \E i \in RowsOf(rows, r) : rows[i].new THEN None ELSE saved[r]]
        /\ state' = [b \in Block |->
             IF writers(b) = {} THEN state[b]
             ELSE IF Cardinality(writers(b)) > 1 THEN Garbage
             ELSE folded(rows[CHOOSE i \in writers(b) : TRUE])]
  /\ executed' = executed + 1
  /\ UNCHANGED <<config, req, waiting, running, pool, mgr, cached_blocks_this_step, step,
                 finished_req_ids, preempted_req_ids, queue, dropped, resets>>

-----------------------------------------------------------------------------
(* update_from_output, aborts, and reset_prefix_cache.                     *)

\* _free_request: the blocks go back, the tail first.
Finished(a, r) ==
  [a EXCEPT !.req[r].status = "finished", !.mgr[r] = NoBlocks,
            !.pool = FreeBlocks(@, Reverse(a.mgr[r].table)),
            !.fin = @ \cup {r}]

\* One row of the output: the drained stale share, the sampled token, the
\* boundaries that the token completes, and the stop check.
ProcessRow(a, row) ==
  LET r == row.req
      q == a.req[r]
      stale   == q.stale > 0
      deliver == row.sample /\ ~(stale /\ q.drop)
      drained == [q EXCEPT !.inflight = @ - row.n,
                           !.stale = IF stale THEN @ - row.n ELSE 0]
      given   == [drained EXCEPT !.tokens = @ + 1,
                                 !.placeholders = IF stale THEN @ ELSE @ - 1]
      c == CacheBlocks(r, a.mgr[r], a.pool, given.computed - given.placeholders)
      b == IF q.status = "running"
           THEN [a EXCEPT !.req[r] = given, !.mgr[r] = c.m, !.pool = c.p,
                          !.hashes = @ \cup c.hashes]
           ELSE [a EXCEPT !.req[r] = given]
  IN IF q.status = "finished" THEN a
     ELSE IF ~deliver
     THEN [a EXCEPT !.req[r] = drained,
                    !.dropped[r] = IF row.sample THEN @ + 1 ELSE @]
     ELSE IF given.tokens < MaxTokens(r) THEN b
     ELSE Finished(b, r)

UpdateFromOutput ==
  /\ step.phase = "idle" /\ executed > 0
  /\ LET a == FoldLeft(ProcessRow,
                [req |-> req, mgr |-> mgr, pool |-> pool, dropped |-> dropped,
                 hashes |-> cached_blocks_this_step, fin |-> finished_req_ids],
                Head(queue).rows)
         live(r) == a.req[r].status # "finished"
     IN /\ req' = a.req /\ mgr' = a.mgr /\ pool' = a.pool /\ dropped' = a.dropped
        /\ cached_blocks_this_step' = a.hashes
        /\ finished_req_ids' = a.fin
        /\ running' = SelectSeq(running, live)
        /\ waiting' = SelectSeq(waiting, live)
  /\ queue' = Tail(queue)
  /\ executed' = executed - 1
  /\ UNCHANGED <<config, step, preempted_req_ids, worker, preserved, state, resets>>

\* finish_requests, for a client that aborts.
Abort(r) ==
  /\ step.phase = "idle" /\ req[r].status # "finished"
  /\ req' = [req EXCEPT ![r].status = "finished"]
  /\ mgr' = [mgr EXCEPT ![r] = NoBlocks]
  /\ pool' = FreeBlocks(pool, Reverse(mgr[r].table))
  /\ finished_req_ids' = finished_req_ids \cup {r}
  /\ running' = SelectSeq(running, LAMBDA q : q # r)
  /\ waiting' = SelectSeq(waiting, LAMBDA q : q # r)
  /\ UNCHANGED <<config, cached_blocks_this_step, step, preempted_req_ids, queue,
                 executed, worker, preserved, state, dropped, resets>>

\* reset_prefix_cache(reset_running_requests=True): every running request is
\* preempted, its output in flight will be dropped, and the cache emptied.
ResetPrefixCache ==
  /\ step.phase = "idle" /\ resets < config.resets
  /\ req' = [r \in Req |-> IF r \in ToSet(running) THEN Requeued(req[r], TRUE)
                           ELSE req[r]]
  /\ mgr' = [r \in Req |-> IF r \in ToSet(running) THEN NoBlocks ELSE mgr[r]]
  /\ LET p == FoldRight(LAMBDA r, q : FreeBlocks(q, Reverse(mgr[r].table)),
                        running, pool)
     IN pool' = [p EXCEPT !.hash = [b \in Block |-> None]]
  /\ waiting' = running \o waiting
  /\ running' = <<>>
  /\ preempted_req_ids' = preempted_req_ids \cup ToSet(running)
  /\ resets' = resets + 1
  /\ UNCHANGED <<config, cached_blocks_this_step, step, finished_req_ids, queue,
                 executed, worker, preserved, state, dropped>>

EngineStep ==
  \/ StartStep \/ SkipRunning \/ ScheduleRunning \/ PreemptRunning
  \/ EndRunningLoop \/ ScheduleWaiting \/ EndWaitingLoop \/ EndStep
  \/ UpdateFromOutput

Terminated ==
  /\ \A r \in Req : req[r].status = "finished"
  /\ queue = <<>> /\ finished_req_ids = {} /\ preempted_req_ids = {}
  /\ step = Idle
  /\ UNCHANGED vars

Next ==
  \/ EngineStep
  \/ Execute
  \/ \E r \in config.aborts : Abort(r)
  \/ ResetPrefixCache
  \/ Terminated

Spec == Init /\ [][Next]_vars

-----------------------------------------------------------------------------
(* Properties.                                                             *)

\* Type correctness.
TypeOK ==
  /\ \A r \in Req :
       /\ req[r].status \in {"waiting", "running", "preempted", "finished"}
       /\ {req[r].computed, req[r].tokens, req[r].placeholders, req[r].inflight,
           req[r].stale} \subseteq 0 .. 2 * MaxTokens(r)
       /\ ToSet(mgr[r].table) \subseteq Block \cup {Null}
       /\ ToSet(worker[r].table) \subseteq Block \cup {Null}
       /\ preserved[r] = None \/ preserved[r] \in Nat
  /\ ToSet(pool.free) \subseteq Block
  /\ pool.ref \in [Block -> 0 .. Cardinality(Req)]
  /\ step.phase \in {"idle", "running", "waiting", "done"}
  /\ executed \in 0 .. Len(queue) /\ Len(queue) <= MaxInFlight

\* In every slot of the worker, the block that the request's column names
\* holds the state of exactly the tokens the request has read: the reset, the
\* copies and the reuse of blocks never mix two requests or lose a token.
RunningStateExact ==
  \A r \in Req : (worker[r].in /\ worker[r].column >= 0) =>
    LET b == worker[r].table[IF Align THEN worker[r].column + 1 ELSE 1] IN
    b # Null /\ state[b] = Prefix(r, worker[r].computed)

\* References are counted exactly, through nulls, hits and retirement, and
\* the free queue holds the unreferenced blocks, each once.
BlocksConserved ==
  /\ \A b \in Block : pool.ref[b] =
       Cardinality(UNION {{r} \X {i \in DOMAIN mgr[r].table : mgr[r].table[i] = b} :
                            r \in Req})
  /\ IsInjective(pool.free)
  /\ ToSet(pool.free) = {b \in Block : pool.ref[b] = 0}

\* The invariant stated in _mamba_block_aligned_split: a block cached for the
\* boundary (p + 1) * block_size holds the state after exactly those tokens,
\* once the steps scheduled so far have been executed, and the blocks are
\* accounted for.
CachedStateTrue ==
  /\ TypeOK /\ BlocksConserved
  /\ (step.phase = "idle" /\ executed = Len(queue)) =>
       \A b \in Block : pool.hash[b] # None => state[b] = pool.hash[b]

\* The sampled tokens a step of r in flight has yet to deliver, among those
\* the worker has executed.
Undelivered(r) ==
  Cardinality({i \in 1 .. executed :
                 \E j \in RowsOf(queue[i].rows, r) : queue[i].rows[j].sample})

\* The penalties the sampler applies to a request, in its slot or preserved
\* across a preemption, have folded every token sampled for it once: those
\* delivered, those on their way, and those a reset made the scheduler drop.
SamplerExact ==
  \A r \in Req : (req[r].status # "finished" /\ preempted_req_ids = {}) =>
    LET sampled == req[r].tokens - NumPrompt[r] + Undelivered(r) + dropped[r] IN
    IF worker[r].in THEN worker[r].penalties = sampled
    ELSE sampled = IF preserved[r] = None THEN 0 ELSE preserved[r]

\* No request is starved by aligned chunks, deferred hits or preemption: with
\* nothing in flight to wait for, every step schedules a token of some request.
StepsProgress ==
  (/\ step.phase = "done" /\ queue = <<>>
   /\ waiting # <<>> \/ running # <<>>)
  => step.rows # <<>>
=============================================================================
