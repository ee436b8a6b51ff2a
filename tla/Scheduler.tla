----------------------------- MODULE Scheduler -----------------------------
(***************************************************************************)
(* The engine-core loop and its scheduler: EngineCore.step and             *)
(* step_with_batch_queue (vllm/v1/engine/core.py) driving Scheduler and    *)
(* AsyncScheduler (vllm/v1/core/sched/).                                   *)
(*                                                                         *)
(* schedule() is one action per iteration of its two loops, framed by      *)
(* BeginSchedule and EndSchedule; update_from_output() is BeginUpdate and  *)
(* one ProcessOutput per scheduled request.  In between, up to             *)
(* MaxBatches scheduled steps are in flight at the worker, which executes  *)
(* them in order.  Client calls are handled where the engine loop handles  *)
(* them: between steps, and aborts also before an output is applied.       *)
(*                                                                         *)
(* Modelled configuration: FCFS policy, full-attention cache without       *)
(* prefix hits (KVCacheManager models those), generation requests without  *)
(* encoder inputs, structured output or streaming input.  A KV connector   *)
(* may load the keys and values of a prompt asynchronously and keep those  *)
(* of a finished request until it has sent them; what it matches, when a   *)
(* transfer ends and whether it fails is its choice.                       *)
(***************************************************************************)
EXTENDS Integers, Sequences, FiniteSets, SequencesExt, FiniteSetsExt

CONSTANTS
  Req,            \* requests
  Block,          \* KV cache blocks, the null block excluded
  BlockSize,
  NumPrompt,      \* num_prompt_tokens of each request
  MaxTokens,      \* max_tokens of each request
  MaxModelLen,
  TokenBudget,    \* max_num_scheduled_tokens
  MaxNumSeqs,     \* max_num_running_reqs
  Watermark,      \* watermark_blocks
  Configs         \* the configurations the engine may be started with

\* A request of full model length fits in the pool alone: engine start-up
\* refuses the configuration otherwise.  Draft tokens reach a synchronous
\* scheduler after the step, so it has one step in flight.
ASSUME SchedulerAssumption ==
  /\ IsFiniteSet(Req) /\ IsFiniteSet(Block)
  /\ BlockSize \in Nat \ {0}
  /\ MaxModelLen \in Nat
  /\ (MaxModelLen + BlockSize - 1) \div BlockSize <= Cardinality(Block)
  /\ NumPrompt \in [Req -> 1 .. MaxModelLen - 1]
  /\ MaxTokens \in [Req -> Nat \ {0}]
  /\ {TokenBudget, MaxNumSeqs} \subseteq Nat \ {0}
  /\ Watermark \in Nat
  /\ \A c \in Configs :
       /\ c.pipeline_size \in Nat \ {0} /\ c.num_spec \in Nat
       /\ {c.async, c.defer_block_free, c.kv_delivery, c.resets, c.sends,
           c.reoffers, c.hesitates, c.recompute} \subseteq BOOLEAN
       /\ c.matches \subseteq Nat /\ 0 \in c.matches
       /\ c.matches # {0} => c.num_spec = 0
       /\ c.pause_states \subseteq {"UNPAUSED", "PAUSED_NEW", "PAUSED_ALL"}
       /\ c.num_spec > 0 => /\ c.async \/ c.pipeline_size = 1
                            /\ \A r \in Req : NumPrompt[r] > 1

VARIABLES
  req,                \* the Request objects
  running, waiting,   \* the queues
  kv_holding_waiting, \* not running, but with blocks of their own
  pause_state,
  free,               \* free blocks of the pool
  deferred_frees,     \* blocks that in-flight steps may still write
  finished_req_ids, preempted_req_ids,   \* to be sent with the next step
  batch_queue,        \* steps in flight, oldest first
  pc, step,           \* where schedule() is, and its locals
  todo,               \* outputs that update_from_output has yet to apply
  worker_reqs,        \* requests with a slot in the model runner
  worker_len,         \* history: tokens the worker has for a request
  config              \* the configuration, and which calls the clients make

PipelineSize   == config.pipeline_size     \* pipeline_parallel_size
NumSpec        == config.num_spec          \* num_spec_tokens
Async          == config.async             \* AsyncScheduler rather than Scheduler
DeferBlockFree == config.defer_block_free  \* a KV-consumer connector with
                                           \* overlapping batches
KVDelivery     == config.kv_delivery       \* the connector's requires_kv_delivery
Recompute      == config.recompute         \* recompute_kv_load_failures

queues == <<running, waiting, kv_holding_waiting>>
cache  == <<free, deferred_frees>>
worker == <<worker_reqs, worker_len>>
vars == <<req, queues, pause_state, cache, finished_req_ids, preempted_req_ids,
          batch_queue, pc, step, todo, worker, config>>

\* max_concurrent_batches: the size of the batch queue; EngineCore.step is the
\* case of one batch.
MaxBatches == IF Async THEN PipelineSize + 1 ELSE PipelineSize

NumBlocks(n) == (n + BlockSize - 1) \div BlockSize
NoStep == [index |-> 0, token_budget |-> 0, batch |-> <<>>,
           preempted |-> FALSE, skipped |-> <<>>, skipped_kv |-> <<>>]

\* inflight_prefill: the request is in _inflight_prefills.  xfer is its
\* transfer: under way, ended at the worker, or known to the scheduler to have
\* ended (finished_recving_kv_req_ids); start is the number of steps in flight
\* up to the one that tells the worker of it; failed, whether the request is in
\* failed_recving_kv_req_ids; resumes, whether it was preempted before.
NewRequest(r) ==
  [status |-> "NEW", num_tokens |-> NumPrompt[r], num_computed_tokens |-> 0,
   num_in_flight_tokens |-> 0, num_stale_output_tokens |-> 0,
   num_output_placeholders |-> 0, drop_stale_output |-> FALSE,
   num_spec |-> 0, decode_wait |-> 0, blocks |-> {}, last_sched |-> 0,
   inflight_prefill |-> FALSE, xfer |-> "none", start |-> 0, failed |-> FALSE,
   resumes |-> FALSE, offered |-> FALSE]

Init ==
  /\ req = [r \in Req |-> NewRequest(r)]
  /\ running = <<>> /\ waiting = <<>> /\ kv_holding_waiting = <<>>
  /\ pause_state = "UNPAUSED"
  /\ free = Block /\ deferred_frees = <<>>
  /\ finished_req_ids = {} /\ preempted_req_ids = {}
  /\ batch_queue = <<>>
  /\ pc = "idle" /\ step = NoStep /\ todo = <<>>
  /\ worker_reqs = {} /\ worker_len = [r \in Req |-> 0]
  /\ config \in Configs

\* REMOTE is WAITING_FOR_REMOTE_KVS.
Live(r) == req[r].status \in {"WAITING", "RUNNING", "PREEMPTED", "REMOTE"}

\* Mutant: a full pause still counts what is queued.
NumUnfinishedPaused ==
  IF pause_state = "PAUSED_NEW" THEN Len(running) + Len(kv_holding_waiting)
  ELSE Len(running) + Len(kv_holding_waiting) + Len(waiting)

\* get_num_unfinished_requests and has_requests
NumUnfinished ==
  CASE pause_state = "PAUSED_ALL" -> 0
    [] pause_state = "PAUSED_NEW" -> Len(running) + Len(kv_holding_waiting)
    [] pause_state = "UNPAUSED"   ->
         Len(running) + Len(kv_holding_waiting) + Len(waiting)
HasRequests ==
  \/ NumUnfinished > 0
  \/ finished_req_ids # {}
  \/ \E r \in Req : req[r].status = "FINISHED" /\ req[r].xfer # "none"
HasWork == HasRequests \/ batch_queue # <<>>

-----------------------------------------------------------------------------
\* Step numbers are kept relative to processed_step_seq: the last step that
\* schedule() numbered is the number of non-empty steps in flight, and a
\* request whose last_sched is 0 has no step in flight.
SchedStepSeq == Cardinality({i \in DOMAIN batch_queue : batch_queue[i] # <<>>})

\* _request_blocks_can_be_freed
CanBeFreed(r) == DeferBlockFree => req[r].last_sched = 0

\* Mutant: blocks are freed whatever is in flight.
FreeRequestBlocksAtOnce(s) ==
  /\ free' = free \cup UNION {req[r].blocks : r \in ToSet(s)}
  /\ UNCHANGED deferred_frees

\* _free_request_blocks for the requests of the sequence s, in order: at once,
\* or after every step now in flight.
FreeRequestBlocks(s) ==
  LET later == SelectSeq(s, LAMBDA r : ~CanBeFreed(r) /\ req[r].blocks # {}) IN
  /\ free' = free \cup UNION {req[r].blocks : r \in {q \in ToSet(s) : CanBeFreed(q)}}
  /\ deferred_frees' = deferred_frees \o
       [i \in DOMAIN later |-> [fence |-> SchedStepSeq, blocks |-> req[later[i]].blocks]]

\* Mutant: the stale share accumulates.
PreemptedAccumulates(q, drop) ==
  [q EXCEPT !.status = "PREEMPTED", !.num_computed_tokens = 0,
            !.num_spec = 0, !.num_output_placeholders = 0,
            !.drop_stale_output = drop \/ (@ /\ q.num_stale_output_tokens > 0),
            !.num_stale_output_tokens = @ + q.num_in_flight_tokens,
            !.inflight_prefill = FALSE, !.blocks = {}]

\* _preempt_request: the request starts over.  All its output in flight is now
\* stale; it is dropped when drop says so, or when it was being dropped
\* already, and delivered without touching the counters otherwise.
Preempted(q, drop) ==
  [q EXCEPT !.status = "PREEMPTED", !.num_computed_tokens = 0,
            !.num_spec = 0, !.num_output_placeholders = 0,
            !.drop_stale_output = drop \/ (@ /\ q.num_stale_output_tokens > 0),
            !.num_stale_output_tokens = q.num_in_flight_tokens,
            !.inflight_prefill = FALSE, !.blocks = {}]

PreemptRequests(s, drop) ==
  /\ req' = [r \in Req |-> IF r \in ToSet(s) THEN Preempted(req[r], drop) ELSE req[r]]
  /\ FreeRequestBlocks(s)
  /\ waiting' = Reverse(s) \o waiting
  /\ UNCHANGED kv_holding_waiting
  /\ preempted_req_ids' = preempted_req_ids \cup ToSet(s)

\* _free_request: the request leaves the scheduler; only its tokens remain, and
\* a transfer that the worker is still at.
Finished(r, q) ==
  [NewRequest(r) EXCEPT !.status = "FINISHED", !.num_tokens = q.num_tokens,
                        !.xfer = IF q.xfer = "known" THEN "none" ELSE q.xfer,
                        !.start = q.start]

\* finish_requests and _free_request for r with counters q.  A load under way
\* writes its blocks, and the connector may be about to send them (sends): the
\* request keeps them until the worker reports the end.
FreeRequest(r, q, sends) ==
  IF sends \/ q.xfer \in {"running", "ended"}
  THEN /\ req' = [req EXCEPT ![r] =
            [Finished(r, IF sends THEN [q EXCEPT !.xfer = "running",
                                                 !.start = Len(batch_queue) + 1]
                         ELSE q)
             EXCEPT !.blocks = q.blocks, !.last_sched = q.last_sched]]
       /\ UNCHANGED cache
  ELSE /\ req' = [req EXCEPT ![r] = Finished(r, q)]
       /\ FreeRequestBlocks(<<r>>)

-----------------------------------------------------------------------------
\* add_request
AddRequest(r) ==
  /\ pc = "idle"
  /\ req[r].status = "NEW"
  /\ req' = [req EXCEPT ![r].status = "WAITING"]
  /\ waiting' = Append(waiting, r)
  /\ UNCHANGED <<running, kv_holding_waiting, pause_state, cache, finished_req_ids,
                 preempted_req_ids, batch_queue, pc, step, todo, worker, config>>

\* finish_requests, for an abort: between steps, or from _process_aborts_queue
\* while the next output waits to be applied.
AbortRequest(r) ==
  /\ pc \in {"idle", "blocked"}
  /\ Live(r)
  /\ running' = Remove(running, r)
  /\ waiting' = Remove(waiting, r)
  /\ kv_holding_waiting' = Remove(kv_holding_waiting, r)
  /\ finished_req_ids' = finished_req_ids \cup {r}
  /\ FreeRequest(r, req[r], FALSE)
  /\ UNCHANGED <<pause_state, preempted_req_ids, batch_queue, pc, step, todo,
                 worker, config>>

\* pause_scheduler ("wait" sets PAUSED_NEW, "keep" PAUSED_ALL; "abort" aborts
\* every request first) and resume_scheduler
SetPauseState(p) ==
  /\ pc = "idle"
  /\ p # pause_state
  /\ pause_state' = p
  /\ UNCHANGED <<req, queues, cache, finished_req_ids, preempted_req_ids,
                 batch_queue, pc, step, todo, worker, config>>

\* reset_prefix_cache(reset_running_requests=True): the running requests are
\* preempted, last first, and resumed as if they were new.
ResetPrefixCache ==
  /\ config.resets
  /\ pc = "idle"
  /\ running # <<>>
  /\ PreemptRequests(Reverse(running), TRUE)
  /\ running' = <<>>
  /\ UNCHANGED <<pause_state, finished_req_ids, batch_queue, pc, step, todo,
                 worker, config>>

-----------------------------------------------------------------------------
\* schedule() starts; nothing is scheduled under PAUSED_ALL.  decode_wait is
\* next_decode_eligible_step - current_step.
BeginSchedule ==
  /\ pc = "idle"
  /\ HasRequests
  /\ pc' = "running"
  /\ req' = [r \in Req |-> [req[r] EXCEPT !.decode_wait = Max({@ - 1, 0})]]
  /\ step' = [NoStep EXCEPT !.index = 1,
       !.token_budget = IF pause_state = "PAUSED_ALL" THEN 0 ELSE TokenBudget]
  /\ UNCHANGED <<queues, pause_state, cache, finished_req_ids,
                 preempted_req_ids, batch_queue, todo, worker, config>>

\* num_tokens_with_spec + num_output_placeholders - num_computed_tokens, within
\* the budget and the model length
NumNewTokens(q) ==
  Min({q.num_tokens + q.num_spec + q.num_output_placeholders - q.num_computed_tokens,
       step.token_budget, MaxModelLen - q.num_computed_tokens - 1})

\* The steps in flight are sure to reach max_tokens.
ReachesMaxTokens(r) ==
  /\ req[r].num_output_placeholders > 0
  /\ req[r].num_computed_tokens + 2 - req[r].num_output_placeholders
       >= NumPrompt[r] + MaxTokens[r]

\* allocate_slots: blocks that n more tokens of q need beyond its own
BlocksNeeded(q, n) ==
  Max({NumBlocks(Min({q.num_computed_tokens + n, MaxModelLen}))
         - Cardinality(q.blocks), 0})

\* Mutant: a resumed request is sent with its prompt only.
EntryPromptOnly(r, q, n, base) ==
  LET over == n + q.num_computed_tokens - q.num_tokens - q.num_output_placeholders
  IN [req |-> r, n |-> n, base |-> IF base > 0 THEN NumPrompt[r] ELSE 0,
      samples |-> over >= 0,
      spec |-> IF over > 0 THEN Min({over, q.num_spec}) ELSE 0,
      blocks |-> q.blocks]

\* What schedule() hands to the worker for r.  The step samples if it computes
\* the last known token (is_prefill_chunk otherwise); base is the length of
\* the token list that a new or resumed request is sent with; blocks (history)
\* are those it may write.
Entry(r, q, n, base) ==
  LET over == n + q.num_computed_tokens - q.num_tokens - q.num_output_placeholders
  IN [req |-> r, n |-> n, base |-> base, samples |-> over >= 0,
      spec |-> IF over > 0 THEN Min({over, q.num_spec}) ELSE 0,
      blocks |-> q.blocks]

InRunningLoop == pc = "running" /\ step.index <= Len(running) /\ step.token_budget > 0
Current == running[step.index]
SkipsCurrent ==
  \/ ReachesMaxTokens(Current)
  \/ req[Current].decode_wait > 0
  \/ NumNewTokens(req[Current]) = 0
CurrentFits ==
  BlocksNeeded(req[Current], NumNewTokens(req[Current])) <= Cardinality(free)

SkipRunning ==
  /\ InRunningLoop
  /\ SkipsCurrent
  /\ step' = [step EXCEPT !.index = @ + 1]
  /\ UNCHANGED <<req, queues, pause_state, cache, finished_req_ids,
                 preempted_req_ids, batch_queue, pc, todo, worker, config>>

ScheduleRunning ==
  LET r == Current
      n == NumNewTokens(req[r])
  IN /\ InRunningLoop
     /\ ~SkipsCurrent
     /\ CurrentFits
     /\ \E new \in kSubset(BlocksNeeded(req[r], n), free) :
          LET q == [req[r] EXCEPT !.blocks = @ \cup new] IN
          /\ free' = free \ new
          /\ req' = [req EXCEPT ![r] = [q EXCEPT !.num_spec = 0]]
          /\ step' = [step EXCEPT !.index = @ + 1, !.token_budget = @ - n,
                                  !.batch = Append(@, Entry(r, q, n, 0))]
     /\ UNCHANGED <<queues, pause_state, deferred_frees, finished_req_ids,
                    preempted_req_ids, batch_queue, pc, todo, worker, config>>

\* No room: the last running request is preempted and the allocation retried,
\* unless that was the request itself.
PreemptRunning ==
  LET victim == Last(running) IN
  /\ InRunningLoop
  /\ ~SkipsCurrent
  /\ ~CurrentFits
  /\ CanBeFreed(victim)
  /\ running' = Front(running)
  /\ PreemptRequests(<<victim>>, KVDelivery)
  /\ step' = [step EXCEPT !.preempted = TRUE]
  /\ pc' = IF victim = Current THEN "waiting" ELSE "running"
  /\ UNCHANGED <<pause_state, finished_req_ids, batch_queue, todo, worker, config>>

\* The loop ends, also when the victim's blocks could not be used at once, or
\* the connector has frees pending (has_pending_block_frees).
EndRunning ==
  /\ pc = "running"
  /\ InRunningLoop => /\ ~SkipsCurrent /\ ~CurrentFits
                      /\ config.hesitates \/ ~CanBeFreed(Last(running))
  /\ pc' = "waiting"
  /\ UNCHANGED <<req, queues, pause_state, cache, finished_req_ids,
                 preempted_req_ids, batch_queue, step, todo, worker, config>>

-----------------------------------------------------------------------------
\* Requests that hold blocks come first, and are the only ones under PAUSED_NEW.
request_queue ==
  IF kv_holding_waiting # <<>> THEN kv_holding_waiting
  ELSE IF pause_state = "UNPAUSED" THEN waiting ELSE <<>>
Candidate == Head(request_queue)
PopCandidate ==
  IF kv_holding_waiting # <<>>
  THEN kv_holding_waiting' = Tail(kv_holding_waiting) /\ UNCHANGED waiting
  ELSE waiting' = Tail(waiting) /\ UNCHANGED kv_holding_waiting

InWaitingLoop ==
  /\ pc = "waiting"
  /\ ~step.preempted
  /\ step.token_budget > 0
  /\ request_queue # <<>>
  /\ Len(running) < MaxNumSeqs

\* Output of before the preemption is still to be delivered.
AwaitsStaleOutput(q) == q.num_stale_output_tokens > 0 /\ ~q.drop_stale_output

\* The candidate waits for its load, or for its output.
SkipsCandidate ==
  IF req[Candidate].status = "REMOTE" THEN req[Candidate].xfer # "known"
  ELSE AwaitsStaleOutput(req[Candidate])

\* The load of the candidate has ended.
Arrived == req[Candidate].status = "REMOTE" /\ req[Candidate].xfer = "known"

\* get_num_new_matched_tokens: what the connector offers to load for r, which
\* has no token computed.  Unless it offers again, it does so once.
Matches(r) ==
  IF req[r].num_computed_tokens > 0 \/ (req[r].offered /\ ~config.reoffers) THEN {0}
  ELSE {n \in config.matches : n <= NumPrompt[r]}

\* The connector may also leave open what it offers.
Undecided(q) ==
  config.hesitates /\ q.num_computed_tokens = 0 /\ q.status # "REMOTE"

\* _inflight_prefill_reserved_blocks
RemainingBlocks(q) == Max({NumBlocks(q.num_tokens) - Cardinality(q.blocks), 0})
ReservedBlocks ==
  MapThenSumSet(LAMBDA r : RemainingBlocks(req[r]),
                {r \in Req : req[r].inflight_prefill})

\* allocate_slots for an admission: the whole sequence must fit
\* (scheduler_reserve_full_isl), with headroom while others run; a load of ext
\* tokens leaves others the blocks they need to complete their prompts.
Fits(q, ext) ==
  LET headroom == IF running = <<>> THEN 0 ELSE Watermark IN
  /\ RemainingBlocks(q) + headroom <= Cardinality(free)
  /\ ext > 0 => NumBlocks(ext) + headroom <= Cardinality(free) - ReservedBlocks

\* skip_request: set aside for this step; EndSchedule puts it back in front.
Skipped(r, q) ==
  IF q.num_computed_tokens > 0 \/ q.status = "REMOTE"
  THEN [step EXCEPT !.skipped_kv = Append(@, r)]
  ELSE [step EXCEPT !.skipped = Append(@, r)]

SkipWaiting ==
  /\ InWaitingLoop
  /\ SkipsCandidate \/ Undecided(req[Candidate])
  /\ PopCandidate
  /\ step' = Skipped(Candidate, req[Candidate])
  /\ UNCHANGED <<req, running, pause_state, cache, finished_req_ids,
                 preempted_req_ids, batch_queue, pc, todo, worker, config>>

\* _handle_blocked_waiting_request and _update_waiting_for_remote_kv: the last
\* token of a prompt loaded whole is computed again; a load of which nothing
\* is valid gives its blocks back.
PromoteLoaded ==
  LET r == Candidate
      q == req[r]
      gone == q.failed /\ q.num_computed_tokens = 0
  IN /\ InWaitingLoop
     /\ Arrived
     /\ req' = [req EXCEPT ![r] =
          [q EXCEPT !.status = IF q.resumes THEN "PREEMPTED" ELSE "WAITING",
                    !.num_computed_tokens = Min({@, q.num_tokens - 1}),
                    !.blocks = IF gone THEN {} ELSE @,
                    !.xfer = "none", !.failed = FALSE, !.resumes = FALSE]]
     /\ free' = IF gone THEN free \cup q.blocks ELSE free
     /\ UNCHANGED <<queues, pause_state, deferred_frees, finished_req_ids,
                    preempted_req_ids, batch_queue, pc, step, todo, worker, config>>

\* The connector loads ext tokens: the request gets blocks for them and waits.
StartLoad ==
  LET r == Candidate
      q == req[r]
  IN /\ InWaitingLoop
     /\ ~SkipsCandidate /\ ~Arrived
     /\ \E ext \in Matches(r) \ {0} :
          /\ Fits(q, ext)
          /\ \E new \in kSubset(NumBlocks(ext), free) :
               /\ free' = free \ new
               /\ req' = [req EXCEPT ![r] =
                    [q EXCEPT !.status = "REMOTE", !.resumes = q.status = "PREEMPTED",
                              !.num_computed_tokens = ext, !.blocks = new,
                              !.inflight_prefill = TRUE, !.offered = ~config.reoffers,
                              !.xfer = "running", !.start = Len(batch_queue) + 1]]
     /\ PopCandidate
     /\ step' = Skipped(r, req'[r])
     /\ UNCHANGED <<running, pause_state, deferred_frees, finished_req_ids,
                    preempted_req_ids, batch_queue, pc, todo, worker, config>>

ScheduleWaiting ==
  LET r == Candidate
      n == Min({req[r].num_tokens - req[r].num_computed_tokens, step.token_budget})
  IN /\ InWaitingLoop
     /\ ~SkipsCandidate /\ ~Arrived
     /\ 0 \in Matches(r)
     /\ Fits(req[r], 0)
     /\ \E new \in kSubset(BlocksNeeded(req[r], n), free) :
          LET q == [req[r] EXCEPT !.blocks = @ \cup new, !.status = "RUNNING",
                      !.inflight_prefill =
                         @ \/ req[r].num_computed_tokens + n < req[r].num_tokens]
          IN /\ free' = free \ new
             /\ req' = [req EXCEPT ![r] = q]
             /\ step' = [step EXCEPT !.token_budget = @ - n,
                           !.batch = Append(@, Entry(r, q, n, q.num_tokens))]
     /\ PopCandidate
     /\ running' = Append(running, r)
     /\ UNCHANGED <<pause_state, deferred_frees, finished_req_ids,
                    preempted_req_ids, batch_queue, pc, todo, worker, config>>

\* _update_after_schedule for the entry e; AsyncScheduler also counts the
\* tokens that the step will produce.
Advanced(q, e) ==
  [q EXCEPT !.num_computed_tokens = @ + e.n,
            !.num_in_flight_tokens = @ + e.n,
            !.inflight_prefill = @ /\ ~e.samples,
            !.last_sched = IF DeferBlockFree THEN SchedStepSeq + 1 ELSE 0]
Scheduled(q, e) ==
  IF ~(Async /\ e.samples) THEN Advanced(q, e) ELSE
  [Advanced(q, e) EXCEPT !.num_output_placeholders = @ + 1 + e.spec,
                         !.num_spec = NumSpec,
                         !.decode_wait = PipelineSize]

\* ModelRunner.finish_requests and add_requests, when the step is executed
WorkerReqs(batch) ==
  (worker_reqs \ (finished_req_ids \cup preempted_req_ids))
    \cup {e.req : e \in {d \in ToSet(batch) : d.base > 0}}

\* The step is queued for the worker.  The engine then goes on to schedule
\* the next one while the queue has room, and blocks for the oldest output
\* otherwise.
EndSchedule ==
  LET batch == step.batch IN
  /\ pc = "waiting"
  /\ InWaitingLoop => /\ ~SkipsCandidate /\ ~Arrived
                      /\ \E ext \in Matches(Candidate) : ~Fits(req[Candidate], ext)
  /\ waiting' = step.skipped \o waiting
  /\ kv_holding_waiting' = step.skipped_kv \o kv_holding_waiting
  /\ req' = [r \in Req |-> IF \E e \in ToSet(batch) : e.req = r
                           THEN Scheduled(req[r], CHOOSE e \in ToSet(batch) : e.req = r)
                           ELSE req[r]]
  /\ worker_reqs' = WorkerReqs(batch)
  /\ finished_req_ids' = {}
  /\ preempted_req_ids' = {}
  /\ batch_queue' = Append(batch_queue, batch)
  /\ step' = NoStep
  /\ UNCHANGED <<running, pause_state, cache, todo, worker_len, config>>
  /\ pc' = IF Len(batch_queue') < MaxBatches /\ (batch # <<>> \/ HasRequests')
           THEN "idle" ELSE "blocked"

-----------------------------------------------------------------------------
\* Mutant: a fence counts as pending when its step has just been processed.
DrainDeferredFreesStrict ==
  LET aged  == [i \in DOMAIN deferred_frees |->
                  [deferred_frees[i] EXCEPT !.fence = @ - 1]]
      kept  == {i \in DOMAIN aged : aged[i].fence >= 0}
      first == IF kept = {} THEN Len(aged) + 1 ELSE Min(kept)
  IN /\ deferred_frees' = SubSeq(aged, first, Len(aged))
     /\ free' = free \cup UNION {aged[i].blocks : i \in 1 .. first - 1}

\* _drain_deferred_frees, once a further step is processed: entries up to the
\* first pending fence are returned to the pool.
DrainDeferredFrees ==
  LET aged  == [i \in DOMAIN deferred_frees |->
                  [deferred_frees[i] EXCEPT !.fence = @ - 1]]
      kept  == {i \in DOMAIN aged : aged[i].fence > 0}
      first == IF kept = {} THEN Len(aged) + 1 ELSE Min(kept)
  IN /\ deferred_frees' = SubSeq(aged, first, Len(aged))
     /\ free' = free \cup UNION {aged[i].blocks : i \in 1 .. first - 1}

\* Once the outputs are applied, the transfers that the step reports are.
AfterOutput == IF \E r \in Req : req[r].xfer = "ended" THEN "transfers" ELSE "idle"

\* update_from_output starts on the oldest step, whose writes are done.
BeginUpdate ==
  LET batch == Head(batch_queue) IN
  /\ batch_queue # <<>>
  /\ pc = "blocked" \/ (pc = "idle" /\ ~HasRequests)
  /\ batch_queue' = Tail(batch_queue)
  /\ req' = [r \in Req |-> [req[r] EXCEPT
       !.last_sched = IF DeferBlockFree /\ batch # <<>> THEN Max({@ - 1, 0}) ELSE @,
       !.start = Max({@ - 1, 0})]]
  /\ IF DeferBlockFree /\ batch # <<>> THEN DrainDeferredFrees ELSE UNCHANGED cache
  /\ todo' = batch
  /\ pc' = IF batch = <<>> THEN AfterOutput ELSE "output"
  /\ UNCHANGED <<queues, pause_state, finished_req_ids, preempted_req_ids,
                 step, worker, config>>

\* check_stop: the length cap after t tokens
AtLengthCap(r, t) == t >= MaxModelLen \/ t - NumPrompt[r] >= MaxTokens[r]

\* The output of the step drains in_flight, and its stale share.
Drained(q, e) ==
  [q EXCEPT !.num_in_flight_tokens = @ - e.n,
            !.num_stale_output_tokens = IF @ > 0 THEN @ - e.n ELSE @]

\* Mutant: rejected drafts leave the placeholders.
RolledBackComputed(q, e, a) ==
  IF e.spec = 0 \/ q.num_stale_output_tokens > 0 THEN q ELSE
  [q EXCEPT !.num_computed_tokens = IF @ > 0 THEN @ - (e.spec + 1 - a) ELSE @]

\* The worker sampled a tokens, 1 + accepted drafts.  The rejected drafts are
\* taken back unless the output is stale.
RolledBack(q, e, a) ==
  IF e.spec = 0 \/ q.num_stale_output_tokens > 0 THEN q ELSE
  [q EXCEPT !.num_computed_tokens = IF @ > 0 THEN @ - (e.spec + 1 - a) ELSE @,
            !.num_output_placeholders = IF @ > 0 THEN @ - (e.spec + 1 - a) ELSE @]

\* _update_request_with_output: k tokens are appended before the request stops
\* (the rest is trimmed) and settle their placeholders unless they are stale.
WithOutput(q, e, a, k) ==
  [Drained(RolledBack(q, e, a), e) EXCEPT
     !.num_tokens = @ + k,
     !.num_output_placeholders =
        IF Async /\ q.num_stale_output_tokens = 0 THEN @ - k ELSE @]

\* Tokens the worker has for the request of entry e when it executes the step
WorkerLen(e) == IF e.base > 0 THEN e.base ELSE worker_len[e.req]

\* request_finished: whether the connector sends the blocks of a request that
\* stopped.
Sends(q) == IF config.sends /\ q.blocks # {} THEN BOOLEAN ELSE {FALSE}

\* Mutant: a preempted request that stops stays in the waiting queue.
ApplyOutputKeepsWaiting(e, a, k, stopped, drafts) ==
  LET r == e.req
      q == WithOutput(req[r], e, a, k)
  IN IF stopped
     THEN /\ \E sends \in Sends(q) : FreeRequest(r, q, sends)
          /\ running' = Remove(running, r)
          /\ finished_req_ids' = finished_req_ids \cup {r}
          /\ UNCHANGED <<waiting, kv_holding_waiting>>
     ELSE /\ req' = [req EXCEPT ![r] =
               IF Async \/ ~e.samples THEN q ELSE [q EXCEPT !.num_spec = drafts]]
          /\ UNCHANGED <<queues, cache, finished_req_ids>>

\* The rest of the loop body for a request that is neither gone nor dropped.
\* Synchronous scheduling: post_step then fetches the new draft tokens.
ApplyOutput(e, a, k, stopped, drafts) ==
  LET r == e.req
      q == WithOutput(req[r], e, a, k)
  IN IF stopped
     THEN /\ \E sends \in Sends(q) : FreeRequest(r, q, sends)
          /\ running' = Remove(running, r)
          /\ waiting' = Remove(waiting, r)
          /\ kv_holding_waiting' = Remove(kv_holding_waiting, r)
          /\ finished_req_ids' = finished_req_ids \cup {r}
     ELSE /\ req' = [req EXCEPT ![r] =
               IF Async \/ ~e.samples THEN q ELSE [q EXCEPT !.num_spec = drafts]]
          /\ UNCHANGED <<queues, cache, finished_req_ids>>

\* Drop-mode stale output is discarded entirely.
Drops(q) == q.num_stale_output_tokens > 0 /\ q.drop_stale_output

\* One iteration of the loop of update_from_output
ProcessOutput ==
  LET e == Head(todo)
      r == e.req
      q == req[r]
  IN /\ pc = "output"
     /\ todo' = Tail(todo)
     /\ pc' = IF Tail(todo) = <<>> THEN AfterOutput ELSE "output"
     /\ \E a \in IF e.samples THEN 1 .. 1 + e.spec ELSE {0} :
          /\ worker_len' = IF Live(r) THEN [worker_len EXCEPT ![r] = WorkerLen(e) + a]
                                      ELSE worker_len
          /\ IF ~Live(r) \/ Drops(q)
             THEN /\ req' = IF Live(r) THEN [req EXCEPT ![r] = Drained(q, e)] ELSE req
                  /\ UNCHANGED <<queues, cache, finished_req_ids>>
             ELSE \E k \in 0 .. a, eos \in BOOLEAN, drafts \in 0 .. NumSpec :
                    LET stopped == k > 0 /\ (eos \/ AtLengthCap(r, q.num_tokens + k)) IN
                    /\ k < a => stopped
                    /\ \A j \in 1 .. k - 1 : ~AtLengthCap(r, q.num_tokens + j)
                    /\ ApplyOutput(e, a, k, stopped, drafts)
     /\ UNCHANGED <<pause_state, preempted_req_ids, batch_queue, step,
                    worker_reqs, config>>

\* _update_from_kv_xfer_finished, for the end of a transfer the request of which
\* has finished meanwhile: its blocks are freed.
ReleaseTransferred(r) ==
  /\ req' = [req EXCEPT ![r] = Finished(r, [req[r] EXCEPT !.xfer = "none"])]
  /\ FreeRequestBlocks(<<r>>)
  /\ UNCHANGED <<queues, finished_req_ids>>

\* A report on a load: _handle_invalid_blocks, or _handle_failed_recving, cuts
\* it to what is valid, and ends the request with an error if failures are not
\* to be recomputed.  The end itself may be reported later.
ReceiveLoad(r, valid, ends) ==
  LET fails == valid < req[r].num_computed_tokens
      q == [req[r] EXCEPT !.num_computed_tokens = valid, !.failed = @ \/ fails,
                          !.xfer = IF ends THEN "known" ELSE "running"]
  IN /\ ends \/ fails
     /\ IF fails /\ ~Recompute
        THEN /\ FreeRequest(r, q, FALSE)
             /\ kv_holding_waiting' = Remove(kv_holding_waiting, r)
             /\ finished_req_ids' = finished_req_ids \cup {r}
             /\ UNCHANGED <<running, waiting>>
        ELSE /\ req' = [req EXCEPT ![r] = q]
             /\ UNCHANGED <<queues, cache, finished_req_ids>>

UpdateTransfer(r) ==
  /\ pc = "transfers"
  /\ req[r].xfer = "ended"
  /\ IF req[r].status = "FINISHED" THEN ReleaseTransferred(r)
     ELSE \E b \in 0 .. NumBlocks(req[r].num_computed_tokens), ends \in BOOLEAN :
            ReceiveLoad(r, Min({b * BlockSize, req[r].num_computed_tokens}), ends)
  /\ pc' = IF \E q \in Req \ {r} : req[q].xfer = "ended" THEN "transfers" ELSE "idle"
  /\ UNCHANGED <<pause_state, preempted_req_ids, batch_queue, step, todo, worker,
                 config>>

\* The worker's connector has something to report of a transfer, of which it
\* knows since the oldest step in flight or an earlier one, with that step's
\* output.
Transfer(r) ==
  /\ pc \in {"idle", "blocked"}
  /\ batch_queue # <<>>
  /\ req[r].xfer = "running" /\ req[r].start <= 1
  /\ req' = [req EXCEPT ![r].xfer = "ended"]
  /\ UNCHANGED <<queues, pause_state, cache, finished_req_ids, preempted_req_ids,
                 batch_queue, pc, step, todo, worker, config>>

-----------------------------------------------------------------------------
\* _process_input_queue blocks for the next client call.
WaitForWork == pc = "idle" /\ ~HasWork /\ UNCHANGED vars

EngineStep ==
  \/ BeginSchedule
  \/ SkipRunning
  \/ ScheduleRunning
  \/ PreemptRunning
  \/ EndRunning
  \/ SkipWaiting
  \/ PromoteLoaded
  \/ StartLoad
  \/ ScheduleWaiting
  \/ EndSchedule
  \/ BeginUpdate
  \/ ProcessOutput
  \/ \E r \in Req : UpdateTransfer(r)

ClientCall ==
  \/ \E r \in Req : AddRequest(r)
  \/ \E r \in Req : AbortRequest(r)
  \/ \E p \in config.pause_states : SetPauseState(p)
  \/ ResetPrefixCache

Next == EngineStep \/ WaitForWork \/ ClientCall \/ \E r \in Req : Transfer(r)

Spec == Init /\ [][Next]_vars

\* run_busy_loop keeps stepping the engine while it has work, and a transfer
\* does not run for ever: it succeeds or fails while steps go on.
FairSpec ==
  /\ Spec
  /\ WF_vars(EngineStep)
  /\ \A r \in Req : SF_vars(Transfer(r))

-----------------------------------------------------------------------------
\* The entries of r in flight, oldest first, and the sum of f over some.
InFlight(r) ==
  SelectSeq(todo \o FlattenSeq(batch_queue), LAMBDA e : e.req = r)

SumOver(s, f(_), I) == MapThenSumSet(LAMBDA i : f(s[i]), I)

\* The type of the state.  No counter of a request goes below zero or beyond
\* the model length, whatever drafts are accepted or rejected, and neither the
\* running queue nor the batch queue outgrows its limit.
TypeOK ==
  /\ \A r \in Req :
       /\ req[r].status \in
            {"NEW", "WAITING", "REMOTE", "RUNNING", "PREEMPTED", "FINISHED"}
       /\ req[r].xfer \in {"none", "running", "ended", "known"}
       /\ req[r].start \in 0 .. MaxBatches
       /\ req[r].num_tokens \in NumPrompt[r] .. MaxModelLen
       /\ req[r].num_computed_tokens \in 0 .. MaxModelLen - 1
       /\ req[r].num_spec \in 0 .. NumSpec
       /\ {req[r].num_in_flight_tokens, req[r].num_stale_output_tokens,
           req[r].num_output_placeholders} \subseteq Nat
       /\ {req[r].drop_stale_output, req[r].inflight_prefill, req[r].failed,
           req[r].resumes, req[r].offered} \subseteq BOOLEAN
       /\ req[r].blocks \subseteq Block
       /\ req[r].last_sched \in 0 .. MaxBatches
       /\ req[r].decode_wait \in 0 .. PipelineSize
  /\ {running, waiting, kv_holding_waiting, step.skipped, step.skipped_kv}
       \subseteq Seq(Req)
  /\ Len(running) <= MaxNumSeqs
  /\ free \subseteq Block
  /\ \A i \in DOMAIN deferred_frees : deferred_frees[i].fence \in 1 .. MaxBatches
  /\ Len(batch_queue) <= IF pc = "blocked" THEN MaxBatches ELSE MaxBatches - 1
  /\ \A r \in Req : \A i \in DOMAIN InFlight(r) : InFlight(r)[i].n \in 1 .. TokenBudget
  /\ pc \in {"idle", "running", "waiting", "blocked", "output", "transfers"}
  /\ step.token_budget \in 0 .. TokenBudget

\* The model runner never runs out of request slots, every request that a step
\* schedules has one, and so has every request reported as preempted, whose
\* sampler state is saved from it: RequestState.add_request, update_requests
\* and RwkvSampler.preempt_request would fail otherwise.
WorkerSlots ==
  /\ Cardinality(worker_reqs) <= MaxNumSeqs
  /\ batch_queue # <<>> => \A e \in ToSet(Last(batch_queue)) : e.req \in worker_reqs
  /\ preempted_req_ids \subseteq worker_reqs

\* A request is in exactly one queue, once, and its status says which one:
\* no preemption, abort, resumption, stop or load that crosses a step in flight
\* loses a request or queues it twice.  A request that holds blocks is never in
\* the queue that PAUSED_NEW leaves alone.  The worker's slots follow.
QueuesMatchStatus ==
  LET queued  == waiting \o step.skipped
      holding == kv_holding_waiting \o step.skipped_kv
  IN /\ WorkerSlots
     /\ IsInjective(running) /\ IsInjective(queued \o holding)
     /\ ToSet(running) = {r \in Req : req[r].status = "RUNNING"}
     /\ ToSet(queued \o holding) =
          {r \in Req : req[r].status \in {"WAITING", "PREEMPTED", "REMOTE"}}
     /\ \A r \in ToSet(queued) : req[r].blocks = {} /\ req[r].status # "REMOTE"

\* While a step is in flight, no block it may write is free or held by another
\* request: a connector that fills a reallocated block at once never races the
\* step (DeferBlockFree).
FencedWhileWritten ==
  DeferBlockFree =>
    \A i \in DOMAIN batch_queue : \A e \in ToSet(batch_queue[i]) :
      /\ e.blocks \cap free = {}
      /\ \A q \in Req \ {e.req} : e.blocks \cap req[q].blocks = {}

\* Every block is in exactly one place: the free list, one request, or one
\* deferred free; a block that a step in flight writes is fenced, a request
\* keeps its blocks while they are transferred, also when it is aborted, and
\* every computed token has its slot, also after a load that failed in part.
BlocksConserved ==
  LET holders(b) == {r \in Req : b \in req[r].blocks}
      fences(b)  == {i \in DOMAIN deferred_frees : b \in deferred_frees[i].blocks}
  IN /\ FencedWhileWritten
     /\ \A r \in Req :
          /\ req[r].xfer \in {"running", "ended"} =>
               req[r].blocks # {} /\ req[r].status \in {"REMOTE", "FINISHED"}
          /\ NumBlocks(req[r].num_computed_tokens) <= Cardinality(req[r].blocks)
     /\ \A b \in Block :
          Cardinality(holders(b)) + Cardinality(fences(b))
            + (IF b \in free THEN 1 ELSE 0) = 1

\* The counters of a live request agree with the steps that are really in
\* flight: num_in_flight_tokens is their sum, the stale share covers a whole
\* number of the oldest ones (so that draining it never goes below zero), and
\* the placeholders are the tokens that the others may still produce.
CountersMatchSteps ==
  /\ TypeOK
  /\ \A r \in Req : Live(r) =>
    LET s == InFlight(r)
        n(e) == e.n
        produces(e) == IF Async /\ e.samples THEN 1 + e.spec ELSE 0
    IN /\ req[r].num_in_flight_tokens = SumOver(s, n, DOMAIN s)
       /\ \E k \in 0 .. Len(s) :
            /\ req[r].num_stale_output_tokens = SumOver(s, n, 1 .. k)
            /\ req[r].num_output_placeholders = SumOver(s, produces, k + 1 .. Len(s))

\* What AsyncScheduler commits to the prefix cache after an output,
\* num_computed_tokens - num_output_placeholders, never reaches a token that
\* is not sampled yet, whatever drafts were rejected, and with output pending
\* it is exactly one token behind.  Without async scheduling the same holds
\* whenever no step of the request is in flight.
FrontierVerified ==
  \A r \in Req : req[r].status = "RUNNING" /\ (Async \/ InFlight(r) = <<>>) =>
    LET frontier == req[r].num_computed_tokens - req[r].num_output_placeholders IN
    /\ 0 <= frontier /\ frontier < req[r].num_tokens
    /\ req[r].num_output_placeholders > 0 => frontier = req[r].num_tokens - 1

\* Tokens reach a request in the order of their positions, none twice and none
\* left out: what is appended was sampled by a worker that had exactly the
\* tokens the request has now, across preemptions and resets with steps in
\* flight.
DeliveredInOrder ==
  [][\A r \in Req : req'[r].num_tokens # req[r].num_tokens =>
       /\ Head(todo).req = r
       /\ WorkerLen(Head(todo)) = req[r].num_tokens]_vars

\* Unless clients pause the engine again and again or for good, every request
\* finishes: no chain of preemptions, deferred frees and skipped admissions
\* starves it.
RequestsFinish ==
  <>[](pause_state = "UNPAUSED") =>
    \A r \in Req : req[r].status = "WAITING" ~> req[r].status = "FINISHED"

\* A pause that keeps the requests comes to rest: what is in flight is
\* processed and every deferred block returns to the pool.
PauseQuiesces ==
  pause_state = "PAUSED_ALL" ~>
    ((batch_queue = <<>> /\ deferred_frees = <<>>) \/ pause_state # "PAUSED_ALL")
=============================================================================
