# Verification of the vLLM-RWKV serving engine

TLA+ models of the parts of this vLLM fork in which concurrency, resource
accounting and recovery live: the scheduler and the engine loop that drives
it, the KV cache, the recurrent state of RWKV requests, the encoder cache, the
shared-memory message queue and the executor on top of it, the waves of
data-parallel engines, and the production deployment script. TLC checks the
models on small instances; TLAPS proves the block pool, the KV cache, the
message queue, the executor, the waves and the deployment script correct for
all instances.

    tlc -workers 2 -config Scheduler.cfg MCScheduler     # one run
    tlapm KVCacheManagerProofs.tla                       # one module of proofs

`PROJECT.json` lists the runs, the lines of source that each definition
models, the mutations that show each property can fail, the hazards and the
finding. Paths below are relative to `src/`.

## 1. The system and its inventory

A front end (`vllm/v1/engine/async_llm.py`) sends requests to one or more
engine-core processes (`vllm/v1/engine/core.py`), whose loop alternates between
client calls and steps. A step asks the scheduler (`vllm/v1/core/sched/`) which
requests run and for how many tokens, sends this through the executor and its
shared-memory queue to the worker processes (`vllm/v1/executor/`,
`vllm/v1/worker/`), and applies their output. With asynchronous scheduling or
pipeline parallelism several steps are in flight at once: the scheduler then
decides on the basis of tokens that have not been sampled. The cache managers
(`vllm/v1/core/`) supply the memory, and share it between requests with equal
prefixes. RWKV requests keep a recurrent state instead of keys and values.
Data-parallel engines run in lockstep and agree on when to stop.

| Component | State | What makes it hard | Module |
|---|---|---|---|
| Free block queue, `kv_cache_utils.py` | doubly linked list, count | removal from the middle; links left behind | `FreeKVCacheBlockQueue`, `FreeBlockOrder`, `BlockSequences`, `FreeListProofs` |
| Block pool, `block_pool.py` | reference counts, free list, hash map, hashes per block, watchers, events | several hashes per block, several blocks per hash; reuse of a cached block; events | `BlockPool`, `BlockPoolProofs` |
| KV cache manager, `kv_cache_manager.py`, `single_type_kv_cache_manager.py` | block table and cached-block count per request | blocks are cached before they are computed; a shared block is never written | `KVCacheManager`, `KVCacheManagerProofs` |
| Scheduler, `sched/scheduler.py`, `sched/async_scheduler.py`; engine loop, `engine/core.py`; request slots, `worker/gpu/` | requests, queues, counters, deferred frees, pause state, batch queue | output of steps that were scheduled before a preemption, an abort or a reset | `Scheduler` |
| Scheduling policies, `sched/request_queue.py` | priority order, prefix cache | a request is preempted in the step that scheduled it | `PrioritySchedule` |
| RWKV state, `worker/gpu/model_states/rwkv.py`; `MambaManager` | state blocks, worker columns, saved sampler state | the state is updated in place; a step in flight is not undone | `RwkvState` |
| Encoder cache, `encoder_cache_manager.py`, `worker/gpu/mm/` | references, freeable entries, worker cache | shared outputs, evicted while steps are in flight | `EncoderCacheManager`, `EncoderCache` |
| Message queue, `shm_broadcast.py` | ring, flags, sockets | lock-free flags, lost wake-ups, payloads on a second channel | `ShmBroadcast`, `BroadcastQueue`, `ShmBroadcastProofs` |
| Executor, `multiproc_executor.py` | futures, response queues | answers without a call number; workers that die | `MultiprocExecutor`, `MultiprocExecutorProofs` |
| Data parallelism, `engine/coordinator.py`, `engine/core.py`, `engine/core_client.py` | wave numbers, engine states | messages that cross; collectives | `DPWaves`, `DPWavesProofs` |
| Deployment script, `tools/deploy_rwkv_production.sh` | links, units, saved state | a failure between two commands | `DeployRelease`, `DeployReleaseProofs` |

`MC*` modules give the constants of the instances. Where several configurations
of a component are of interest, the choice is a variable (`config`, or `policy`
in `EncoderCache`) that `Init` takes from a set and no action changes: one run
then covers all of them.

## 2. The modules

**`FreeKVCacheBlockQueue`** models the linked list pointer by pointer, with the
two sentinel nodes. Each method is an operator on the record of links, and
`BlockPool` uses these operators. `FreeBlockOrder` is what the list promises: a
sequence from which blocks leave at the front or from anywhere and to which
they return at either end. `ImplementsOrder` says that the walk along the
pool's links is such a sequence. `BlockSequences` has what the two share: the
orderings of a set of blocks, and a sequence without some of its elements.

**`BlockPool`** has holders (`Client`) that take, touch, free and unpin blocks,
and enter them in the cache under full-block or partial-block hashes. The
published KV events are replayed into `published`, per hash the number of
blocks that a subscriber would count as cached. `emit_cached_block_events`
(`kv_cache_report_mode = "full"`) publishes BlockStored for the blocks of a hit,
which changes nothing in the cache and which no removal matches; `repeated`, a
history variable, counts these reports since the last reset, and
`EventsMirrorCache` says that the count is what is cached plus those. A
subscriber that counts never counts too little, and too much exactly by the
reports. What is reported is any set of full-block hashes while something is
cached: the code names as many blocks of the request as the hit has, null blocks
of a sparse hit included. A pool record keeps the hash map as a set of blocks
per hash (`BlockHashToBlockMap` keeps one block or a dictionary).
`touch`, `free_blocks` and `unpin_blocks` are given their blocks in any order.
All blocks are of one pool: `free_blocks` hands blocks of another pool on to that
pool (`block_pool.py:788`), which is a `free_blocks` there. The watchers are a
set of blocks, where the code keeps one callback per block and the last
`unpin_blocks` wins (`:724`); with a single callback, as its only caller has,
that is the same.

**`KVCacheManager`** is the manager of full-attention requests. `Admit` is
`get_computed_blocks` followed by `allocate_slots` for a request without
blocks, `Continue` is `allocate_slots` for one that runs, `Preempt` and
`Finish` are `free`. `data`, a history variable, is the prefix whose keys and
values a block holds; the worker executes steps in the order they are
scheduled, so scheduling order is the order of writes. That a scheduled step is
executed at all holds under FCFS; `PrioritySchedule` treats the other policy.
Which free blocks are taken is left open. Admission allows more than the code
does (no watermark, no full-sequence reservation), so what holds here holds for
every admission rule.

**`Scheduler`** is the engine loop with `Scheduler` or `AsyncScheduler`. `pc` is
the place in the loop: `idle` (between steps), `running` and `waiting` (the two
loops of `schedule`), `blocked` (waiting for the oldest output), `output` and
`transfers` (the loop of `update_from_output` and its connector part).

| Action | Code |
|---|---|
| `AddRequest`, `AbortRequest` | add_request; finish_requests, between steps or in _process_aborts_queue |
| `SetPauseState`, `ResetPrefixCache` | pause_scheduler, resume_scheduler; reset_prefix_cache with running requests |
| `BeginSchedule`, `SkipRunning`, `ScheduleRunning`, `PreemptRunning`, `EndRunning` | the loop of `schedule` over the running requests |
| `SkipWaiting`, `PromoteLoaded`, `StartLoad`, `ScheduleWaiting`, `EndSchedule` | the loop over the waiting requests (with `_handle_blocked_waiting_request` and the asynchronous load branch), `_update_after_schedule`, submission to the worker |
| `BeginUpdate`, `ProcessOutput` | `update_from_output`: deferred frees, then one request at a time |
| `UpdateTransfer` | failed and invalid loads, `_update_from_kv_xfer_finished` |
| `Transfer` | external: the worker's connector has something to report of a transfer |
| `WaitForWork` | the engine blocks on its input queue |

The body of `schedule` runs without interruption; it is split in actions so
that each is readable, and no client call is enabled while it runs. A batch is
the sequence of its entries: request, number of tokens, whether it samples,
number of drafts. The worker accepts any number of drafts, and any token may be
the end of sequence. Step numbers are kept relative to the last processed one,
which makes the state space finite without a bound on the number of steps.
Modelled configuration: FCFS policy; chunked prefill; full attention without
prefix hits; `scheduler_reserve_full_isl`; no lookahead slots; no encoder
inputs, LoRA, structured output, streaming sessions or DP prefill balancing.
`max_num_active_seqs` is unset. With draft tokens prompts have
more than one token, so padding of drafts does not arise.

A KV connector may offer to load a prompt in part or whole (`Matches`). The
request then holds blocks in `kv_holding_waiting` with status `REMOTE`
(WAITING_FOR_REMOTE_KVS) until the worker reports the end, which `xfer` follows:
`running`, `ended` at the worker, `known` to the scheduler. A report may say
that a suffix is invalid, with the end or ahead of it; the request goes on from
what is valid, or ends with an error (`Recompute`). A request aborted while its
load runs, and one the connector sends away when it stops, keep their blocks
until the end is reported; connectors are taken to send only requests that
stopped by themselves. The fields `xfer` of a finished request and `start` (how
many steps away the worker is from hearing of the transfer) are the worker's
side. A connector may also leave its answer open, so that the request is skipped
in this step (`Undecided`), and hold frees back, so that a request without room
waits instead of preempting another (`EndRunning`, `has_pending_block_frees`);
the configuration `FailedLoads` of the run `scheduler` has such a connector
(`hesitates`), the one of `sched_liveness` answers at once. Loads that extend a
local prefix hit, synchronous loads, lookahead slots beside loads and a cache
reset during a load (which raises) are left out.

**`PrioritySchedule`** is `schedule` under either policy with prefix caching and
synchronous steps. The victim of a preemption is the last running request under
FCFS and the one that sorts last under priority; the latter may already have
tokens, blocks and cache entries from the same step, which `WithoutVictim` and
`PreemptRunning` undo as the code does. `RunStep` is the worker and
`update_from_output`. A hash, and what is written in a block, is the prefix of
tokens that ends there.

**`RwkvState`** follows a recurrent state from the scheduler to the GPU. A state
is the sequence of tokens folded into it, and so is the chained hash of a block
boundary. The actions of one engine step are those of the scheduler
(`StartStep` ... `EndStep`) with the operations of `MambaManager` in them
(`HitBlocks`, `AllocateNewBlocks`, `RemoveSkippedBlocks`, `CacheBlocks`);
`Execute` is the worker's part of a step (`finish_requests`, `add_requests`,
`update_requests`, `preprocess_state`, the sampler), some steps later;
`UpdateFromOutput` applies its output. Without prefix caching (`align` false)
a request has a single block that is zeroed when it is taken. Blocks that
`remove_skipped_blocks` lets go are retired one step late
(`last_state_block_idx`), as in the code, because a step in flight reads them.
The sampler's penalty counts are modelled as the number of tokens counted;
tokens whose output is dropped after a cache reset stay counted, as in the
code, and `SamplerExact` includes them. `BlockAlignedSplit` is for the
configuration without `long_prefill_token_threshold`, which would bound the
width of a chunk (`scheduler.py:498`), and without the stops of
`mamba_partial_cache_hit` and of a shared-prefix junction (`:515`): these cut
chunks shorter, at a position whose state is cached.

**`EncoderCacheManager`** has one operator per method of the class;
**`EncoderCache`** is the scheduler's use of it (`_try_schedule_encoder_inputs`,
the frees after an output), with the worker's cache and steps in flight. KV
pressure and prefix hits are left open.

**`ShmBroadcast`** has one action per load or store of a flag: `AcquireWrite`,
filling, resetting and publishing a chunk, sending an overflow payload, the
notification; for each reader the scan of the flags, the idle wait with its
dropped pings and periodic recheck, copying, marking, receiving a payload,
timeouts, and shutdown by another thread. The writer may crash anywhere.
`BroadcastQueue` is what it promises: every reader gets the messages in order.

**`MultiprocExecutor`** makes calls to all workers or to the output rank,
blocking or not, with or without a timeout; workers fail calls or die; the
monitor thread shuts the queues down. The queues are taken as FIFOs, which is
what `ShmBroadcast` shows of them. Putting an answer in the response queue
succeeds (`SendOutput`; in the code a failure there ends the output thread), and
so does aggregating the answers of a call that all workers answered
(`Receive`).

**`DPWaves`** has the engines' busy loops, the coordinator and one client.
`Forward`, `Reduce` and `ResumeBarrier` are the collectives: they happen when
all ranks have arrived. Each socket is a FIFO, and different sockets are
independent. The coordinator publishes its state at any time, changed or not,
also while earlier ones are on their way (at most `MaxPublished`). An engine has
work while it runs or has unfinished requests (`HasWork`); that `has_work` also
waits for batches in flight, for finished requests the workers have not heard
of and for a connector's pushes is left out: a step for these schedules no token
and joins no forward pass.

**`DeployRelease`** has one action per command of the script that changes the
host. A command that the script checks may fail, with or without its effect. One
whose failure it ignores (`systemctl disable` and `stop` with `|| true`, and
`rm -f` inside functions where `set -e` is suspended) may leave any part of its
work undone and the script goes on: `left`, a history variable, records what.
The script may be killed between two commands. A unit, a binary and a site file
stand for the release they were taken from. systemd, nginx and the file system
are external: a service that already runs is not started again, and one whose
release is not on disk does not run.

## 3. The runs

| Run | Checks | What it shows |
|---|---|---|
| `block_pool` | `FreeListIsUnreferenced`, `HashIndexesAgree`, `EventsMirrorCache`, `HandedOutQuiet`, `ImplementsOrder` | reference counts, the two hash indexes, the events and the reuse watchers stay in step; the linked list is a sequence, whatever the order of calls; repeated reports of cached blocks included |
| `kv_cache` | `RefCountsExact`, `CacheEntriesTrue`, `TablesHoldOwnPrefix`, `WriteTargetPrivate` | sharing of blocks never mixes up or overwrites a prefix |
| `scheduler` | `QueuesMatchStatus`, `BlocksConserved`, `FrontierVerified`, `CountersMatchSteps`, `DeliveredInOrder` | asynchronous scheduling with drafts, a connector's deferred frees with pauses, its loads and sends with failures, synchronous scheduling with longer drafts: whatever is preempted, aborted or reset while steps and transfers are in flight, the books balance and each position is delivered once |
| `sched_liveness` | `RequestsFinish`, `PauseQuiesces` | no request starves, also behind a load that fails; a pause comes to rest |
| `rwkv_state` | `RunningStateExact`, `CachedStateTrue`, `SamplerExact`, `StepsProgress` | a request continues from the state of exactly its own tokens; cached states are those their hashes promise; no step is empty while a request could run |
| `priority` | `FcfsCacheComputed`, `StepBooksExact`, `EveryArrivalFinishes` | under FCFS what is cached is computed; preemption inside a step leaves the budget and the rows exact under both policies; nobody starves |
| `priority_cached` | `CachedBlocksComputed` (violated) | the finding of section 4 |
| `encoder_cache` | `BooksExact`, `NoCacheMiss`, `StepsProgress` | slots return once; under FCFS no step lacks an encoder output; requests that wait for the cache do not block one another |
| `shm_queue` | `ReadsNextMessage`, `ImplementsQueue`, `EveryMessageReturned`, `ShutdownStops` | the ring is a broadcast FIFO; lost pings delay but do not stop a reader; shutdown ends a wait |
| `executor` | `UndoneAreQueued`, `ResultsOfOwnCall`, `EveryWaitEnds` | answers are paired with their calls in any order of asking; no wait outlives a dead worker |
| `deploy` | `RestoredExact`, `DeployedServes`, `RollbackReady` | what the script reports is so, up to what commands whose failure it ignores left undone |
| `dp_waves` | `SameCollective`, `PausedStays`, `EveryRequestServed`, `PausesComplete` | ranks never wait in different collectives; requests are served; pauses are agreed on |

The type invariant of a module, and invariants that only serve another one,
are conjuncts of the property they serve: `TypeOK` of the first invariant of
its module that says most about the types, the slots of the model runner of
`QueuesMatchStatus`, the fence around blocks in flight of `BlocksConserved`,
`EnqueueReturns` of `EveryMessageReturned`, `ServingOnDisk` of `RollbackReady`.

**Bounds.** In `kv_cache` and `scheduler` blocks hold two tokens, and a request
needs two or three of the three or four blocks: two requests cannot both run
to their end, so preemption happens, while one of full length fits, which
engine start-up demands (`SchedulerAssumption`). Three requests make a
preempted, a running and an unseen one possible at once; one has a longer
prompt, so that chunks end inside and at the end of a block. The token budget
is smaller than the sum of the prompts, so that prefill is chunked, and
`MaxNumSeqs` smaller than the number of requests, so that worker slots matter.
Blocks are interchangeable, and so are requests of equal prompt and limits:
symmetry reduces over them in the safety runs and not in the liveness runs; in
`block_pool` over clients, blocks and full-block hashes. There each hash is
reported again at most once between two resets (`MaxReports`).
Loads are of two or three tokens: part of the longer prompt, a whole shorter
one, or the whole longer one, whose last token is computed again. Loads
combined with cache resets between them were also checked without a run
(before failures could be reported ahead of the end): 7.3 million states, and
5.4 million where failures end the request.
`rwkv_state` has requests that share one block and a whole prompt, a budget
above and one below the block size, an abort and a reset. `encoder_cache` has an
item that occurs twice in one request, one that two requests share, and one
that fills the cache. In `shm_queue` four messages lap a ring of two chunks
twice, and two of them overflow; one reader can be shut down and the other
uses timeouts. `executor` makes three calls to two workers, enough for a
future to be asked for with an older one unserved and a failed call before it.
`deploy` allows three operations on three releases, with two failures, or one
and a kill, on a model host, and with two failures and a kill on the frontend;
first deployments are among them, on a model host with three failures.
`dp_waves` has two engines, two published states under way, and two requests, or
one request and a pause in each mode. Without fairness, with one published state
under way and for `SameCollective` and `PausedStays` it was also checked with two
requests and a pause (1.5 million states in each mode), with three engines, one
request and a pause that waits (186,338 states), and with two pauses in mode
abort (246,423 states); `EveryRequestServed` also for three engines and one
request.

**Fairness.** Weak fairness of the steps of each thread or process, and nothing
of the clients. `run_busy_loop` calls the step function again and again while
there is work, and no step of the model waits for anything but the output of
the oldest batch, which is taken to arrive. Workers call `dequeue` in an
endless loop; a poll with a timeout returns; a call that was begun is carried
on while its process lives. In `DPWaves` an engine's handling of its input
(`HandleStart`, `HandleInput`) is strongly fair: the action is disabled while
the engine is in a step, but the loop empties the queue before each. A client
that paused the engines resumes them. In `Scheduler` a transfer is strongly
fair: its report travels with the output of a step, so it is enabled again and
again rather than continuously, and a connector reports each load sooner or
later as done or failed. An engine paused for good finishes
nothing; `RequestsFinish` says so in its premise. `rwkv_state` and
`encoder_cache` state progress as an invariant instead (`StepsProgress`): a
step that schedules nothing, with nothing in flight, has nobody to schedule.

## 4. Finding and observations

**Finding** (`priority_cached`). Under the priority policy a request that the
current step has already scheduled can be preempted; the hashes of the blocks
it was about to fill stay in the prefix cache, although nobody computes them.
`KVCacheManager.get_computed_blocks` promises blocks that "have already been
computed".

The following behaviours were met while modelling and read off the code. No run
checks them; where a changed property or constant shows one, the entry says so.

1. `reset_prefix_cache` with running requests preempts all of them so that
   "we can make sure the reset is successful" (`scheduler.py:2853`). Under
   deferred frees a request with a step in flight keeps its blocks until that
   step is processed, so the pool is not empty and the reset raises.
2. `pause_generation(mode="wait")` is documented to wait for all requests in
   flight (`docs/training/async_rl.md:26`). A request that is preempted under
   PAUSED_NEW is neither resumed nor counted (`scheduler.py:905`, `2808`), and
   the pause completes without it.
3. When one output names an RWKV request both preempted and finished (reset,
   then abort), `finish_requests` saves its sampler state and then removes the
   request while its slot exists; the saved state is never released
   (`rwkv.py:234`; compare `tests/models/rwkv/test_rwkv.py:1080`). No property
   forbids it: `SamplerExact` is about the requests that run.
4. Preempting a request scheduled in the same step removes its encoder inputs
   from the step and leaves the items in the encoder cache (`scheduler.py:807`);
   another request then counts on an output nobody computes. `NoCacheMiss`
   without its restriction to `policy = "fcfs"` shows it.
5. `dequeue` receives an overflow payload without a deadline
   (`shm_broadcast.py:989`). If the writer's process dies after publishing the
   chunk and before sending the payload, shutdown does not wake the reader;
   `ShutdownStops` therefore excludes that crash.
6. `get_response` raises at the first failure and leaves later ranks' answers
   queued (`multiproc_executor.py:445`); answers carry no number, so an engine
   that goes on after a failed utility call pairs them with the next call.
   `abstract.py:298` knows of it. `ResultsOfOwnCall`
   without its premise shows it.
7. A first deployment that fails restores a `current` link that points to
   itself: `readlink -f` of a missing link prints the link's own path
   (`deploy_rwkv_production.sh:367`).
8. Deploying the current release again links `previous` to it and prunes the
   release before (`:684`), while `docs/models/rwkv.md:196` says to keep it.
9. A script killed between installing the site file and reloading nginx leaves
   a next run that finds the files equal and does not reload (`:336`).
   `DeployedServes` and `RestoredExact` say so instead of forbidding it: nginx
   may be left with what it had loaded.
10. Resume and START_DP_WAVE travel on different sockets. A rank that has not
    resumed discards the start (`core.py:2273`) on which another rank acts,
    and the latter waits alone in the forward pass until other traffic wakes
    the rest. Two requests and one pause in mode keep show it;
    `EveryRequestServed` therefore leaves out clients that pause.
11. A request whose load failed entirely gives its blocks back and stays in
    `_inflight_prefills`. If the connector offers the load again, the reserved
    blocks include the request's own need (`scheduler.py:1236`), where the
    comment speaks of "other in-flight reservations". Alone in a free pool, a
    request that needs more than half of it is then not admitted as long as
    the connector keeps offering. `reoffers = TRUE` and the claim that a
    waiting request alone in a free pool fits show it; the runs have
    connectors that offer a load once.

## 5. The proofs

`KVCacheManagerProofs` proves, for every finite set of requests and any sets of
blocks and hashes, every block size and length:

| Theorem | States |
|---|---|
| `TypeCorrect` | `Spec => []TypeOK` |
| `ReferencesExact` | `Spec => []RefCountsExact` |
| `CacheNeverLies` | `Spec => []CacheEntriesTrue` |
| `OwnPrefixOnly` | `Spec => []TablesHoldOwnPrefix` |
| `WritesPrivate` | `Spec => []WriteTargetPrivate` |

The assumption is `CacheAssumption`: `IsFiniteSet(Req)`, positive block size,
and that the hash of a prefix determines its length. The last is what chaining
gives if hashes do not collide; equal hashes of equal length are what sharing
is about and need no assumption, since a hash stands for the prefix itself.

None of the properties is inductive alone. A block is free when no table holds
it, so that a new block belongs to nobody (`RefCountsExact`); a table is exactly
as long as its computed tokens need, its full blocks and no others have been
offered to the cache (`TableShape`); the hash map is the inverse of the
blocks' hashes, and a block with a hash holds that prefix (`HashIndex`).
Together with `TablesHoldOwnPrefix` and `WriteTargetPrivate` these form
`IInv`. The argument: a step writes only blocks beyond the full ones; these are
private and uncached, so the write changes neither what the cache nor what
another table says; afterwards those that became full hold the request's own
prefix and are entered under that very hash. Hits extend a table by blocks
that hold the prefix by `HashIndex`. The proof has one lemma per action;
`AllocateSlotsIInv` carries the argument, on top of lemmas on integer division
(`NumFullUnique`, `NumBlocksBounds`, ...).

`ShmBroadcastProofs` proves, for every number of readers, of chunks and of
messages, every choice of overflowing messages and of readers with timeouts
(`ShmAssumption`):

| Theorem | States |
|---|---|
| `RingInvariant` | `Spec => []RingInv` |
| `RingSafe` | `Spec => []ReadsNextMessage`, and the writer never laps a reader |
| `RingImplementsQueue` | `Spec => ImplementsQueue`: the queue refines the broadcast FIFO, seen by the readers without timeouts |

`RingInv` is `TypeOK /\ Positions /\ Chunks /\ WriterInv /\ ReaderInv`. The flags
of a chunk say which message it holds and who has read it only while no one is
between two stores; `Chunks` states it for a quiet chunk, `WriterInv` what holds
while the writer has reset some read flags and not yet published, and
`ReaderInv` what a reader may conclude from a flag it has loaded: the writer
cannot reuse the chunk before this reader marks it. `Positions` ties the ring
indices to message numbers. For the refinement, `QueueInv` adds that a patient
reader has returned a prefix of the messages (`Returned`), that the payloads
waiting in its socket are those of the overflow chunks it has marked
(`Waiting`), and that the payload the writer is about to send is the next
(`Unsent`).

`BlockPoolProofs`, on top of `FreeListProofs`, proves for all finite sets of
blocks and clients, any sets of hashes and any `MaxReports`, with and without
caching
(`QueueAssumption`, `PoolAssumption`: the sentinels are no blocks, a hash is
either of a full or of a partial block and stands for at least one token):

| Theorem | States |
|---|---|
| `FreeListExact` | `Spec => []FreeListIsUnreferenced`, the type invariant included |
| `IndexesExact` | `Spec => []HashIndexesAgree` |
| `EventsExact` | `Spec => []EventsMirrorCache`: the events count what is cached and the repeated reports, no more and no less |
| `HandOutsQuiet` | `Spec => HandedOutQuiet`, an action property |
| `ListImplementsOrder` | `Spec => ImplementsOrder`: the linked list refines `FreeBlockOrder` |

`FreeListProofs` says what each method of the list does to the sequence that
the links stand for. `Linked(q, s)` says that the links of `q` thread exactly
the blocks of `s` between the sentinels, that the other blocks have none and
that the counter is the length; `AllFreeBlocks` then returns `s`, and
`PopleftN`, `RemoveBlocks`, `AppendN` and `PrependN` turn it into a list linked
along the rest, the sequence without the removed blocks, or the concatenation.
These are facts about walks and loops of any length. They need induction, and
the induction theorems of the library cannot be used; the lemmas use a least
counterexample instead (`LeastNatural`): the set of lengths for which the claim
fails would have a least element, and the claim for the length before it gives
a contradiction. `PoolInv` is the inductive invariant: the types, that the list
is linked along some ordering of the blocks with `ref_cnt` zero, that `ref_cnt`
counts the holders, that the two indexes agree, that the events mirror the
cache up to the repeated reports, and that without caching nothing is in it. The free list alone is not
inductive: `free_blocks` puts a block back when its count reaches zero, which
is right only if the count is the number of holders. The refinement follows
from the same lemmas, one case per action: the sequence before and after a
step is related as `TakeFront`, `TakeOut` or `PutBack` say.

`MultiprocExecutorProofs` proves for any number of workers and calls
(`ExecutorAssumption`):

| Theorem | States |
|---|---|
| `NoFutureLost` | `Spec => []UndoneAreQueued`, in every configuration |
| `OwnResults` | `Spec => []ResultsOfOwnCall` |

`QueueInv` adds to the first that calls not yet made have no outcome and that
the future being served is older than the queued ones. For the second,
`AnswersInv` describes a worker's response queue and its output thread's queue
together as one stream (`Stream`): the answers to exactly the calls that this
worker has taken and that nobody has read yet, in the order of the calls. The
first of them is the answer to the oldest call being waited for. It holds until
the queues are shut down, or a call to all workers has failed: such a call is
awaited at once, so no other is open then, and the engine of this configuration
makes no more.

`DPWavesProofs` proves for any number of ranks, any `dp_sync_interval`, any
number of requests and pauses and any `MaxPublished` (`WavesAssumption`):

| Theorem | States |
|---|---|
| `CollectivesAgree` | `Spec => []SameCollective`, the type invariant included |
| `PauseHolds` | `Spec => []PausedStays` |

`WavesInv` says that the ranks count the same steps (`StepInv`), that an engine
has no more requests than were sent (`CountInv`, for the types), and in which
of five phases a pause is (`PauseInv`): nobody has heard of it, some have and
wait for the others, all drain what they have, all are paused, some have heard
of the resumption. In each phase it says what holds of the engines that have
the client's message and of those whose input queue still has it. That a rank
at the barrier of `resume_scheduler` never meets one in a forward pass is the
last phase: those that have not resumed are paused, and a paused rank starts no
wave.

`DeployReleaseProofs` proves for any number of releases, services, runs,
failing commands, ignored failures and kills, on model hosts and the frontend,
first deployments included (`DeployAssumption`):

| Theorem | States |
|---|---|
| `RestoreIsExact` | `Spec => []RestoredExact` |
| `DeploymentServes` | `Spec => []DeployedServes` |
| `RollbackIsReady` | `Spec => []RollbackReady` |

`DeployInv` says for each place in the script what the commands before it have
done: that the snapshot is that of the host as it was found (`Taken`), the part
of the saved state that is restored (`Restored`), what nginx has loaded
(`SiteAt`), the part of the release that is activated (`Activated`), which
releases have to be on disk and why (`OnDisk`), and, on a model host without
kills, that every service that no failed stop left running runs from the current
release and did so in every saved state (`CoherentInv`). Each part is stated up
to `left`.

Each inductive invariant was checked with TLC before it was proved: `PoolInv`
on the instance of `block_pool` (29,104 states), with the linked sequence
given by the walk, `ExecutorInv` (732,456 states), `WavesInv` on the instance
of `dp_waves` (158,461 states) and `DeployInv` on that of `deploy` (1,416,004
states).

Model-checked only, and why:

- all liveness (`RequestsFinish`, `PauseQuiesces`, `EveryArrivalFinishes`,
  `EveryMessageReturned`, `ShutdownStops`, `EveryWaitEnds`,
  `EveryRequestServed`, `PausesComplete`): fairness is beyond the prover;
- `Scheduler`, `PrioritySchedule`, `RwkvState` and `EncoderCache`: their
  inductive invariants, over the steps in flight and the place in the loop of
  `schedule`, have not been worked out.

The proofs of the pool try SMT with half a minute for each leaf
(`USE SMTT(30)`); the other modules ask for Zenon with a minute
(`USE ZenonT(60)`), and leaves that count or use sequences name SMT. Most of the
time goes into preparing obligations: the list and the pool take about eight
minutes each, the deployment four, the others one to three.

## 6. Limits

- `DPWaves`: 2 requests and a pause were checked for safety only (section 3).
- `DeployRelease`: `RollbackReady` is stated for scripts that were not killed,
  and for services that no failed stop left running. After a kill the saved units
  can name a pruned release. A failed staging on the frontend leaves a
  `.staging` directory that makes each later deployment of that release stop
  before it changes anything.
- `BlockPool`: one pool, and one callback for all watchers (section 2).
- `RwkvState`: `BlockAlignedSplit` without the long-prefill threshold and the
  stops at junctions and partial tails (section 2).
- `DPWaves`: `HasWork` without batches in flight, finished requests and pushes
  still to be reported (section 2).
- `MultiprocExecutor`: sending an answer and aggregating answers do not fail
  (section 2).
- `ShmBroadcast` has local readers only, `MultiprocExecutor` a single node.
- `ResultsOfOwnCall` is stated for the configuration without timeouts, without
  aggregation of connector output and with an engine that stops at a failure;
  observation 6 is why. `ReadsNextMessage` is about the chunks of the ring: a
  payload that comes after its reader timed out is returned by that reader's
  next overflow receive (`shm_broadcast.py:989`), so `ImplementsQueue` is stated
  for the readers without timeouts. `ShutdownStops` leaves out a reader that
  waits for the payload of a dead writer (observation 5).

## 7. Not modelled

- KV connectors: synchronous loads, loads that extend a local prefix hit, and
  the connectors' own schedulers and workers; the offloading managers. The
  transports are external.
- Streaming sessions, structured output (its grammar state lives in external
  libraries), LoRA limits and DP prefill balancing in the scheduler.
- Sliding-window, chunked-local and cross-attention managers, hybrid
  coordinators, partial-tail hits; the Mamba mode `all` and speculative blocks.
- The output processor and parallel sampling of the front end; sleep, shutdown
  and elastic scaling of the engine; several front ends and load balancing.
- Remote readers and the tensor arena of the message queue; start-up and
  multi-node executors.
- The RWKV API router (a stateless proxy), the RWKV model and tool parser,
  kernels, model definitions and HTTP entry points: numerical or input/output
  code that changes no state modelled here other than through the calls that
  are modelled. This is by far the larger part of the repository, so the
  models cover a small share of its lines and most of its shared state.
