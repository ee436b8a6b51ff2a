---------------------------- MODULE EncoderCache ----------------------------
(***************************************************************************)
(* The encoder cache between the scheduler and the workers: the scheduler  *)
(* decides with EncoderCacheManager which encoder inputs a step computes   *)
(* and which hashes it evicts, steps are executed in order some time       *)
(* later, and the outputs return to the scheduler, which then lets go of   *)
(* the inputs it has passed.  A request is prefilled in chunks and ends    *)
(* with its first output token.                                            *)
(*                                                                         *)
(* Whether the KV cache has room for a request is left open (KvPressure),  *)
(* and so is how long a prefix of it is found in the prefix cache.         *)
(***************************************************************************)
EXTENDS EncoderCacheManager

CONSTANTS
  NumTokens,       \* NumTokens[r]: num_prompt_tokens
  PrefixHit,       \* the lengths of prefix that may be found in the cache
  TokenBudget, EncoderBudget,
  MaxInFlight,     \* 1: synchronous, more: the batch queue
  KvPressure,      \* whether allocate_slots may fail
  Policies,        \* the scheduling policies: "fcfs", "priority"
  Priority,
  MayAbort, MayReset,
  None

VARIABLES
  policy,     \* the policy, fixed when the engine starts
  mgr,        \* EncoderCacheManager
  req, waiting, running,
  mismatch,   \* encoder_cache_mismatch_reqs
  step,       \* the step under construction; full: allocate_slots has failed
  inflight,   \* scheduler outputs sent to the workers, oldest first
  executed,   \* how many of them the workers have executed
  worker      \* the hashes in the workers' encoder_outputs

vars == <<policy, mgr, req, waiting, running, mismatch, step, inflight, executed, worker>>
sched == <<waiting, running, mismatch>>

Least(a, b) == IF a <= b THEN a ELSE b

Idle == [phase |-> "idle", idx |-> 1, left |-> TokenBudget, budget |-> EncoderBudget,
         rows |-> <<>>, pending |-> None, victims |-> {}, full |-> FALSE]

Init ==
  /\ policy \in Policies
  /\ mgr = NewManager
  /\ req = [r \in Req |-> [status |-> "new", computed |-> 0]]
  /\ waiting = <<>> /\ running = <<>> /\ mismatch = {}
  /\ step = Idle /\ inflight = <<>> /\ executed = 0 /\ worker = {}

\* get_mm_features_in_window
InWindow(r, from, to) ==
  {i \in DOMAIN Inputs[r] : Inputs[r][i].start + EmbedsOf(r, i) > from /\ Inputs[r][i].start < to}

\* _try_schedule_encoder_inputs for one input of r, after the ones before it:
\* a repeated item, a cached one, one that has no room (the chunk ends before
\* it), or one to compute.  The manager's state changes on the way.
TryInput(a, r, from, i) ==
  LET h     == HashOf(r, i)
      start == Inputs[r][i].start
      same  == {j \in a.compute : HashOf(r, j) = h}
      reject == [a EXCEPT !.stop = TRUE, !.n = 0, !.compute = {}, !.repeat = {},
                          !.mismatch = TRUE]
  IN CASE a.stop -> a
       [] ~a.stop /\ same # {} ->
            IF \A j \in same : EmbedsOf(r, j) = EmbedsOf(r, i)
            THEN [a EXCEPT !.repeat = @ \cup {i}] ELSE reject
       [] ~a.stop /\ same = {} /\ InCache(a.mgr, h) ->
            IF a.mgr.size[h] = EmbedsOf(r, i)
            THEN [a EXCEPT !.mgr = Refer(@, r, i)] ELSE reject
       [] ~a.stop /\ same = {} /\ ~InCache(a.mgr, h) ->
            LET scheduled == SumOf(r, a.compute) IN
            IF CanAllocate(a.mgr, r, i, step.budget - scheduled, scheduled)
            THEN [a EXCEPT !.mgr = Evict(@, EmbedsOf(r, i) + scheduled),
                           !.compute = @ \cup {i}]
            ELSE [a EXCEPT !.stop = TRUE, !.n = IF from < start THEN start - from ELSE 0]

\* Mutant: an item that a prefix hit ends within is taken for computed.
TryFresh(r, from, n) ==
  FoldLeft(LAMBDA a, i : TryInput(a, r, from, i),
           [mgr |-> mgr, n |-> n, compute |-> {}, repeat |-> {},
            stop |-> FALSE, mismatch |-> FALSE],
           SetToSortSeq({i \in DOMAIN Inputs[r] : Inputs[r][i].start \in from .. from + n - 1}, <))

Try(r, from, n) ==
  FoldLeft(LAMBDA a, i : TryInput(a, r, from, i),
           [mgr |-> mgr, n |-> n, compute |-> {}, repeat |-> {},
            stop |-> FALSE, mismatch |-> FALSE],
           SetToSortSeq(InWindow(r, from, from + n), <))

\* _allocate_encoder_inputs
AllocateInputs(m, r, t) ==
  FoldLeft(LAMBDA a, i : Refer(a, r, i),
           FoldLeft(LAMBDA a, i : Allocate(a, r, i), m, SetToSortSeq(t.compute, <)),
           SetToSortSeq(t.repeat, <))

Row(r, from, t) == [req |-> r, from |-> from, n |-> t.n, compute |-> t.compute]

\* The step with one more row.
WithRow(row) ==
  [step EXCEPT !.rows = Append(@, row), !.left = @ - row.n,
               !.budget = @ - SumOf(row.req, row.compute),
               !.pending = None, !.idx = IF step.phase = "running" THEN @ + 1 ELSE @]

-----------------------------------------------------------------------------
AddRequest(r) ==
  /\ step.phase = "idle" /\ req[r].status = "new"
  /\ req' = [req EXCEPT ![r].status = "waiting"]
  /\ waiting' = Append(waiting, r)
  /\ UNCHANGED <<policy, mgr, running, mismatch, step, inflight, executed, worker>>

StartStep ==
  /\ step.phase = "idle" /\ Len(inflight) < MaxInFlight /\ waiting \o running # <<>>
  /\ step' = [Idle EXCEPT !.phase = "running"]
  /\ UNCHANGED <<policy, mgr, req, sched, inflight, executed, worker>>

Turn == running[step.idx]
InRunningLoop ==
  /\ step.phase = "running" /\ step.pending = None
  /\ step.idx <= Len(running) /\ step.left > 0

\* The chunk of a running request and its encoder inputs; a request with no
\* token to compute is passed over.
TryRunning ==
  /\ InRunningLoop
  /\ LET from == req[Turn].computed
         t    == Try(Turn, from, Least(NumTokens[Turn] - from, step.left))
     IN /\ mgr' = t.mgr
        /\ mismatch' = IF t.mismatch THEN mismatch \cup {Turn} ELSE mismatch
        /\ step' = IF t.n = 0 THEN [step EXCEPT !.idx = @ + 1]
                   ELSE [step EXCEPT !.pending = Row(Turn, from, t) @@ [repeat |-> t.repeat]]
  /\ UNCHANGED <<policy, req, waiting, running, inflight, executed, worker>>

ScheduleRunning ==
  /\ step.pending # None
  /\ LET p == step.pending IN
     /\ mgr' = AllocateInputs(mgr, p.req, p)
     /\ step' = WithRow([req |-> p.req, from |-> p.from, n |-> p.n, compute |-> p.compute])
  /\ UNCHANGED <<policy, req, sched, inflight, executed, worker>>

Victim ==
  IF policy = "fcfs" THEN Last(running)
  ELSE CHOOSE v \in ToSet(running) : \A r \in ToSet(running) : Priority[r] <= Priority[v]

IndexIn(s, r) == CHOOSE i \in 1 .. Len(s) : s[i] = r

\* The KV cache is full: preempt, withdrawing what this step had scheduled of
\* the victim (under "priority"), and try again unless the victim is the
\* request itself.
PreemptRunning ==
  /\ KvPressure /\ step.pending # None
  /\ LET v     == Victim
         given == {row \in ToSet(step.rows) : row.req = v}
     IN /\ mgr' = Free(mgr, v)
        /\ req' = [req EXCEPT ![v] = [status |-> "waiting", computed |-> 0]]
        /\ running' = SelectSeq(running, LAMBDA r : r # v)
        /\ waiting' = <<v>> \o waiting
        /\ step' = [step EXCEPT
             !.rows = SelectSeq(@, LAMBDA row : row.req # v),
             !.left = @ + SumSet({row.n : row \in given}),
             !.budget = @ + SumSet({SumOf(v, row.compute) : row \in given}),
             !.idx = IF IndexIn(running, v) < step.idx THEN @ - 1 ELSE @,
             !.victims = @ \cup {v}, !.full = TRUE,
             !.pending = IF v = step.pending.req THEN None ELSE @,
             !.phase = IF v = step.pending.req THEN "done" ELSE @]
  /\ UNCHANGED <<policy, mismatch, inflight, executed, worker>>

EndRunningLoop ==
  /\ step.phase = "running" /\ step.pending = None /\ ~InRunningLoop
  /\ step' = [step EXCEPT !.phase = IF step.victims = {} THEN "waiting" ELSE "done"]
  /\ UNCHANGED <<policy, mgr, req, sched, inflight, executed, worker>>

\* A preempted request waits until its output in flight has returned.
Eligible(r) == \A k \in DOMAIN inflight : \A row \in ToSet(inflight[k].rows) : row.req # r
Candidates == SelectSeq(waiting, Eligible)
Candidate ==
  IF policy = "fcfs" THEN Head(Candidates)
  ELSE CHOOSE r \in ToSet(Candidates) : \A s \in ToSet(Candidates) : Priority[r] <= Priority[s]
InWaitingLoop == step.phase = "waiting" /\ step.left > 0 /\ Candidates # <<>>

\* A waiting request after a prefix hit of some length: admitted, or, when
\* there is no room for an encoder input or for the KV cache, the end of the
\* step; in the latter case it gives its references back.
ScheduleWaiting ==
  /\ InWaitingLoop
  /\ \E hit \in {k \in PrefixHit : k < NumTokens[Candidate]} :
       LET t   == Try(Candidate, hit, Least(NumTokens[Candidate] - hit, step.left))
           row == Row(Candidate, hit, t)
       IN \/ /\ t.n = 0
             /\ mgr' = t.mgr
             /\ mismatch' = IF t.mismatch THEN mismatch \cup {Candidate} ELSE mismatch
             /\ step' = [step EXCEPT !.phase = "done"]
             /\ UNCHANGED <<policy, req, waiting, running>>
          \/ /\ t.n > 0 /\ KvPressure
             /\ mgr' = Free(t.mgr, Candidate)
             /\ step' = [step EXCEPT !.phase = "done", !.full = TRUE]
             /\ UNCHANGED <<policy, req, sched>>
          \/ /\ t.n > 0
             /\ mgr' = AllocateInputs(t.mgr, Candidate, t)
             /\ step' = WithRow(row)
             /\ req' = [req EXCEPT ![Candidate] = [status |-> "running", computed |-> hit]]
             /\ running' = Append(running, Candidate)
             /\ waiting' = SelectSeq(waiting, LAMBDA r : r # Candidate)
             /\ UNCHANGED mismatch
  /\ UNCHANGED <<policy, inflight, executed, worker>>

EndWaitingLoop ==
  /\ step.phase = "waiting" /\ ~InWaitingLoop
  /\ step' = [step EXCEPT !.phase = "done"]
  /\ UNCHANGED <<policy, mgr, req, sched, inflight, executed, worker>>

\* The scheduler output goes to the workers; the chunks count as computed.
EndStep ==
  /\ step.phase = "done"
  /\ inflight' = Append(inflight, [rows |-> step.rows, freed |-> FreedHashes(mgr)])
  /\ mgr' = [mgr EXCEPT !.freed = {}]
  /\ req' = [r \in Req |-> [req[r] EXCEPT !.computed =
               @ + SumSet({row.n : row \in {x \in ToSet(step.rows) : x.req = r}})]]
  /\ step' = Idle
  /\ UNCHANGED <<policy, sched, executed, worker>>

Computed(out) == UNION {{HashOf(row.req, i) : i \in row.compute} : row \in ToSet(out.rows)}
\* encoder_outputs once the worker has dropped what was evicted and run the
\* encoder on the scheduled inputs it does not hold.
WorkerAfter(w, out) == (w \ out.freed) \cup Computed(out)
\* The items gather_mm_embeddings looks up.
Gathered(out) ==
  UNION {{HashOf(row.req, i) : i \in InWindow(row.req, row.from, row.from + row.n)} :
           row \in ToSet(out.rows)}

Execute ==
  /\ executed < Len(inflight)
  /\ worker' = WorkerAfter(worker, inflight[executed + 1])
  /\ executed' = executed + 1
  /\ UNCHANGED <<policy, mgr, req, sched, step, inflight>>

\* Mutant: nothing is let go before the end of the request.
PassedNone(r) == {}

\* _free_encoder_inputs: the inputs that lie before the computed tokens, of
\* which the last one counts only once its output has returned.
Passed(r) ==
  {i \in mgr.ids[r] :
     Inputs[r][i].start + EmbedsOf(r, i)
       <= req[r].computed - (IF req[r].computed = NumTokens[r] THEN 1 ELSE 0)}

\* update_from_output: let go of what was passed, finish the requests that
\* have their token, and fail those whose item did not match.
UpdateFromOutput ==
  /\ step.phase = "idle" /\ executed > 0
  /\ LET live(r)  == req[r].status \in {"running", "waiting"}
         ended(row) == live(row.req) /\ row.from + row.n = NumTokens[row.req]
         rows == inflight[1].rows
         done == {row.req : row \in {x \in ToSet(rows) : ended(x)}}
                 \cup {r \in mismatch : live(r)}
         After(m, row) ==
           LET passed == FreeInputs(m, row.req, Passed(row.req))
           IN IF ended(row) THEN Free(passed, row.req)
              ELSE IF live(row.req) THEN passed ELSE m
     IN /\ mgr' = FoldLeft(LAMBDA m, r : Free(m, r), FoldLeft(After, mgr, rows),
                           SetToSeq(mismatch))
        /\ req' = [r \in Req |-> IF r \in done THEN [req[r] EXCEPT !.status = "finished"] ELSE req[r]]
        /\ running' = SelectSeq(running, LAMBDA r : r \notin done)
        /\ waiting' = SelectSeq(waiting, LAMBDA r : r \notin done)
  /\ mismatch' = {}
  /\ inflight' = Tail(inflight) /\ executed' = executed - 1
  /\ UNCHANGED <<policy, step, worker>>

\* finish_requests on behalf of a client.
Abort(r) ==
  /\ r \in MayAbort /\ step.phase = "idle" /\ req[r].status \in {"running", "waiting"}
  /\ mgr' = Free(mgr, r)
  /\ req' = [req EXCEPT ![r].status = "finished"]
  /\ running' = SelectSeq(running, LAMBDA x : x # r)
  /\ waiting' = SelectSeq(waiting, LAMBDA x : x # r)
  /\ UNCHANGED <<policy, mismatch, step, inflight, executed, worker>>

\* reset_encoder_cache, which waits for the workers to have executed
\* everything sent to them.
ResetEncoderCache ==
  /\ MayReset /\ step.phase = "idle" /\ executed = Len(inflight)
  /\ mgr' = NewManager /\ worker' = {}
  /\ UNCHANGED <<policy, req, sched, step, inflight, executed>>

Terminated ==
  /\ \A r \in Req : req[r].status = "finished"
  /\ step.phase = "idle" /\ inflight = <<>>
  /\ UNCHANGED vars

EngineStep ==
  \/ StartStep \/ TryRunning \/ ScheduleRunning \/ PreemptRunning \/ EndRunningLoop
  \/ ScheduleWaiting \/ EndWaitingLoop \/ EndStep \/ UpdateFromOutput

Next ==
  \/ EngineStep \/ Execute
  \/ \E r \in Req : AddRequest(r) \/ Abort(r)
  \/ ResetEncoderCache
  \/ Terminated

Spec == Init /\ [][Next]_vars

-----------------------------------------------------------------------------
\* Type correctness.
TypeOK ==
  /\ \A h \in Hash : mgr.refs[h] \subseteq Req
  /\ \A r \in Req :
       /\ req[r].status \in {"new", "waiting", "running", "finished"}
       /\ req[r].computed \in 0 .. NumTokens[r]
       /\ mgr.ids[r] \subseteq DOMAIN Inputs[r]
  /\ step.left \in 0 .. TokenBudget /\ step.budget \in 0 .. EncoderBudget
  /\ executed \in 0 .. Len(inflight) /\ Len(inflight) <= MaxInFlight

\* Eviction reaches the workers: once they have executed everything sent, and
\* between two schedules, they hold exactly what the manager accounts for, so
\* the cache size bounds their memory.
WorkerMirrors ==
  policy = "fcfs" /\ step.phase = "idle" /\ executed = Len(inflight) =>
    worker = {h \in Hash : InCache(mgr, h)}

\* The manager's books agree: the slots used and free make the cache, the
\* freeable ones are the free ones and those of the entries without reference,
\* and a request refers to exactly the hashes of its cached inputs.
\* The workers' caches follow the books.
BooksExact ==
  LET Slots(hs) == MapThenSumSet(LAMBDA h : mgr.size[h], hs) IN
  /\ TypeOK /\ WorkerMirrors
  /\ mgr.num_free_slots >= 0
  /\ mgr.num_free_slots + Slots(Hash) = CacheSize
  /\ mgr.num_freeable_slots = mgr.num_free_slots + Slots(ToSet(mgr.freeable))
  /\ IsInjective(mgr.freeable)
  /\ ToSet(mgr.freeable) = {h \in Hash : InCache(mgr, h) /\ mgr.refs[h] = {}}
  /\ \A h \in Hash :
       mgr.refs[h] = {r \in Req : \E i \in mgr.ids[r] : HashOf(r, i) = h}

\* gather_mm_embeddings never misses: whenever a step is executed, the worker
\* holds, or computes in that step, every item its rows run over, however
\* many evictions, hits and resets were decided since it was scheduled.
NoCacheMiss ==
  policy = "fcfs" /\ executed < Len(inflight) =>
    Gathered(inflight[executed + 1]) \subseteq WorkerAfter(worker, inflight[executed + 1])

\* No request waits for encoder cache that others hold for good: with nothing
\* in flight and room in the KV cache, a step computes a token of some request
\* or finds one to fail.
StepsProgress ==
  step.phase = "done" /\ inflight = <<>> /\ ~step.full =>
    step.rows # <<>> \/ mismatch # {}
=============================================================================
