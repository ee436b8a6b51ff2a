------------------------------- MODULE DPWaves -------------------------------
(* Request waves of lockstep data-parallel engines: DPEngineCoreProc        *)
(* (vllm/v1/engine/core.py), the coordinator (vllm/v1/engine/coordinator.py)*)
(* and the front-end's client (vllm/v1/engine/core_client.py).              *)
(*                                                                          *)
(* The engines alternate between running, in which every rank takes part in *)
(* every forward pass (a collective) and in an all-reduce every             *)
(* dp_sync_interval passes, and idle.  A request reaches one engine; the    *)
(* others are woken by a START_DP_WAVE the coordinator broadcasts, and wave *)
(* numbers tell a message about a finished wave from one about the next.    *)
(* Pausing is a two-phase agreement on the same all-reduce.                 *)
(*                                                                          *)
(* A request takes one forward pass.  Each socket is a FIFO; messages of    *)
(* different sockets overtake one another.                                  *)
EXTENDS Integers, Sequences, FiniteSets

CONSTANTS
  NEngine,     \* data-parallel size
  Interval,    \* dp_sync_interval
  MaxPublished,\* bound: published states on their way when one more is sent
  Configs      \* what the client does: requests, pauses, mode

Engine == 0 .. NEngine - 1
Everyone == NEngine          \* exclude_engine_index is None

ASSUME WavesAssumption ==
  /\ NEngine \in Nat \ {0} /\ Interval \in Nat \ {0} /\ MaxPublished \in Nat
  /\ Configs \subseteq [requests : Nat, pauses : Nat, mode : {"keep", "abort", "wait"}]

VARIABLES
  config,    \* the member of Configs, which never changes
  eng,       \* the engines, see InitEngine
  input,     \* input[e]: the client's messages to engine e
  start,     \* start[e]: START_DP_WAVE messages to engine e
  output,    \* output[e]: notifications of engine e to the coordinator
  coord,     \* the coordinator: wave, running
  published, \* what the coordinator has published to the client
  client,    \* the client: wave, running, first-request notices, the pause
  notices,   \* the client's notices on their way to the coordinator
  sent, pauses

vars == <<config, eng, input, start, output, coord, published, client, notices, sent, pauses>>

MaxReq == config.requests    \* bound: requests the client sends
MaxPause == config.pauses    \* bound: pauses the client asks for
Mode == config.mode          \* mode of the pauses

InitEngine ==
  [pc |-> "input",        \* "input", or waiting in "forward", "reduce", "resume"
   wave |-> 0, running |-> FALSE, wasRunning |-> FALSE, step |-> 0,
   waiting |-> 0, active |-> 0,
   pause |-> "none",      \* pause_state: "none", "new", "all"
   pending |-> FALSE, ignore |-> FALSE,
   callback |-> FALSE]    \* an idle callback that completes a pause

Init ==
  /\ config \in Configs
  /\ eng = [e \in Engine |-> InitEngine]
  /\ input = [e \in Engine |-> <<>>]
  /\ start = [e \in Engine |-> <<>>]
  /\ output = [e \in Engine |-> <<>>]
  /\ coord = [wave |-> 0, running |-> FALSE]
  /\ published = <<>>
  /\ client = [wave |-> 0, running |-> FALSE, first |-> <<>>,
               pausing |-> "no", acks |-> {}]
  /\ notices = <<>>
  /\ sent = 0 /\ pauses = 0

-----------------------------------------------------------------------------
(* Scheduler.get_num_unfinished_requests > 0                                *)
Unfinished(g) ==
  CASE g.pause = "all" -> FALSE
    [] g.pause = "new" -> g.active > 0
    [] OTHER -> g.active + g.waiting > 0

HasWork(g) == g.running \/ Unfinished(g)

(* An engine handles messages while it polls its input; an idle engine runs *)
(* the idle callbacks before it takes the next message.                     *)
Polls(e) == eng[e].pc = "input" /\ ~(eng[e].callback /\ ~HasWork(eng[e]))

Send(chan, e, m) == [chan EXCEPT ![e] = Append(@, m)]

-----------------------------------------------------------------------------
(* The client.                                                              *)

(* add_request_async: the request carries the client's wave, and the stats  *)
(* task is told if the engines are not known to run.                        *)
AddRequest(e) ==
  /\ sent < MaxReq
  /\ sent' = sent + 1
  /\ input' = Send(input, e, [type |-> "add", wave |-> client.wave])
  /\ client' = IF client.running THEN client
               ELSE [client EXCEPT !.first = Append(@, e)]
  /\ UNCHANGED <<config, eng, start, output, coord, published, notices, pauses>>

(* run_engine_stats_update_task: FIRST_REQ.                                 *)
FirstRequest ==
  /\ client.first # <<>>
  /\ client' = [client EXCEPT !.first = Tail(@), !.running = TRUE]
  /\ notices' = Append(notices, [exclude |-> Head(client.first), wave |-> client.wave])
  /\ UNCHANGED <<config, eng, input, start, output, coord, published, sent, pauses>>

(* ... and the latest published state.                                      *)
ClientUpdate ==
  /\ published # <<>>
  /\ published' = Tail(published)
  /\ client' = [client EXCEPT !.wave = Head(published).wave,
                              !.running = Head(published).running]
  /\ UNCHANGED <<config, eng, input, start, output, coord, notices, sent, pauses>>

(* pause_generation asks every engine and waits for all the answers.        *)
AskPause ==
  /\ client.pausing = "no" /\ pauses < MaxPause
  /\ pauses' = pauses + 1
  /\ client' = [client EXCEPT !.pausing = "asked", !.acks = {}]
  /\ input' = [e \in Engine |-> Append(input[e], [type |-> "pause"])]
  /\ UNCHANGED <<config, eng, start, output, coord, published, notices, sent>>

AskResume ==
  /\ client.pausing = "asked" /\ client.acks = Engine
  /\ client' = [client EXCEPT !.pausing = "no"]
  /\ input' = [e \in Engine |-> Append(input[e], [type |-> "resume"])]
  /\ UNCHANGED <<config, eng, start, output, coord, published, notices, sent, pauses>>

-----------------------------------------------------------------------------
(* The coordinator.                                                         *)

Broadcast(wave, exclude) ==
  start' = [e \in Engine |-> Append(start[e], [wave |-> wave, exclude |-> exclude])]

(* A new-request notice from the client while the engines are paused.       *)
HandleNotice ==
  /\ notices # <<>>
  /\ notices' = Tail(notices)
  /\ IF coord.running THEN UNCHANGED start
     ELSE Broadcast(coord.wave, IF Head(notices).wave < coord.wave THEN Everyone
                                ELSE Head(notices).exclude)
  /\ UNCHANGED <<config, eng, input, output, coord, published, client, sent, pauses>>

(* wave_complete or start_wave from an engine.                              *)
HandleOutput(e) ==
  /\ output[e] # <<>>
  /\ output' = [output EXCEPT ![e] = Tail(@)]
  /\ LET m == Head(output[e])
         complete == m.type = "complete" /\ coord.wave <= m.wave
         begin == /\ m.type = "start"
                  /\ \/ m.wave > coord.wave
                     \/ m.wave = coord.wave /\ ~coord.running
     IN  /\ coord' = CASE complete -> [wave |-> m.wave + 1, running |-> FALSE]
                       [] begin -> [wave |-> m.wave, running |-> TRUE]
                       [] OTHER -> coord
         /\ IF begin THEN Broadcast(m.wave, e) ELSE UNCHANGED start
         /\ published' = IF complete \/ begin THEN Append(published, coord') ELSE published
  /\ UNCHANGED <<config, eng, input, client, notices, sent, pauses>>

(* The poll timed out: publish the current state, changed or not.           *)
Publish ==
  /\ Len(published) < MaxPublished
  /\ published' = Append(published, coord)
  /\ UNCHANGED <<config, eng, input, start, output, coord, client, notices, sent, pauses>>

-----------------------------------------------------------------------------
(* An engine's input.                                                       *)

Take(e, type) ==
  /\ Polls(e) /\ input[e] # <<>> /\ Head(input[e]).type = type
  /\ input' = [input EXCEPT ![e] = Tail(@)]
  /\ UNCHANGED <<config, start, coord, published, client, notices, sent, pauses>>

(* Faulty variant: a late request starts a wave though the engine pauses.   *)
HandleAddPaused(e) ==
  /\ Take(e, "add")
  /\ LET g == [eng[e] EXCEPT !.waiting = @ + 1]
         stale == Head(input[e]).wave < g.wave /\ ~g.running
     IN  /\ eng' = [eng EXCEPT ![e] = [g EXCEPT !.running = @ \/ stale]]
         /\ output' = IF stale THEN Send(output, e, [type |-> "start", wave |-> g.wave])
                      ELSE output

(* Faulty variant: a request of a completed wave starts none.               *)
HandleAddQuiet(e) ==
  /\ Take(e, "add")
  /\ LET wave == Head(input[e]).wave
     IN  eng' = [eng EXCEPT ![e] = [@ EXCEPT !.waiting = @ + 1,
                                             !.wave = IF wave > @ THEN wave ELSE @]]
  /\ UNCHANGED output

(* add_request: a request of a later wave moves the engine to it; one of a  *)
(* completed wave makes an idle engine start the current one.               *)
HandleAdd(e) ==
  /\ Take(e, "add")
  /\ LET g == [eng[e] EXCEPT !.waiting = @ + 1]
         wave == Head(input[e]).wave
         stale == wave < g.wave /\ ~g.running /\ g.pause = "none"
     IN  /\ eng' = [eng EXCEPT ![e] =
                      IF wave > g.wave THEN [g EXCEPT !.wave = wave]
                      ELSE IF stale THEN [g EXCEPT !.running = TRUE] ELSE g]
         /\ output' = IF stale THEN Send(output, e, [type |-> "start", wave |-> g.wave])
                      ELSE output

(* Faulty variant: a START_DP_WAVE restarts the step count.                 *)
HandleStartRestarts(e) ==
  /\ Polls(e) /\ start[e] # <<>>
  /\ start' = [start EXCEPT ![e] = Tail(@)]
  /\ LET m == Head(start[e])
     IN  eng' = IF ~eng[e].ignore /\ m.exclude # e /\ m.wave >= eng[e].wave
                THEN [eng EXCEPT ![e] = [@ EXCEPT !.wave = m.wave, !.running = TRUE, !.step = 0]]
                ELSE eng
  /\ UNCHANGED <<config, input, output, coord, published, client, notices, sent, pauses>>

(* START_DP_WAVE                                                            *)
HandleStart(e) ==
  /\ Polls(e) /\ start[e] # <<>>
  /\ start' = [start EXCEPT ![e] = Tail(@)]
  /\ LET m == Head(start[e])
     IN  eng' = IF ~eng[e].ignore /\ m.exclude # e /\ m.wave >= eng[e].wave
                THEN [eng EXCEPT ![e].wave = m.wave, ![e].running = TRUE] ELSE eng
  /\ UNCHANGED <<config, input, output, coord, published, client, notices, sent, pauses>>

(* pause_scheduler, with _pause_complete of DPEngineCoreProc: the engine    *)
(* runs until all ranks want to pause.                                      *)
HandlePause(e) ==
  /\ Take(e, "pause")
  /\ eng' = [eng EXCEPT ![e].pause = IF Mode = "keep" THEN "all" ELSE "new",
                         ![e].waiting = IF Mode = "abort" THEN 0 ELSE @,
                         ![e].active = IF Mode = "abort" THEN 0 ELSE @,
                         ![e].pending = TRUE, ![e].running = TRUE, ![e].callback = TRUE]
  /\ UNCHANGED output

(* engine_idle_callback completes the pause.                                *)
PauseDone(e) ==
  /\ eng[e].pc = "input" /\ eng[e].callback /\ ~HasWork(eng[e])
  /\ eng' = [eng EXCEPT ![e].callback = FALSE]
  /\ client' = [client EXCEPT !.acks = @ \cup {e}]
  /\ UNCHANGED <<config, input, start, output, coord, published, notices, sent, pauses>>

(* resume_scheduler: an error while a pause is in flight, nothing while the *)
(* engines run; else a barrier of all ranks.                                *)
HandleResume(e) ==
  /\ Take(e, "resume")
  /\ eng' = IF eng[e].pending \/ eng[e].running THEN eng
            ELSE [eng EXCEPT ![e].pause = "none", ![e].ignore = FALSE, ![e].pc = "resume"]
  /\ UNCHANGED output

ResumeBarrier ==
  /\ \A e \in Engine : eng[e].pc = "resume"
  /\ eng' = [e \in Engine |->
       [eng[e] EXCEPT !.pc = "input", !.running = \E f \in Engine : Unfinished(eng[f])]]
  /\ UNCHANGED <<config, input, start, output, coord, published, client, notices, sent, pauses>>

-----------------------------------------------------------------------------
(* run_busy_loop from the engine step on.                                   *)

(* An engine with work steps: a forward pass, with a dummy batch if none of *)
(* its requests can run, which waits for all the ranks.                     *)
EnterStep(e) ==
  /\ eng[e].pc = "input" /\ HasWork(eng[e])
  /\ eng' = [eng EXCEPT ![e].pc = "forward"]
  /\ UNCHANGED <<config, input, start, output, coord, published, client, notices, sent, pauses>>

(* What the step does to the requests: those admitted run, one finishes.    *)
Stepped(g) ==
  CASE g.pause = "all" -> g
    [] g.pause = "new" -> [g EXCEPT !.active = IF @ > 0 THEN @ - 1 ELSE 0]
    [] OTHER -> [g EXCEPT !.active = IF @ + g.waiting > 0 THEN @ + g.waiting - 1 ELSE 0,
                          !.waiting = 0]

(* _has_global_unfinished_reqs counts the step; it synchronizes at the      *)
(* first and at every Interval-th.  Past the first only the count modulo    *)
(* Interval matters, so the count is kept in 0 .. Interval + 1.             *)
NextStep(n) == IF n = Interval + 1 THEN 2 ELSE n + 1
SyncStep(n) == n = 1 \/ n % Interval = 0

(* Rank 0 tells the coordinator that the engines have started.              *)
Started(e, g) == e = 0 /\ ~g.wasRunning /\ ~g.pending
Notify(e, type, g) == Append(output[e], [type |-> type, wave |-> g.wave])

Forward ==
  /\ \A e \in Engine : eng[e].pc = "forward"
  /\ LET after(e) == [Stepped(eng[e]) EXCEPT !.step = NextStep(@)]
         syncs(e) == SyncStep(NextStep(eng[e].step))
     IN  /\ eng' = [e \in Engine |->
              IF syncs(e) THEN [after(e) EXCEPT !.pc = "reduce"]
              ELSE [after(e) EXCEPT !.pc = "input", !.running = TRUE, !.wasRunning = TRUE]]
         /\ output' = [e \in Engine |->
              IF ~syncs(e) /\ Started(e, eng[e]) THEN Notify(e, "start", eng[e])
              ELSE output[e]]
  /\ UNCHANGED <<config, input, start, coord, published, client, notices, sent, pauses>>

(* sync_dp_state: the wave goes on while a rank has unfinished requests, or *)
(* while some rank but not every one is to pause (the faulty variant        *)
(* forgets the second half).                                                *)
GoOnUnfinished(pausing) == \E e \in Engine : Unfinished(eng[e])
GoOn(pausing) == GoOnUnfinished(pausing) \/ pausing \notin {{}, Engine}

(* _has_global_unfinished_reqs from the all-reduce on, and what the busy    *)
(* loop does with its result.                                               *)
Reduce ==
  /\ \A e \in Engine : eng[e].pc = "reduce"
  /\ LET pausing == {e \in Engine : eng[e].pending}
         goOn == GoOn(pausing)
         agreed(e) == IF pausing = Engine
                      THEN [eng[e] EXCEPT !.ignore = TRUE, !.pending = FALSE] ELSE eng[e]
     IN  /\ eng' = [e \in Engine |->
              [agreed(e) EXCEPT !.pc = "input", !.running = goOn, !.wasRunning = goOn,
                                !.wave = IF goOn THEN @ ELSE @ + 1,
                                !.step = IF goOn THEN @ ELSE 0]]
         /\ output' = [e \in Engine |->
              IF ~goOn /\ e = 0 THEN Notify(e, "complete", eng[e])
              ELSE IF goOn /\ Started(e, agreed(e)) THEN Notify(e, "start", eng[e])
              ELSE output[e]]
  /\ UNCHANGED <<config, input, start, coord, published, client, notices, sent, pauses>>

-----------------------------------------------------------------------------
ClientStep == FirstRequest \/ ClientUpdate
HandleInput(e) == HandleAdd(e) \/ HandlePause(e) \/ HandleResume(e)
EngineStep(e) == HandleInput(e) \/ HandleStart(e) \/ PauseDone(e) \/ EnterStep(e)

Next ==
  \/ \E e \in Engine : AddRequest(e) \/ EngineStep(e) \/ HandleOutput(e)
  \/ ClientStep \/ AskPause \/ AskResume
  \/ HandleNotice \/ Publish
  \/ Forward \/ Reduce \/ ResumeBarrier

Spec == Init /\ [][Next]_vars

(* Every process runs on and every message arrives.  An engine with work    *)
(* empties its input queue before each step, so a message is taken although *)
(* the engine keeps stepping: strong fairness.  A client that paused the    *)
(* engines resumes them, but it need not send or pause.                     *)
FairSpec ==
  /\ Spec
  /\ WF_vars(FirstRequest) /\ WF_vars(ClientUpdate) /\ WF_vars(AskResume)
  /\ WF_vars(HandleNotice) /\ WF_vars(Publish)
  /\ \A e \in Engine :
       /\ SF_vars(HandleStart(e)) /\ SF_vars(HandleInput(e))
       /\ WF_vars(HandleOutput(e)) /\ WF_vars(PauseDone(e)) /\ WF_vars(EnterStep(e))
  /\ WF_vars(Forward) /\ WF_vars(Reduce) /\ WF_vars(ResumeBarrier)

-----------------------------------------------------------------------------
(* The types of the state; waves count up from 0.                           *)
TypeOK ==
  /\ \A e \in Engine :
       /\ eng[e].pc \in {"input", "forward", "reduce", "resume"}
       /\ eng[e].wave \in Nat /\ eng[e].step \in 0 .. Interval + 1
       /\ eng[e].waiting \in 0 .. MaxReq /\ eng[e].active \in 0 .. MaxReq
       /\ eng[e].pause \in {"none", "new", "all"}
  /\ coord.wave \in Nat /\ coord.running \in BOOLEAN
  /\ client.wave \in Nat /\ client.pausing \in {"no", "asked"}

(* The ranks never wait for one another in different collectives, and those *)
(* that wait in the same one have taken part in equally many of this wave.  *)
SameCollective ==
  /\ TypeOK
  /\ \A e, f \in Engine :
       (eng[e].pc # "input" /\ eng[f].pc # "input") =>
          eng[e].pc = eng[f].pc /\ eng[e].step = eng[f].step

(* Once the ranks have agreed to pause, no START_DP_WAVE wakes one of them  *)
(* before the client resumes.                                               *)
PausedStays ==
  (client.pausing = "asked" /\ client.acks = Engine) =>
    \A e \in Engine : ~eng[e].running /\ eng[e].pc = "input"

(* Every request is served, whichever engines were idle when it was sent    *)
(* and however the messages about waves overtake one another, as long as    *)
(* the client never pauses them.                                            *)
Served == \A e \in Engine : input[e] = <<>> /\ eng[e].waiting + eng[e].active = 0
EveryRequestServed == []<>(Served \/ MaxPause > 0)

(* A pause the client asks for is agreed on.                                *)
PausesComplete == (client.pausing = "asked") ~> (client.acks = Engine)
=============================================================================
