---------------------------- MODULE MCScheduler ----------------------------
(* Small instances of the scheduler.  r2 has the longest prompt, so that a *)
(* request admitted before it runs out of blocks while r2 holds two.       *)
EXTENDS Scheduler, TLC

CONSTANTS r2, Prompt, Output

MCNumPrompt == [r \in Req |-> IF r = r2 THEN Prompt + 1 ELSE Prompt]
MCMaxTokens == [r \in Req |-> Output]

Symmetry == Permutations(Block) \cup Permutations(Req \ {r2})

(* Asynchronous scheduling over two pipeline stages, with draft tokens ...  *)
AsyncDrafts ==
  [async |-> TRUE, pipeline_size |-> 2, num_spec |-> 1,
   defer_block_free |-> FALSE, kv_delivery |-> FALSE,
   pause_states |-> {"UNPAUSED"}, resets |-> TRUE,
   sends |-> FALSE, reoffers |-> FALSE, hesitates |-> FALSE,
   recompute |-> TRUE, matches |-> {0}]

(* ... beside a KV connector, with pauses ...                               *)
Connector ==
  [async |-> TRUE, pipeline_size |-> 1, num_spec |-> 0,
   defer_block_free |-> TRUE, kv_delivery |-> TRUE,
   pause_states |-> {"UNPAUSED", "PAUSED_NEW", "PAUSED_ALL"}, resets |-> TRUE,
   sends |-> FALSE, reoffers |-> FALSE, hesitates |-> FALSE,
   recompute |-> TRUE, matches |-> {0}]

(* ... and with loads of prompts, in part or whole, and sends ...           *)
Loads ==
  [Connector EXCEPT !.matches = {0, 2, 3}, !.sends = TRUE, !.resets = FALSE,
                    !.pause_states = {"UNPAUSED", "PAUSED_NEW"}]

(* ... where a failed load may end its request, and the connector may leave *)
(* its answer open and hold back frees ...                                  *)
FailedLoads ==
  [Loads EXCEPT !.recompute = FALSE, !.sends = FALSE, !.pause_states = {"UNPAUSED"},
                !.hesitates = TRUE]

(* ... and synchronous scheduling with longer drafts.                       *)
SyncDrafts ==
  [async |-> FALSE, pipeline_size |-> 1, num_spec |-> 2,
   defer_block_free |-> FALSE, kv_delivery |-> FALSE,
   pause_states |-> {"UNPAUSED"}, resets |-> TRUE,
   sends |-> FALSE, reoffers |-> FALSE, hesitates |-> FALSE,
   recompute |-> TRUE, matches |-> {0}]

MCSafety == {AsyncDrafts, Connector, Loads, FailedLoads, SyncDrafts}

(* Liveness: a connector that may load the longer prompt, and whose          *)
(* preemptions still deliver their output.                                  *)
Delivers ==
  [Connector EXCEPT !.kv_delivery = FALSE, !.resets = FALSE,
                    !.pause_states = {"UNPAUSED", "PAUSED_ALL"}, !.matches = {0, 3}]
MCLiveness == {Delivers}
=============================================================================
