---------------------------- MODULE MCRwkvState ----------------------------
(* Requests that share prefixes: r1 and r2 have their first block in       *)
(* common, r1 and r3 the whole prompt of r3.                               *)
EXTENDS RwkvState

CONSTANTS r1, r2, r3

MCStream ==
  [r \in Req |-> CASE r = r1 -> <<1, 1, 1, 1, 1, 1>>
                   [] r = r2 -> <<1, 1, 2, 2, 2, 2, 2>>
                   [] r = r3 -> <<1, 1, 1, 1, 1>>]
MCNumPrompt ==
  [r \in Req |-> CASE r = r1 -> 4 [] r = r2 -> 5 [] r = r3 -> 3]

\* Prefix caching; prefix caching with a budget below the block size; the
\* default without it, where a request has one block.
MCConfigs ==
  {[align |-> TRUE, block_size |-> 2, num_gpu_blocks |-> 3, budget |-> 3,
    aborts |-> {r1}, resets |-> 1],
   [align |-> TRUE, block_size |-> 2, num_gpu_blocks |-> 2, budget |-> 1,
    aborts |-> {}, resets |-> 0],
   [align |-> FALSE, block_size |-> 8, num_gpu_blocks |-> 2, budget |-> 3,
    aborts |-> {r1}, resets |-> 1]}
=============================================================================
