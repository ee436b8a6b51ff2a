------------------------- MODULE MCPrioritySchedule -------------------------
(* r3 is served first, r1 last; the prompt of r1 takes several chunks, and *)
(* the prompt of r2 is a prefix of it.                                     *)
EXTENDS PrioritySchedule

CONSTANTS r1, r2, r3

MCStream ==
  [r \in Req |-> CASE r = r1 -> <<1, 1, 1, 1, 1, 1, 1>>
                   [] r = r2 -> <<1, 1, 1, 1, 1, 2>>
                   [] r = r3 -> <<3, 3, 3, 3>>]
MCNumPrompt == [r \in Req |-> CASE r = r1 -> 6 [] r = r2 -> 4 [] r = r3 -> 1]
MCPriority == [r \in Req |-> CASE r = r1 -> 2 [] r = r2 -> 1 [] r = r3 -> 0]

\* Either policy, tight on blocks; and the priority policy with room for a
\* whole prompt.
MCConfigs ==
  {[policy |-> "fcfs", num_gpu_blocks |-> 7, max_num_running |-> 2,
    watermark |-> 1, reserve_full |-> TRUE],
   [policy |-> "priority", num_gpu_blocks |-> 7, max_num_running |-> 3,
    watermark |-> 2, reserve_full |-> FALSE]}
MCRoomy ==
  {[policy |-> "priority", num_gpu_blocks |-> 10, max_num_running |-> 3,
    watermark |-> 0, reserve_full |-> TRUE]}
=============================================================================
