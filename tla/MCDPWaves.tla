------------------------------ MODULE MCDPWaves ------------------------------
(* Two engines.  The client sends two requests and never pauses, or sends   *)
(* one and pauses and resumes the engines once, in each of the modes.       *)
EXTENDS DPWaves

MCConfigs ==
  {[requests |-> 2, pauses |-> 0, mode |-> "keep"]} \cup
  [requests : {1}, pauses : {1}, mode : {"keep", "abort", "wait"}]
=============================================================================
