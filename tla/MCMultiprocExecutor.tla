------------------------- MODULE MCMultiprocExecutor -------------------------
(* Two workers, as in a two-stage RWKV pipeline.                            *)
EXTENDS MultiprocExecutor

(* Asynchronous scheduling; and synchronous scheduling with a connector and *)
(* an engine that survives failed and timed-out utility calls.              *)
MCConfigs ==
  {[async |-> TRUE, timeouts |-> FALSE, aggregated |-> FALSE, tolerant |-> FALSE],
   [async |-> FALSE, timeouts |-> TRUE, aggregated |-> TRUE, tolerant |-> TRUE]}
=============================================================================
