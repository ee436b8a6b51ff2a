--------------------------- MODULE MCShmBroadcast ---------------------------
(* Two readers and a ring that is lapped; messages 1 and 2 do not fit a     *)
(* chunk.  Reader 0 may be shut down, reader 1 uses timeouts.               *)
EXTENDS ShmBroadcast

MCOverflow == {1, 2}
MCStoppable == {0}
MCTimed == {1}
=============================================================================
