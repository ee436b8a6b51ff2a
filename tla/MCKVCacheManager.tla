-------------------------- MODULE MCKVCacheManager --------------------------
(* Three requests over two blocks' worth of prompt: r1 and r2 share all of *)
(* it, r3 shares the first block with them.                                *)
EXTENDS KVCacheManager, TLC

CONSTANTS r1, r2, r3

Stream == (r1 :> <<"a", "b", "c", "d", "e">>)
       @@ (r2 :> <<"a", "b", "c", "d", "e">>)
       @@ (r3 :> <<"a", "b", "x", "d", "e">>)

MCHashAt == [r \in Req |-> [i \in 1 .. MaxNumTokens |->
               IF i * BlockSize <= MaxNumTokens
               THEN SubSeq(Stream[r], 1, i * BlockSize) ELSE <<i>>]]
MCHash == {MCHashAt[r][i] : r \in Req, i \in 1 .. MaxNumTokens}
MCNumPrompt == [r \in Req |-> 4]

BlockSymmetry == Permutations(Block)
=============================================================================
