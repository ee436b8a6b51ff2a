--------------------------- MODULE MCEncoderCache ---------------------------
(* r1 repeats item a around item b; r2 shares b; r3 has a.  What r2 calls *)
(* c fills the cache, what r3 calls c is smaller: the identifiers clash.   *)
EXTENDS EncoderCache

CONSTANTS r1, r2, r3, a, b, c

In(h, start, embeds) == [hash |-> h, start |-> start, embeds |-> embeds]

MCInputs ==
  [r \in Req |-> CASE r = r1 -> <<In(a, 0, 2), In(b, 2, 1), In(a, 3, 2)>>
                   [] r = r2 -> <<In(b, 1, 1), In(c, 2, 3)>>
                   [] r = r3 -> <<In(a, 0, 2), In(c, 2, 1)>>]
MCNumTokens == [r \in Req |-> CASE r = r1 -> 6 [] r = r2 -> 6 [] r = r3 -> 3]
MCPriority == [r \in Req |-> CASE r = r1 -> 3 [] r = r2 -> 2 [] r = r3 -> 1]
=============================================================================
