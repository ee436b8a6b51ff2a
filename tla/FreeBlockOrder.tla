--------------------------- MODULE FreeBlockOrder ---------------------------
(***************************************************************************)
(* What the free list of KV cache blocks promises its users: the free      *)
(* blocks in eviction order.  Blocks are taken at the front, put back at   *)
(* either end, and a block hit in the prefix cache leaves from the middle. *)
(* FreeKVCacheBlockQueue implements this with a doubly linked list.        *)
(***************************************************************************)
EXTENDS BlockSequences

CONSTANT Block

VARIABLE order

Init == order \in Orderings(Block)

\* Sequences of blocks outside the list, without repetition.
Returnable == UNION {Orderings(S) : S \in SUBSET (Block \ Range(order))}

\* An allocation takes the n blocks to be evicted first.
TakeFront(n) == order' = SubSeq(order, n + 1, Len(order))

\* Blocks hit in the prefix cache leave from wherever they are; the others keep
\* their order.
TakeOut(S) == order' = Only(order, Block \ S)

\* Blocks are put back, the first k of s to be reused first, the rest last.
PutBack(s, k) ==
  order' = SubSeq(s, 1, k) \o order \o SubSeq(s, k + 1, Len(s))

Next ==
  \/ \E n \in 1 .. Len(order) : TakeFront(n)
  \/ \E S \in SUBSET Range(order) : TakeOut(S)
  \/ \E s \in Returnable : \E k \in 0 .. Len(s) : PutBack(s, k)

Spec == Init /\ [][Next]_order
=============================================================================
