----------------------- MODULE FreeKVCacheBlockQueue -----------------------
(***************************************************************************)
(* FreeKVCacheBlockQueue of vllm/v1/core/kv_cache_utils.py: a doubly       *)
(* linked list threaded through the blocks' prev_free_block and            *)
(* next_free_block fields, between a fake head and a fake tail.  The       *)
(* methods are operators on the list; BlockPool applies them.              *)
(***************************************************************************)
EXTENDS BlockSequences

CONSTANTS Block,        \* the blocks of the pool, the null block excluded
          FakeHead, FakeTail,   \* fake_free_list_head, fake_free_list_tail
          None          \* Python's None in a link field

Node == Block \cup {FakeHead, FakeTail}

ASSUME QueueAssumption ==
  /\ IsFiniteSet(Block)
  /\ FakeHead # FakeTail /\ {FakeHead, FakeTail} \cap Block = {}
  /\ None \notin Node

VARIABLE queue          \* [prev, next : Node -> Node or None, num]

\* The nodes of s between the nodes l and r.
Chain(l, s, r) ==
  [i \in 0 .. Len(s) + 1 |-> IF i = 0 THEN l ELSE IF i > Len(s) THEN r ELSE s[i]]

\* Thread the nodes of s, in order, between the nodes l and r.
LinkBetween(q, l, s, r) ==
  LET c == Chain(l, s, r)
      after(x)  == {i \in 1 .. Len(s) + 1 : c[i - 1] = x}
      before(x) == {i \in 0 .. Len(s) : c[i + 1] = x}
  IN [q EXCEPT
       !.next = [x \in Node |-> IF after(x) = {} THEN q.next[x]
                                ELSE c[CHOOSE i \in after(x) : TRUE]],
       !.prev = [x \in Node |-> IF before(x) = {} THEN q.prev[x]
                                ELSE c[CHOOSE i \in before(x) : TRUE]]]

NewQueue(blocks) ==
  LinkBetween([prev |-> [x \in Node |-> None], next |-> [x \in Node |-> None],
               num |-> Len(blocks)],
              FakeHead, blocks, FakeTail)

\* The first n nodes after the fake head, following next_free_block.
Walk(q, n) ==
  LET node[i \in 1 .. n] == q.next[IF i = 1 THEN FakeHead ELSE node[i - 1]]
  IN  [i \in 1 .. n |-> node[i]]

\* get_all_free_blocks: follow the links until the fake tail, whose next is
\* None.
AllFreeBlocks(q) ==
  CHOOSE s \in {Walk(q, n) : n \in 0 .. q.num} :
    q.next[IF s = <<>> THEN FakeHead ELSE s[Len(s)]] = FakeTail

PopleftN(q, n) ==
  IF n = 0 THEN q ELSE
  LET ret == Walk(q, n)
      rest == q.next[ret[n]]
      cut == [x \in Node |-> IF x \in Range(ret) THEN None ELSE q.next[x]]
      cutPrev == [x \in Node |-> IF x \in Range(ret) THEN None ELSE q.prev[x]]
  IN  IF rest = None
      THEN [prev |-> cutPrev, next |-> cut, num |-> q.num - n]
      ELSE [prev |-> [cutPrev EXCEPT ![rest] = FakeHead],
            next |-> [cut EXCEPT ![FakeHead] = rest],
            num |-> q.num - n]

\* remove
RemoveBlock(q, b) ==
  [prev |-> [q.prev EXCEPT ![q.next[b]] = q.prev[b], ![b] = None],
   next |-> [q.next EXCEPT ![q.prev[b]] = q.next[b], ![b] = None],
   num |-> q.num - 1]

\* remove for the blocks of s, one after the other
RemoveBlocks(q, s) ==
  LET list[i \in 0 .. Len(s)] ==
        IF i = 0 THEN q ELSE RemoveBlock(list[i - 1], s[i])
  IN  list[Len(s)]

\* Mutant: the blocks linked one node too early.
AppendNBeforeLast(q, blocks) ==
  IF blocks = <<>> THEN q ELSE
  LET last == q.prev[FakeTail] IN
  IF last = FakeHead
  THEN [LinkBetween(q, FakeHead, blocks, FakeTail) EXCEPT !.num = @ + Len(blocks)]
  ELSE [LinkBetween(q, q.prev[last], blocks, last) EXCEPT !.num = @ + Len(blocks)]

AppendN(q, blocks) ==
  IF blocks = <<>> THEN q ELSE
  [LinkBetween(q, q.prev[FakeTail], blocks, FakeTail) EXCEPT !.num = @ + Len(blocks)]

PrependN(q, blocks) ==
  IF blocks = <<>> THEN q ELSE
  [LinkBetween(q, FakeHead, blocks, q.next[FakeHead]) EXCEPT !.num = @ + Len(blocks)]

-----------------------------------------------------------------------------
QInit == \E blocks \in Orderings(Block) : queue = NewQueue(blocks)

-----------------------------------------------------------------------------
\* The type of the list; num_free_blocks stays within the number of blocks.
QTypeOK ==
  /\ queue.prev \in [Node -> Node \cup {None}]
  /\ queue.next \in [Node -> Node \cup {None}]
  /\ queue.num \in 0 .. Cardinality(Block)

\* The two link fields of the list agree in both directions, only the fake
\* head has no predecessor and only the fake tail no successor, and a block
\* outside the list keeps neither link: the conditions under which popleft(),
\* remove(), append() and get_all_free_blocks() never meet the None link that
\* they turn into a RuntimeError.
LinksAgree ==
  LET free == Range(AllFreeBlocks(queue)) IN
  /\ \A x, y \in Node : queue.next[x] = y <=> queue.prev[y] = x
  /\ queue.prev[FakeHead] = None /\ queue.next[FakeTail] = None
  /\ \A b \in Block : (queue.prev[b] = None) = (queue.next[b] = None)
  /\ \A b \in Block : b \in free <=> queue.next[b] # None
  /\ queue.num = Cardinality(free)
=============================================================================
