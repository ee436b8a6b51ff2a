----------------------------- MODULE BlockPool -----------------------------
(***************************************************************************)
(* BlockPool of vllm/v1/core/block_pool.py: the KV cache blocks of the     *)
(* GPU, their reference counts, the free list in eviction order, and the   *)
(* prefix cache that maps block hashes to the blocks holding them.         *)
(*                                                                         *)
(* The clients are whoever holds references: the block tables of requests, *)
(* copy-on-write retention, connectors.  They are the environment: held    *)
(* says which references they own, and they call the pool within the       *)
(* preconditions its assertions state.                                     *)
(***************************************************************************)
EXTENDS FreeKVCacheBlockQueue

CONSTANTS Client,
          FullHash,       \* hashes of full blocks
          PartialHash,    \* hashes of a prefix ending inside a block
          HashTokens,     \* tokens of the prefix a hash stands for
          EnableCaching,
          MaxReports      \* bound: times the events repeat a hash

Hash == FullHash \cup PartialHash

ASSUME PoolAssumption ==
  /\ IsFiniteSet(Client)
  /\ FullHash \cap PartialHash = {}
  /\ None \notin Hash
  /\ HashTokens \in [Hash -> Nat \ {0}]
  /\ EnableCaching \in BOOLEAN
  /\ MaxReports \in Nat

VARIABLES
  pool,       \* [ref, hash, more, map]: see PoolRecord
  watchers,   \* _reuse_watchers: unpinned blocks still read until reused
  published,  \* per hash, BlockStored minus BlockRemoved events emitted
  repeated,   \* ghost: those of emit_cached_block_events among them
  held        \* references owned by each client

vars == <<queue, pool, watchers, published, repeated, held>>

\* ref: ref_cnt;  hash: the block's (primary) block_hash;
\* more: cached_block_hashes_by_block;  map: cached_block_hash_to_block.
PoolRecord ==
  [ref : [Block -> 0 .. Cardinality(Client)],
   hash : [Block -> Hash \cup {None}],
   more : [Block -> SUBSET Hash],
   map : [Hash -> SUBSET Block]]

HashesOf(p, b) == p.more[b] \cup ({p.hash[b]} \ {None})

\* Mutant: the secondary hashes forgotten.
DropHashesKeepsMore(p, S) ==
  [p EXCEPT !.hash = [b \in Block |-> IF b \in S THEN None ELSE p.hash[b]],
            !.map = [h \in Hash |-> {b \in p.map[h] : b \notin S \/ h # p.hash[b]}]]

\* _remove_cached_block_hashes, for the blocks of S
DropHashes(p, S) ==
  [p EXCEPT !.hash = [b \in Block |-> IF b \in S THEN None ELSE p.hash[b]],
            !.more = [b \in Block |-> IF b \in S THEN {} ELSE p.more[b]],
            !.map = [h \in Hash |->
                       {b \in p.map[h] : b \notin S \/ h \notin HashesOf(p, b)}]]

\* The hashes for which _remove_cached_block_hashes reports a removal.
DroppedBy(p, b) == {h \in HashesOf(p, b) : b \in p.map[h]}

\* _insert_block_hash
InsertHash(p, b, h) ==
  CASE p.hash[b] = h \/ b \in p.map[h] -> p
    [] p.hash[b] = None /\ b \notin p.map[h] ->
         [p EXCEPT !.hash[b] = h, !.map[h] = @ \cup {b}]
    [] OTHER -> [p EXCEPT !.more[b] = @ \cup {h}, !.map[h] = @ \cup {b}]

\* The BlockRemoved and BlockStored events of one call
Published(pub, removed, stored) ==
  [h \in Hash |-> pub[h] - (IF h \in removed THEN 1 ELSE 0)
                         + (IF h \in stored THEN 1 ELSE 0)]

FreeBlocks == Range(AllFreeBlocks(queue))

\* ref_cnt += d for the blocks of S
Counted(ref, S, d) == [b \in Block |-> IF b \in S THEN ref[b] + d ELSE ref[b]]

-----------------------------------------------------------------------------
\* BlockPool.__init__; block 0, popped as the null block, is not in Block.
Init ==
  /\ QInit
  /\ pool = [ref |-> [b \in Block |-> 0], hash |-> [b \in Block |-> None],
             more |-> [b \in Block |-> {}], map |-> [h \in Hash |-> {}]]
  /\ watchers = {}
  /\ published = [h \in Hash |-> 0]
  /\ repeated = [h \in Hash |-> 0]
  /\ held = [c \in Client |-> {}]

\* Mutant: the blocks are handed out without _notify_reuse and eviction.
GetNewBlocksQuietly(c, n) ==
  /\ n <= queue.num
  /\ queue' = PopleftN(queue, n)
  /\ pool' = [pool EXCEPT !.ref = Counted(pool.ref, Range(Walk(queue, n)), 1)]
  /\ held' = [held EXCEPT ![c] = @ \cup Range(Walk(queue, n))]
  /\ UNCHANGED <<watchers, published, repeated>>

\* get_new_blocks: pop n blocks, fire their watchers, evict what they cached.
GetNewBlocks(c, n) ==
  LET ret == Range(Walk(queue, n))
      evicted == IF EnableCaching THEN DropHashes(pool, ret) ELSE pool
      removed == [h \in Hash |-> Cardinality({b \in ret : h \in DroppedBy(pool, b)})]
  IN /\ n <= queue.num
     /\ queue' = PopleftN(queue, n)
     /\ watchers' = watchers \ ret
     /\ pool' = [evicted EXCEPT !.ref = Counted(pool.ref, ret, 1)]
     /\ published' = IF EnableCaching THEN [h \in Hash |-> published[h] - removed[h]]
                     ELSE published
     /\ held' = [held EXCEPT ![c] = @ \cup ret]
     /\ UNCHANGED repeated

\* Mutant: a touched block stays in the free list.
TouchLeavesFree(c, s) ==
  /\ EnableCaching
  /\ \A b \in Range(s) : b \notin held[c] /\ \E h \in Hash : b \in pool.map[h]
  /\ pool' = [pool EXCEPT !.ref = Counted(pool.ref, Range(s), 1)]
  /\ held' = [held EXCEPT ![c] = @ \cup Range(s)]
  /\ UNCHANGED <<queue, watchers, published, repeated>>

\* touch: reference the blocks s, found by get_cached_block; those in the free
\* list leave it.
Touch(c, s) ==
  /\ EnableCaching
  /\ \A b \in Range(s) : b \notin held[c] /\ \E h \in Hash : b \in pool.map[h]
  /\ queue' = RemoveBlocks(queue, Only(s, {b \in Block : pool.ref[b] = 0}))
  /\ pool' = [pool EXCEPT !.ref = Counted(pool.ref, Range(s), 1)]
  /\ held' = [held EXCEPT ![c] = @ \cup Range(s)]
  /\ UNCHANGED <<watchers, published, repeated>>

\* free_blocks: blocks no longer referenced go to the front of the free list
\* when they cache nothing, to its end when they do.
FreeBlocksOf(c, ordered) ==
  LET ref == Counted(pool.ref, Range(ordered), -1)
      unused == {b \in Range(ordered) : ref[b] = 0}
      plain == {b \in unused : pool.hash[b] = None \/ ~EnableCaching}
      evict_first == Only(ordered, plain)
      evict_last == Only(ordered, unused \ plain)
  IN /\ Range(ordered) \subseteq held[c]
     /\ pool' = [pool EXCEPT !.ref = ref]
     /\ queue' = AppendN(PrependN(queue, evict_first), evict_last)
     /\ held' = [held EXCEPT ![c] = @ \ Range(ordered)]
     /\ UNCHANGED <<watchers, published, repeated>>

\* unpin_blocks
UnpinBlocks(c, ordered) ==
  LET ref == Counted(pool.ref, Range(ordered), -1)
      released == Only(ordered, {b \in Range(ordered) : ref[b] = 0})
  IN /\ Range(ordered) \subseteq held[c]
     /\ pool' = [pool EXCEPT !.ref = ref]
     /\ watchers' = watchers \cup Range(ordered)
     /\ queue' = AppendN(queue, released)
     /\ held' = [held EXCEPT ![c] = @ \ Range(ordered)]
     /\ UNCHANGED <<published, repeated>>

\* cache_full_blocks, for one block: a block that has a hash already is being
\* promoted from a shorter, partial prefix (the assertion in the loop).
CacheFullBlock(c, b, h) ==
  LET p == IF pool.hash[b] = None THEN pool ELSE DropHashes(pool, {b})
      removed == IF pool.hash[b] = None THEN {} ELSE DroppedBy(pool, b)
  IN /\ EnableCaching
     /\ b \in held[c] /\ h \in FullHash
     /\ pool.hash[b] # None => HashTokens[pool.hash[b]] < HashTokens[h]
     /\ pool' = InsertHash(p, b, h)
     /\ published' = Published(published, removed, {h})
     /\ UNCHANGED <<queue, watchers, repeated, held>>

\* cache_partial_block
CachePartialBlock(c, b, h, replace) ==
  LET already == pool.hash[b] = h \/ b \in pool.map[h]
      shorter == pool.hash[b] # None /\ HashTokens[pool.hash[b]] < HashTokens[h]
      drop == replace \/ (~already /\ shorter)
      p == IF drop THEN DropHashes(pool, {b}) ELSE pool
  IN /\ EnableCaching
     /\ b \in held[c]
     /\ pool' = InsertHash(p, b, h)
     /\ published' = Published(published,
                               IF drop THEN DroppedBy(pool, b) ELSE {},
                               IF already /\ ~replace THEN {} ELSE {h})
     /\ UNCHANGED <<queue, watchers, repeated, held>>

\* move_block_hashes: dst, freshly allocated, takes over the entries of src;
\* the first that is inserted, the primary hash of src if it was in the map,
\* becomes the primary hash of dst.
MoveBlockHashes(c, src, dst) ==
  LET p == DropHashes(pool, {src})
      moved == DroppedBy(pool, src)
      first == IF pool.hash[src] \in moved THEN pool.hash[src]
               ELSE CHOOSE h \in moved : TRUE
  IN /\ {src, dst} \subseteq held[c] /\ src # dst
     /\ pool.hash[dst] = None /\ pool.more[dst] = {}
     /\ pool' = IF moved = {} THEN p ELSE
          [p EXCEPT !.hash[dst] = first, !.more[dst] = moved \ {first},
                    !.map = [h \in Hash |-> IF h \in moved THEN p.map[h] \cup {dst}
                                            ELSE p.map[h]]]
     /\ UNCHANGED <<queue, watchers, published, repeated, held>>

\* Mutant: no BlockRemoved event for the evicted blocks.
EvictBlocksSilently(S) ==
  /\ pool' = DropHashes(pool, S)
  /\ UNCHANGED <<queue, watchers, published, repeated, held>>

\* evict_blocks, called with the blocks of a failed KV load.
EvictBlocks(S) ==
  /\ pool' = DropHashes(pool, S)
  /\ published' = [h \in Hash |->
       published[h] - Cardinality({b \in S : h \in DroppedBy(pool, b)})]
  /\ UNCHANGED <<queue, watchers, repeated, held>>

\* emit_cached_block_events, when a request that asks for full reports has a
\* prefix-cache hit: BlockStored for the first full blocks of the request, one
\* per block of the hit.  The null blocks of a sparse hit are among them, so
\* what is reported need not be cached.
EmitCachedBlockEvents(S) ==
  /\ EnableCaching
  /\ \E h \in Hash : pool.map[h] # {}
  /\ \A h \in S : repeated[h] < MaxReports
  /\ published' = Published(published, {}, S)
  /\ repeated' = Published(repeated, {}, S)
  /\ UNCHANGED <<queue, pool, watchers, held>>

\* reset_prefix_cache succeeds only when no block is in use.
ResetPrefixCache ==
  /\ queue.num = Cardinality(Block)
  /\ pool' = [pool EXCEPT !.hash = [b \in Block |-> None],
                          !.more = [b \in Block |-> {}],
                          !.map = [h \in Hash |-> {}]]
  /\ watchers' = {}
  /\ published' = [h \in Hash |-> 0]
  /\ repeated' = [h \in Hash |-> 0]
  /\ UNCHANGED <<queue, held>>

\* Some of the blocks of S, one at least, in some order
SomeOf(S) == UNION {Orderings(T) : T \in (SUBSET S) \ {{}}}

Next ==
  \/ \E c \in Client, n \in 1 .. queue.num : GetNewBlocks(c, n)
  \/ \E c \in Client : \E s \in SomeOf(Block) : Touch(c, s)
  \/ \E c \in Client : \E s \in SomeOf(held[c]) : FreeBlocksOf(c, s)
  \/ \E c \in Client : \E s \in SomeOf(held[c]) : UnpinBlocks(c, s)
  \/ \E c \in Client, b \in Block, h \in FullHash : CacheFullBlock(c, b, h)
  \/ \E c \in Client, b \in Block, h \in PartialHash, replace \in BOOLEAN :
       CachePartialBlock(c, b, h, replace)
  \/ \E c \in Client, src, dst \in Block : MoveBlockHashes(c, src, dst)
  \/ \E S \in (SUBSET Block) \ {{}} : EvictBlocks(S)
  \/ \E S \in (SUBSET FullHash) \ {{}} : EmitCachedBlockEvents(S)
  \/ ResetPrefixCache

Spec == Init /\ [][Next]_vars

-----------------------------------------------------------------------------
\* The type of the pool's state; no reference count goes below zero.
TypeOK ==
  /\ QTypeOK
  /\ pool \in PoolRecord
  /\ watchers \subseteq Block
  /\ published \in [Hash -> 0 .. Cardinality(Block) + MaxReports]
  /\ repeated \in [Hash -> 0 .. MaxReports]
  /\ held \in [Client -> SUBSET Block]

\* The free list and the reference counts tell the same story: a block is in
\* the free list exactly when no client holds it, and its ref_cnt is the
\* number of clients that do.  get_new_blocks asserts half of it
\* (ref_cnt == 0 for every block popped), touch() relies on the other half.
\* The list's links agree and the pool has its type.
FreeListIsUnreferenced ==
  /\ TypeOK
  /\ \A b \in Block : pool.ref[b] = Cardinality({c \in Client : b \in held[c]})
  /\ FreeBlocks = {b \in Block : pool.ref[b] = 0}
  /\ LinksAgree

\* The two indexes of the prefix cache agree: a hash maps to a block exactly
\* when the block carries that hash, as its primary hash or as a secondary
\* one; what BlockHashToBlockMap.pop() hopes for in its TODO ("If key is
\* found, block_id should always present in blocks").
HashIndexesAgree ==
  /\ \A b \in Block, h \in Hash : b \in pool.map[h] <=> h \in HashesOf(pool, b)
  /\ \A b \in Block : pool.hash[b] = None => pool.more[b] = {}

\* A consumer of the KV events that counts BlockStored and BlockRemoved per
\* hash never counts less than the blocks that cache it, through duplicates,
\* promotions, copy-on-write moves and evictions: it counts each of them once,
\* and once more every report of emit_cached_block_events since the last
\* reset, which no removal ever takes back.
EventsMirrorCache ==
  \A h \in Hash : published[h] = Cardinality(pool.map[h]) + repeated[h]

\* A block that is handed out anew is quiet: whoever was still reading it
\* after unpin_blocks has been told, and no prefix-cache hit can find it.
HandedOutQuiet ==
  [][\A b \in FreeBlocks \ FreeBlocks' :
       (b \notin watchers' /\ \A h \in Hash : b \notin pool'.map[h])
       \/ (\E h \in Hash : b \in pool.map[h] /\ b \in pool'.map[h])]_vars

\* The linked list implements the eviction order: read from the head it is a
\* sequence that each operation of the pool changes as FreeBlockOrder says.
Order == INSTANCE FreeBlockOrder WITH order <- AllFreeBlocks(queue)
ImplementsOrder == Order!Spec
=============================================================================
