--------------------------- MODULE KVCacheManager ---------------------------
(***************************************************************************)
(* The KV cache of full-attention requests with prefix caching:            *)
(* KVCacheManager (vllm/v1/core/kv_cache_manager.py) over the unitary      *)
(* coordinator, FullAttentionManager and BlockPool.                        *)
(*                                                                         *)
(* A request's tokens fill the blocks of its table in order, BlockSize at  *)
(* a time.  A full block is entered in the prefix cache under the hash of  *)
(* the whole prefix that ends with it, and a later request with the same   *)
(* prefix shares the block instead of computing it again.                  *)
(*                                                                         *)
(* Which free blocks get_new_blocks picks is left open here (BlockPool     *)
(* models the eviction order).  data is a history variable: the prefix     *)
(* whose keys and values the worker leaves in a block, in the order in     *)
(* which the steps are scheduled, which is the order it executes them in.  *)
(***************************************************************************)
EXTENDS Integers, Sequences, FiniteSets

CONSTANTS
  Block,          \* the pool's blocks, the null block excluded
  Req,            \* requests
  Hash,           \* values of the chained block hash
  None,
  BlockSize,
  HashAt,         \* HashAt[r][i]: hash of the first i full blocks of r
  NumPrompt,      \* num_prompt_tokens of each request
  MaxNumTokens    \* most tokens a request reaches

\* hash_block_tokens chains a block's hash over its parent's, so a hash
\* identifies the length of the prefix and every shorter prefix of it.
ASSUME CacheAssumption ==
  /\ IsFiniteSet(Req)
  /\ None \notin Hash
  /\ BlockSize \in Nat \ {0}
  /\ MaxNumTokens \in Nat
  /\ HashAt \in [Req -> [1 .. MaxNumTokens -> Hash]]
  /\ \A r, s \in Req : \A i, j \in 1 .. MaxNumTokens :
       HashAt[r][i] = HashAt[s][j] => i = j
  /\ NumPrompt \in [Req -> 1 .. MaxNumTokens]

VARIABLES
  ref_cnt, free, block_hash, hash_map,    \* BlockPool
  req_to_blocks, num_cached_block,        \* FullAttentionManager
  num_computed_tokens, num_tokens,        \* Request
  data                                    \* history: contents of the blocks

pool == <<ref_cnt, free, block_hash, hash_map>>
vars == <<pool, req_to_blocks, num_cached_block, num_computed_tokens,
          num_tokens, data>>

\* cdiv(n, block_size) and n // block_size
NumBlocks(n) == (n + BlockSize - 1) \div BlockSize
NumFull(n)   == n \div BlockSize

Elems(s) == {s[i] : i \in 1 .. Len(s)}
Distinct(s) == \A i, j \in 1 .. Len(s) : s[i] = s[j] => i = j
Least(a, b) == IF a <= b THEN a ELSE b

Init ==
  /\ ref_cnt = [b \in Block |-> 0]
  /\ free = Block
  /\ block_hash = [b \in Block |-> None]
  /\ hash_map = [h \in Hash |-> {}]
  /\ req_to_blocks = [r \in Req |-> <<>>]
  /\ num_cached_block = [r \in Req |-> 0]
  /\ num_computed_tokens = [r \in Req |-> 0]
  /\ num_tokens = NumPrompt
  /\ data = [b \in Block |-> None]

-----------------------------------------------------------------------------
\* get_computed_blocks: at most num_tokens - 1 tokens may hit, so that the
\* last token is computed and yields logits.
MaxHitBlocks(r) == NumFull(num_tokens[r] - 1)

\* Mutant: the lookup ignores the parents of the block.
LongestHitUnchained(r, hits) ==
  /\ Len(hits) <= MaxHitBlocks(r)
  /\ \A i \in 1 .. Len(hits) : \E q \in Req : hits[i] \in hash_map[HashAt[q][i]]

\* FullAttentionManager.find_longest_cache_hit: the longest run of cached
\* blocks from the start, one block for each hash.
LongestHit(r, hits) ==
  /\ Len(hits) <= MaxHitBlocks(r)
  /\ \A i \in 1 .. Len(hits) : hits[i] \in hash_map[HashAt[r][i]]
  /\ Len(hits) < MaxHitBlocks(r) => hash_map[HashAt[r][Len(hits) + 1]] = {}

\* allocate_slots: enough free blocks besides the hits, which leave the free
\* list when they are touched.
CanAllocate(hits, k) ==
  k + Cardinality({b \in Elems(hits) : ref_cnt[b] = 0}) <= Cardinality(free)

\* get_new_blocks: k free blocks, in any order.
NewBlocks(k) == {new \in [1 .. k -> free] : Distinct(new)}

\* The rest of allocate_slots: touch the hits (add_local_computed_blocks),
\* take new blocks, evicting what they cached (get_new_blocks), and enter the
\* blocks ncache + 1 .. nfull in the cache (cache_blocks).  The worker then
\* writes positions start .. end - 1.
FillSlots(r, hits, new, table, start, end, ncache, nfull) ==
  LET cached(b) == \E i \in ncache + 1 .. nfull : table[i] = b
      index(b)  == CHOOSE i \in 1 .. Len(table) : table[i] = b
      hash == [b \in Block |-> IF cached(b) THEN HashAt[r][index(b)]
                               ELSE IF b \in Elems(new) THEN None
                               ELSE block_hash[b]]
  IN /\ ref_cnt' = [b \in Block |-> IF b \in Elems(hits) \cup Elems(new)
                                    THEN ref_cnt[b] + 1 ELSE ref_cnt[b]]
     /\ free' = free \ (Elems(hits) \cup Elems(new))
     /\ block_hash' = hash
     /\ hash_map' = [h \in Hash |->
          (hash_map[h] \ Elems(new)) \cup {b \in Block : cached(b) /\ hash[b] = h}]
     /\ req_to_blocks' = [req_to_blocks EXCEPT ![r] = table]
     /\ num_cached_block' = [num_cached_block EXCEPT ![r] =
          IF ncache >= nfull THEN ncache ELSE nfull]
     /\ num_computed_tokens' = [num_computed_tokens EXCEPT ![r] = end]
     /\ data' = [b \in Block |->
          IF \E i \in NumFull(start) + 1 .. Len(table) : table[i] = b
          THEN IF index(b) <= NumFull(end) THEN HashAt[r][index(b)] ELSE None
          ELSE data[b]]
     /\ UNCHANGED num_tokens

\* Mutant: a block that the step only begins to fill is cached as well.
AllocateSlotsCachesPartial(r, hits, new, n) ==
  LET start == num_computed_tokens[r] + Len(hits) * BlockSize
      end   == start + n
  IN FillSlots(r, hits, new, req_to_blocks[r] \o hits \o new, start, end,
               num_cached_block[r] + Len(hits), NumBlocks(Least(end, num_tokens[r])))

\* Slots for n more tokens of r; no block is cached beyond num_tokens.
AllocateSlots(r, hits, new, n) ==
  LET start == num_computed_tokens[r] + Len(hits) * BlockSize
      end   == start + n
  IN FillSlots(r, hits, new, req_to_blocks[r] \o hits \o new, start, end,
               num_cached_block[r] + Len(hits), NumFull(Least(end, num_tokens[r])))

\* A waiting or preempted request is admitted with the longest cache hit.
Admit(r, n) ==
  /\ req_to_blocks[r] = <<>>
  /\ \E hits \in UNION {[1 .. k -> Block] : k \in 0 .. MaxHitBlocks(r)} :
       LET k == NumBlocks(Len(hits) * BlockSize + n) - Len(hits) IN
       /\ LongestHit(r, hits)
       /\ Len(hits) * BlockSize + n <= num_tokens[r]
       /\ CanAllocate(hits, k)
       /\ \E new \in NewBlocks(k) :
            Elems(new) \cap Elems(hits) = {} /\ AllocateSlots(r, hits, new, n)

\* A running request is given slots for its next n tokens.
Continue(r, n) ==
  LET k == NumBlocks(num_computed_tokens[r] + n) - Len(req_to_blocks[r]) IN
  /\ req_to_blocks[r] # <<>>
  /\ num_computed_tokens[r] + n <= num_tokens[r]
  /\ CanAllocate(<<>>, k)
  /\ \E new \in NewBlocks(k) : AllocateSlots(r, <<>>, new, n)

\* update_from_output appends the sampled token.
AppendToken(r) ==
  /\ req_to_blocks[r] # <<>>
  /\ num_computed_tokens[r] = num_tokens[r]
  /\ num_tokens[r] < MaxNumTokens
  /\ num_tokens' = [num_tokens EXCEPT ![r] = @ + 1]
  /\ UNCHANGED <<pool, req_to_blocks, num_cached_block, num_computed_tokens, data>>

\* Mutant: shared blocks become free as well.
FreeTableShared(r) ==
  LET mine == Elems(req_to_blocks[r]) IN
  /\ ref_cnt' = [b \in Block |-> IF b \in mine THEN ref_cnt[b] - 1 ELSE ref_cnt[b]]
  /\ free' = free \cup mine
  /\ req_to_blocks' = [req_to_blocks EXCEPT ![r] = <<>>]
  /\ num_cached_block' = [num_cached_block EXCEPT ![r] = 0]
  /\ num_computed_tokens' = [num_computed_tokens EXCEPT ![r] = 0]
  /\ UNCHANGED <<block_hash, hash_map, data>>

\* free: drop the references of the table; blocks nobody else holds become
\* free and stay in the prefix cache until they are reused.
FreeTable(r) ==
  LET mine == Elems(req_to_blocks[r]) IN
  /\ ref_cnt' = [b \in Block |-> IF b \in mine THEN ref_cnt[b] - 1 ELSE ref_cnt[b]]
  /\ free' = free \cup {b \in mine : ref_cnt[b] = 1}
  /\ req_to_blocks' = [req_to_blocks EXCEPT ![r] = <<>>]
  /\ num_cached_block' = [num_cached_block EXCEPT ![r] = 0]
  /\ num_computed_tokens' = [num_computed_tokens EXCEPT ![r] = 0]
  /\ UNCHANGED <<block_hash, hash_map, data>>

\* A preempted request keeps its tokens and starts over later.
Preempt(r) == req_to_blocks[r] # <<>> /\ FreeTable(r) /\ UNCHANGED num_tokens

\* A finished request gives way to a new one with the same prompt.
Finish(r) ==
  /\ req_to_blocks[r] # <<>>
  /\ FreeTable(r)
  /\ num_tokens' = [num_tokens EXCEPT ![r] = NumPrompt[r]]

\* Mutant: the block forgets its hash, the hash still finds the block.
EvictBlocksHalf(S) ==
  /\ block_hash' = [b \in Block |-> IF b \in S THEN None ELSE block_hash[b]]
  /\ UNCHANGED <<hash_map, ref_cnt, free, req_to_blocks, num_cached_block,
                 num_computed_tokens, num_tokens, data>>

\* evict_blocks: the blocks leave the cache, their holders keep them.
EvictBlocks(S) ==
  /\ block_hash' = [b \in Block |-> IF b \in S THEN None ELSE block_hash[b]]
  /\ hash_map' = [h \in Hash |-> hash_map[h] \ S]
  /\ UNCHANGED <<ref_cnt, free, req_to_blocks, num_cached_block,
                 num_computed_tokens, num_tokens, data>>

\* reset_prefix_cache succeeds only when no block is in use.
ResetPrefixCache ==
  /\ Cardinality(free) = Cardinality(Block)
  /\ block_hash' = [b \in Block |-> None]
  /\ hash_map' = [h \in Hash |-> {}]
  /\ UNCHANGED <<ref_cnt, free, req_to_blocks, num_cached_block,
                 num_computed_tokens, num_tokens, data>>

Next ==
  \/ \E r \in Req, n \in 1 .. MaxNumTokens : Admit(r, n)
  \/ \E r \in Req, n \in 1 .. MaxNumTokens : Continue(r, n)
  \/ \E r \in Req : AppendToken(r)
  \/ \E r \in Req : Preempt(r)
  \/ \E r \in Req : Finish(r)
  \/ \E S \in SUBSET Block : EvictBlocks(S)
  \/ ResetPrefixCache

Spec == Init /\ [][Next]_vars

-----------------------------------------------------------------------------
Holders(b) == {r \in Req : b \in Elems(req_to_blocks[r])}

\* The type of the manager's state; no reference count goes below zero and no
\* block table holds a block that the pool does not own.
TypeOK ==
  /\ ref_cnt \in [Block -> Nat]
  /\ free \subseteq Block
  /\ block_hash \in [Block -> Hash \cup {None}]
  /\ hash_map \in [Hash -> SUBSET Block]
  /\ req_to_blocks \in [Req -> Seq(Block)]
  /\ num_cached_block \in [Req -> Nat]
  /\ num_computed_tokens \in [Req -> Nat]
  /\ num_tokens \in [Req -> 1 .. MaxNumTokens]
  /\ data \in [Block -> Hash \cup {None}]

\* The reference counts are exact: a block is counted once for each request
\* whose table holds it, and it is free exactly when no table does.  A block
\* freed too early would be handed to a second request, one freed too late
\* would be lost to the pool.
RefCountsExact ==
  /\ \A b \in Block : ref_cnt[b] = Cardinality(Holders(b))
  /\ free = {b \in Block : Holders(b) = {}}

\* A prefix-cache entry never lies: the block that a hash maps to carries that
\* hash and holds the keys and values of that very prefix, whatever evictions,
\* preemptions and reuses lie between the step that computed it and the hit.
CacheEntriesTrue ==
  \A h \in Hash : \A b \in hash_map[h] : block_hash[b] = h /\ data[b] = h

\* Every request attends to its own prefix: each full block of computed tokens
\* in its table, shared or not, holds the request's own tokens.
TablesHoldOwnPrefix ==
  \A r \in Req : \A i \in 1 .. NumFull(num_computed_tokens[r]) :
    data[req_to_blocks[r][i]] = HashAt[r][i]

\* The block that a request will write next is its own and is not in the
\* prefix cache: no step writes to a block that another request, or a later
\* cache hit, reads.
WriteTargetPrivate ==
  \A r \in Req :
    \A i \in NumFull(num_computed_tokens[r]) + 1 .. Len(req_to_blocks[r]) :
      /\ \A q \in Req \ {r} : req_to_blocks[r][i] \notin Elems(req_to_blocks[q])
      /\ block_hash[req_to_blocks[r][i]] = None
=============================================================================
