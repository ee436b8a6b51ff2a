------------------------ MODULE KVCacheManagerProofs ------------------------
(***************************************************************************)
(* Proofs that the prefix cache of KVCacheManager is sound for any number  *)
(* of blocks, requests and tokens and any block size.                      *)
(***************************************************************************)
EXTENDS KVCacheManager, FiniteSetTheorems, TLAPS

(* Zenon, with a minute for each leaf; the leaves that count name SMT.      *)
USE ZenonT(60)

-----------------------------------------------------------------------------
(* Arithmetic of block counts.                                             *)

\* The block size is a positive integer.
LEMMA BlockSizePositive == BlockSize \in Nat \ {0}
  BY CacheAssumption

\* n // block_size is the number of whole blocks in n tokens.
LEMMA NumFullBounds ==
  ASSUME NEW n \in Nat
  PROVE  /\ NumFull(n) \in Nat
         /\ NumFull(n) * BlockSize <= n
         /\ n < NumFull(n) * BlockSize + BlockSize
  BY BlockSizePositive, SMTT(60) DEF NumFull

\* Multiplying by the block size is strictly monotonic.
LEMMA TimesBlockSize ==
  ASSUME NEW m \in Nat, NEW n \in Nat, m < n
  PROVE  /\ m * BlockSize + BlockSize <= n * BlockSize
         /\ m * BlockSize \in Nat /\ n * BlockSize \in Nat
  <1> DEFINE d == n - m - 1
  <1>1. d \in Nat /\ n = m + 1 + d  BY SMTT(60)
  <1>2. n * BlockSize = m * BlockSize + BlockSize + d * BlockSize
    BY <1>1, BlockSizePositive, Z3
  <1>3. d * BlockSize \in Nat /\ m * BlockSize \in Nat
    BY <1>1, BlockSizePositive, Z3
  <1> HIDE DEF d
  <1> QED BY <1>2, <1>3, BlockSizePositive, SMTT(60)

\* q is the quotient as soon as n lies in its interval.
LEMMA NumFullUnique ==
  ASSUME NEW n \in Nat, NEW q \in Nat, q * BlockSize <= n,
         n < q * BlockSize + BlockSize
  PROVE  NumFull(n) = q
  <1> DEFINE f == NumFull(n)
  <1>1. f \in Nat /\ f * BlockSize <= n /\ n < f * BlockSize + BlockSize
    BY NumFullBounds
  <1> HIDE DEF f
  <1>2. f * BlockSize \in Nat /\ q * BlockSize \in Nat
    BY <1>1, BlockSizePositive, Z3
  <1>3. ~(f < q)
    <2> SUFFICES ASSUME f < q PROVE FALSE  OBVIOUS
    <2>1. f * BlockSize + BlockSize <= q * BlockSize  BY <1>1, TimesBlockSize
    <2> QED BY <2>1, <1>1, <1>2, BlockSizePositive, SMTT(60)
  <1>4. ~(q < f)
    <2> SUFFICES ASSUME q < f PROVE FALSE  OBVIOUS
    <2>1. q * BlockSize + BlockSize <= f * BlockSize  BY <1>1, TimesBlockSize
    <2> QED BY <2>1, <1>1, <1>2, BlockSizePositive, SMTT(60)
  <1>5. f = q  BY <1>1, <1>3, <1>4, SMTT(60)
  <1> QED BY <1>5 DEF f

\* More tokens fill no fewer blocks.
LEMMA NumFullMonotone ==
  ASSUME NEW m \in Nat, NEW n \in Nat, m <= n
  PROVE  NumFull(m) <= NumFull(n)
  <1> DEFINE f == NumFull(m)  g == NumFull(n)
  <1>1. f \in Nat /\ f * BlockSize <= m  BY NumFullBounds
  <1>2. g \in Nat /\ n < g * BlockSize + BlockSize  BY NumFullBounds
  <1> HIDE DEF f, g
  <1>3. ~(g < f)
    <2> SUFFICES ASSUME g < f PROVE FALSE  OBVIOUS
    <2>1. g * BlockSize + BlockSize <= f * BlockSize  BY <1>1, <1>2, TimesBlockSize
    <2>2. f * BlockSize \in Nat /\ g * BlockSize \in Nat
      BY <1>1, <1>2, BlockSizePositive, Z3
    <2> QED BY <2>1, <2>2, <1>1, <1>2, BlockSizePositive, SMTT(60)
  <1>4. f <= g  BY <1>1, <1>2, <1>3, SMTT(60)
  <1> QED BY <1>4 DEF f, g

\* Whole blocks hold at least a token each.
LEMMA NumFullAtMost ==
  ASSUME NEW n \in Nat
  PROVE  NumFull(n) <= n
  <1> DEFINE f == NumFull(n)
  <1>1. f \in Nat /\ f * BlockSize <= n  BY NumFullBounds
  <1> HIDE DEF f
  <1>2. f <= f * BlockSize  BY <1>1, BlockSizePositive, Z3
  <1>3. f * BlockSize \in Nat  BY <1>1, BlockSizePositive, Z3
  <1>4. f <= n  BY <1>1, <1>2, <1>3, SMTT(60)
  <1> QED BY <1>4 DEF f

\* cdiv is n // block_size of a larger count.
LEMMA NumBlocksIsNumFull ==
  ASSUME NEW n \in Nat
  PROVE  NumBlocks(n) = NumFull(n + BlockSize - 1) /\ n + BlockSize - 1 \in Nat
  BY BlockSizePositive, SMTT(60) DEF NumBlocks, NumFull

\* The blocks needed for n tokens are the full ones and at most one more.
LEMMA NumBlocksBounds ==
  ASSUME NEW n \in Nat
  PROVE  /\ NumBlocks(n) \in Nat
         /\ NumFull(n) <= NumBlocks(n)
         /\ NumBlocks(n) <= NumFull(n) + 1
  <1> DEFINE f == NumFull(n)  m == n + BlockSize - 1
  <1>1. m \in Nat /\ NumBlocks(n) = NumFull(m) /\ n <= m
    BY NumBlocksIsNumFull, BlockSizePositive, SMTT(60)
  <1>2. f \in Nat /\ n < f * BlockSize + BlockSize  BY NumFullBounds
  <1>3. NumFull(m) \in Nat /\ NumFull(n) <= NumFull(m)
    BY <1>1, NumFullBounds, NumFullMonotone
  <1>4. NumFull(m) <= f + 1
    <2> DEFINE g == NumFull(m)
    <2>1. g \in Nat /\ g * BlockSize <= m  BY <1>1, NumFullBounds
    <2> SUFFICES ASSUME f + 1 < g PROVE FALSE  BY <1>2, <2>1, SMTT(60)
    <2> HIDE DEF f, g
    <2>2. (f + 1) * BlockSize + BlockSize <= g * BlockSize
      BY <1>2, <2>1, TimesBlockSize, SMTT(60)
    <2>3. (f + 1) * BlockSize = f * BlockSize + BlockSize
      BY <1>2, BlockSizePositive, Z3
    <2>4. f * BlockSize \in Nat /\ g * BlockSize \in Nat
      BY <1>2, <2>1, BlockSizePositive, Z3
    <2> QED BY <1>2, <2>1, <2>2, <2>3, <2>4, BlockSizePositive, SMTT(60)
  <1> QED BY <1>1, <1>3, <1>4

\* More tokens need no fewer blocks.
LEMMA NumBlocksMonotone ==
  ASSUME NEW m \in Nat, NEW n \in Nat, m <= n
  PROVE  NumBlocks(m) <= NumBlocks(n)
  BY NumBlocksIsNumFull, NumFullMonotone, BlockSizePositive, SMTT(60)

\* A whole number of blocks is its own block count.
LEMMA NumBlocksOfMultiple ==
  ASSUME NEW k \in Nat
  PROVE  k * BlockSize \in Nat /\ NumFull(k * BlockSize) = k
         /\ NumBlocks(k * BlockSize) = k
  <1>1. k * BlockSize \in Nat  BY BlockSizePositive, Z3
  <1>2. NumFull(k * BlockSize) = k  BY <1>1, NumFullUnique, BlockSizePositive, SMTT(60)
  <1>3. NumFull(k * BlockSize + BlockSize - 1) = k
    BY <1>1, NumFullUnique, BlockSizePositive, SMTT(60)
  <1> QED BY <1>1, <1>2, <1>3, NumBlocksIsNumFull

-----------------------------------------------------------------------------
(* The inductive invariant.                                                *)

\* The table of a request is as long as its computed tokens need, without
\* repetition, and exactly its full blocks have been offered to the cache.
TableShape ==
  \A r \in Req :
    /\ num_computed_tokens[r] <= num_tokens[r]
    /\ Len(req_to_blocks[r]) = NumBlocks(num_computed_tokens[r])
    /\ num_cached_block[r] = NumFull(num_computed_tokens[r])
    /\ Distinct(req_to_blocks[r])

\* hash_map is the inverse of block_hash, and hashes do not lie.
HashIndex ==
  /\ \A h \in Hash : hash_map[h] = {b \in Block : block_hash[b] = h}
  /\ \A b \in Block : block_hash[b] # None => data[b] = block_hash[b]

IInv == /\ TypeOK
        /\ RefCountsExact
        /\ TableShape
        /\ HashIndex
        /\ TablesHoldOwnPrefix
        /\ WriteTargetPrivate

\* The inductive invariant is strong enough for the cache property.
LEMMA IInvCacheEntriesTrue == IInv => CacheEntriesTrue
  BY CacheAssumption, SMTT(60) DEF IInv, HashIndex, CacheEntriesTrue

\* The empty pool satisfies the inductive invariant.
LEMMA InitIInv == Init => IInv
  <1> SUFFICES ASSUME Init PROVE IInv  OBVIOUS
  <1> USE CacheAssumption DEF Init
  <1>1. TypeOK  BY SMTT(60) DEF TypeOK
  <1>2. \A b \in Block : Holders(b) = {}
    BY SMTT(60) DEF Holders, Elems
  <1>3. RefCountsExact  BY <1>2, FS_EmptySet DEF RefCountsExact
  <1>4. NumFull(0) = 0 /\ NumBlocks(0) = 0
    <2>1. 0 * BlockSize = 0  BY BlockSizePositive, SMTT(60)
    <2> QED BY <2>1, NumBlocksOfMultiple
  <1>5. TableShape  BY <1>4, SMTT(60) DEF TableShape, Distinct
  <1>6. HashIndex  BY DEF HashIndex
  <1>7. TablesHoldOwnPrefix  BY <1>4, SMTT(60) DEF TablesHoldOwnPrefix
  <1>8. WriteTargetPrivate  BY <1>4, SMTT(60) DEF WriteTargetPrivate
  <1> QED BY <1>1, <1>3, <1>5, <1>6, <1>7, <1>8 DEF IInv

\* Elements of a table in the type invariant's terms.
LEMMA ElemsInBlock ==
  ASSUME NEW s \in Seq(Block)
  PROVE  Elems(s) \subseteq Block /\ \A i \in 1 .. Len(s) : s[i] \in Block
  BY SMTT(60) DEF Elems

\* Appending tokens leaves every block alone.
LEMMA AppendTokenIInv ==
  ASSUME IInv, NEW r \in Req, AppendToken(r)
  PROVE  IInv'
  <1> USE DEF AppendToken, pool
  <1>1. TypeOK'  BY CacheAssumption, SMTT(60) DEF IInv, TypeOK
  <1>2. \A b : Holders(b)' = Holders(b)  BY DEF Holders
  <1>3. RefCountsExact'  BY <1>2 DEF IInv, RefCountsExact
  <1>4. TableShape'  BY SMTT(60) DEF IInv, TypeOK, TableShape, Distinct
  <1>5. HashIndex'  BY DEF IInv, HashIndex
  <1>6. TablesHoldOwnPrefix'  BY DEF IInv, TablesHoldOwnPrefix
  <1>7. WriteTargetPrivate'  BY SMTT(60) DEF IInv, WriteTargetPrivate, Elems
  <1> QED BY <1>1, <1>3, <1>4, <1>5, <1>6, <1>7 DEF IInv

\* Evicting blocks from the cache only removes entries.
LEMMA EvictBlocksIInv ==
  ASSUME IInv, NEW S \in SUBSET Block, EvictBlocks(S)
  PROVE  IInv'
  <1> USE DEF EvictBlocks
  <1>1. TypeOK'  BY DEF IInv, TypeOK
  <1>2. \A b : Holders(b)' = Holders(b)  BY DEF Holders
  <1>3. RefCountsExact'  BY <1>2 DEF IInv, RefCountsExact
  <1>4. TableShape'  BY DEF IInv, TypeOK, TableShape, Distinct
  <1>5. HashIndex'  BY CacheAssumption DEF IInv, TypeOK, HashIndex
  <1>6. TablesHoldOwnPrefix'  BY DEF IInv, TablesHoldOwnPrefix
  <1>7. WriteTargetPrivate'
    <2> SUFFICES ASSUME NEW q \in Req,
                        NEW i \in NumFull(num_computed_tokens[q]) + 1 .. Len(req_to_blocks[q])
                 PROVE  block_hash'[req_to_blocks[q][i]] = None
      BY SMTT(60) DEF WriteTargetPrivate, IInv, Elems
    <2>1. num_computed_tokens[q] \in Nat /\ req_to_blocks[q] \in Seq(Block)
      BY DEF IInv, TypeOK
    <2>2. i \in 1 .. Len(req_to_blocks[q])  BY <2>1, NumFullBounds, SMTT(60)
    <2>3. req_to_blocks[q][i] \in Block  BY <2>1, <2>2, ElemsInBlock
    <2> QED BY <2>3 DEF IInv, WriteTargetPrivate
  <1> QED BY <1>1, <1>3, <1>4, <1>5, <1>6, <1>7 DEF IInv

\* A reset of the cache is the eviction of every block.
LEMMA ResetPrefixCacheIInv ==
  ASSUME IInv, ResetPrefixCache
  PROVE  IInv'
  <1>1. EvictBlocks(Block)
    BY DEF ResetPrefixCache, EvictBlocks, IInv, TypeOK
  <1> QED BY <1>1, EvictBlocksIInv

\* Dropping a table keeps the other requests' view of every block.
LEMMA FreeTableIInv ==
  ASSUME IInv, NEW r \in Req, FreeTable(r),
         num_tokens' \in [Req -> 1 .. MaxNumTokens],
         \A q \in Req \ {r} : num_tokens'[q] = num_tokens[q]
  PROVE  IInv'
  <1> DEFINE mine == Elems(req_to_blocks[r])
  <1>0. /\ req_to_blocks[r] \in Seq(Block) /\ mine \subseteq Block
        /\ \A b \in mine : r \in Holders(b)
    BY ElemsInBlock DEF IInv, TypeOK, Holders
  <1>a. /\ req_to_blocks' = [req_to_blocks EXCEPT ![r] = <<>>]
        /\ num_cached_block' = [num_cached_block EXCEPT ![r] = 0]
        /\ num_computed_tokens' = [num_computed_tokens EXCEPT ![r] = 0]
        /\ block_hash' = block_hash /\ hash_map' = hash_map /\ data' = data
    BY DEF FreeTable
  <1>1. \A b \in Block : Holders(b)' = Holders(b) \ {r}
    BY <1>0, SMTT(60) DEF FreeTable, Holders, Elems, IInv, TypeOK
  <1>2. \A b \in Block : b \notin mine => Holders(b)' = Holders(b)
    BY <1>1 DEF Holders
  <1>3. \A b \in Block : IsFiniteSet(Holders(b)) /\ Cardinality(Holders(b)) \in Nat
    BY CacheAssumption, FS_Subset, FS_CardinalityType DEF Holders
  <1>4. \A b \in mine : Cardinality(Holders(b)') = Cardinality(Holders(b)) - 1
    BY <1>0, <1>1, <1>3, FS_RemoveElement
  <1>5. \A b \in mine : Cardinality(Holders(b)) >= 1
    <2> SUFFICES ASSUME NEW b \in mine PROVE Cardinality(Holders(b)) >= 1  OBVIOUS
    <2>1. Holders(b) # {} /\ IsFiniteSet(Holders(b)) /\ Cardinality(Holders(b)) \in Nat
      BY <1>0, <1>3
    <2> QED BY <2>1, FS_EmptySet, SMTT(60)
  <1>6. TypeOK'
    <2>1. ref_cnt' \in [Block -> Nat]
      BY <1>0, <1>5, SMTT(60) DEF FreeTable, IInv, TypeOK, RefCountsExact
    <2>2. req_to_blocks' \in [Req -> Seq(Block)]
      <3>1. <<>> \in Seq(Block)  BY SMTT(60)
      <3> QED BY <3>1 DEF FreeTable, IInv, TypeOK
    <2>3. free' \subseteq Block  BY <1>0 DEF FreeTable, IInv, TypeOK
    <2> QED BY <2>1, <2>2, <2>3 DEF FreeTable, IInv, TypeOK
  <1>7. RefCountsExact'
    <2>1. \A b \in Block : ref_cnt'[b] = Cardinality(Holders(b)')
      BY <1>2, <1>4 DEF FreeTable, IInv, TypeOK, RefCountsExact
    <2>2. ASSUME NEW b \in Block PROVE b \in free' <=> Holders(b)' = {}
      <3>1. CASE b \notin mine
        BY <3>1, <1>2 DEF FreeTable, IInv, RefCountsExact
      <3>2. CASE b \in mine
        <4>1. ref_cnt[b] = 1 <=> Cardinality(Holders(b)') = 0
          BY <3>2, <1>3, <1>4, SMTT(60) DEF IInv, RefCountsExact
        <4>2. IsFiniteSet(Holders(b)')  BY <1>1, <1>3, FS_RemoveElement, SMTT(60)
        <4>3. Cardinality(Holders(b)') = 0 <=> Holders(b)' = {}
          BY <4>2, FS_EmptySet
        <4>4. b \notin free  BY <3>2, <1>0 DEF IInv, RefCountsExact
        <4> QED BY <4>1, <4>3, <4>4, <3>2 DEF FreeTable
      <3> QED BY <3>1, <3>2
    <2>3. free' \subseteq Block  BY <1>6 DEF TypeOK
    <2> QED BY <2>1, <2>2, <2>3 DEF RefCountsExact
  <1>8. NumFull(0) = 0 /\ NumBlocks(0) = 0
    <2>1. 0 * BlockSize = 0  BY BlockSizePositive, SMTT(60)
    <2> QED BY <2>1, NumBlocksOfMultiple
  <1>9. TableShape'
    <2> SUFFICES ASSUME NEW q \in Req
                 PROVE  /\ num_computed_tokens'[q] <= num_tokens'[q]
                        /\ Len(req_to_blocks'[q]) = NumBlocks(num_computed_tokens'[q])
                        /\ num_cached_block'[q] = NumFull(num_computed_tokens'[q])
                        /\ Distinct(req_to_blocks'[q])
      BY DEF TableShape, NumBlocks, NumFull, Distinct
    <2>1. CASE q = r
      <3>1. /\ req_to_blocks'[q] = <<>> /\ num_computed_tokens'[q] = 0
            /\ num_cached_block'[q] = 0 /\ num_tokens'[q] \in Nat
        BY <2>1, <1>a, SMTT(60) DEF IInv, TypeOK
      <3>2. Len(<<>>) = 0 /\ Distinct(<<>>)  BY SMTT(60) DEF Distinct
      <3> QED BY <3>1, <3>2, <1>8, SMTT(60)
    <2>2. CASE q # r
      BY <2>2 DEF FreeTable, IInv, TypeOK, TableShape
    <2> QED BY <2>1, <2>2
  <1>10. HashIndex'  BY DEF FreeTable, IInv, HashIndex
  <1>11. TablesHoldOwnPrefix'
    BY <1>8, SMTT(60) DEF FreeTable, IInv, TypeOK, TablesHoldOwnPrefix
  <1>12. WriteTargetPrivate'
    <2> SUFFICES ASSUME NEW q \in Req,
                        NEW i \in NumFull(num_computed_tokens'[q]) + 1 .. Len(req_to_blocks'[q])
                 PROVE  /\ \A p \in Req \ {q} : req_to_blocks'[q][i] \notin Elems(req_to_blocks'[p])
                        /\ block_hash'[req_to_blocks'[q][i]] = None
      BY DEF WriteTargetPrivate, Elems, NumFull
    <2>1. q # r  BY <1>8, SMTT(60) DEF FreeTable, IInv, TypeOK
    <2>2. req_to_blocks'[q] = req_to_blocks[q]
          /\ num_computed_tokens'[q] = num_computed_tokens[q]
      BY <2>1 DEF FreeTable, IInv, TypeOK
    <2>3. \A p \in Req : Elems(req_to_blocks'[p]) \subseteq Elems(req_to_blocks[p])
      BY SMTT(60) DEF FreeTable, IInv, TypeOK, Elems
    <2>4. /\ \A p \in Req \ {q} : req_to_blocks[q][i] \notin Elems(req_to_blocks[p])
          /\ block_hash[req_to_blocks[q][i]] = None
      BY <2>2 DEF IInv, WriteTargetPrivate
    <2> QED BY <2>2, <2>3, <2>4, <1>a
  <1> QED BY <1>6, <1>7, <1>9, <1>10, <1>11, <1>12 DEF IInv

\* A request without computed tokens has no blocks.
LEMMA NumBlocksZero ==
  ASSUME NEW n \in Nat, NumBlocks(n) = 0
  PROVE  n = 0
  <1>1. n + BlockSize - 1 < 0 * BlockSize + BlockSize
    BY NumBlocksIsNumFull, NumFullBounds
  <1> QED BY <1>1, BlockSizePositive, SMTT(60)

\* A step computes tokens of r from token start on; old are the blocks before
\* it: the table of a running request, or the cache hits of an admitted one.
StartsFrom(r, hits, start, old) ==
  /\ start = num_computed_tokens[r] + Len(hits) * BlockSize
  /\ old = req_to_blocks[r] \o hits
  /\ req_to_blocks[r] = <<>> \/ hits = <<>>
  /\ Len(hits) <= MaxNumTokens
  /\ \A i \in 1 .. Len(hits) : hits[i] \in hash_map[HashAt[r][i]]

\* What is known of these blocks.
StartBlocksOK(r, hits, start, old) ==
  /\ start \in Nat /\ old \in Seq(Block)
  /\ Len(old) = NumBlocks(start)
  /\ num_cached_block[r] + Len(hits) = NumFull(start)
  /\ Distinct(old)
  /\ Elems(old) = Elems(req_to_blocks[r]) \cup Elems(hits)
  /\ \A i \in 1 .. NumFull(start) : data[old[i]] = HashAt[r][i]
  /\ \A i \in NumFull(start) + 1 .. Len(old) :
        /\ \A q \in Req \ {r} : old[i] \notin Elems(req_to_blocks[q])
        /\ block_hash[old[i]] = None

\* A step starts from r's own prefix, and the rest of the last block is r's
\* alone.
LEMMA StartBlocks ==
  ASSUME IInv, NEW r \in Req, NEW hits \in Seq(Block), NEW start, NEW old,
         StartsFrom(r, hits, start, old)
  PROVE  StartBlocksOK(r, hits, start, old)
  <1> USE DEF StartsFrom, StartBlocksOK
  <1> DEFINE tbl == req_to_blocks[r]  comp == num_computed_tokens[r]
  <1>1. /\ tbl \in Seq(Block) /\ comp \in Nat
        /\ Len(tbl) = NumBlocks(comp) /\ num_cached_block[r] = NumFull(comp)
        /\ Distinct(tbl)
        /\ \A i \in 1 .. NumFull(comp) : data[tbl[i]] = HashAt[r][i]
        /\ \A i \in NumFull(comp) + 1 .. Len(tbl) :
              /\ \A q \in Req \ {r} : tbl[i] \notin Elems(req_to_blocks[q])
              /\ block_hash[tbl[i]] = None
    BY DEF IInv, TypeOK, TableShape, TablesHoldOwnPrefix, WriteTargetPrivate
  <1>2. CASE hits = <<>>
    <2>1. Len(hits) = 0 /\ 0 * BlockSize = 0  BY <1>2, BlockSizePositive, SMTT(60)
    <2>2. start = comp  BY <2>1, <1>1, SMTT(60)
    <2>3. old = tbl /\ Elems(hits) = {}  BY <1>1, <1>2, SMTT(60) DEF Elems
    <2>4. num_cached_block[r] \in Nat  BY DEF IInv, TypeOK
    <2> QED BY <1>1, <2>1, <2>2, <2>3, <2>4, SMTT(60)
  <1>3. CASE tbl = <<>>
    <2>1. comp = 0  BY <1>1, <1>3, NumBlocksZero
    <2>2. start = Len(hits) * BlockSize /\ start \in Nat
      BY <2>1, NumBlocksOfMultiple, SMTT(60)
    <2>3. NumFull(start) = Len(hits) /\ NumBlocks(start) = Len(hits)
      <3>1. \A k \in Nat : NumFull(k * BlockSize) = k /\ NumBlocks(k * BlockSize) = k
        BY NumBlocksOfMultiple
      <3>2. Len(hits) \in Nat  BY SMTT(60)
      <3>3. NumFull(Len(hits) * BlockSize) = Len(hits)
            /\ NumBlocks(Len(hits) * BlockSize) = Len(hits)
        BY <3>1, <3>2
      <3> QED BY <2>2, <3>3
    <2>4. old = hits /\ Elems(tbl) = {}  BY <1>3, SMTT(60) DEF Elems
    <2>5. num_cached_block[r] = 0
      <3>1. 0 * BlockSize = 0  BY BlockSizePositive, SMTT(60)
      <3> QED BY <3>1, <1>1, <2>1, NumBlocksOfMultiple
    <2>6. \A i \in 1 .. Len(hits) : /\ hits[i] \in Block /\ HashAt[r][i] \in Hash
                                    /\ block_hash[hits[i]] = HashAt[r][i]
                                    /\ data[hits[i]] = HashAt[r][i]
      <3> SUFFICES ASSUME NEW i \in 1 .. Len(hits)
                   PROVE  /\ hits[i] \in Block /\ HashAt[r][i] \in Hash
                          /\ block_hash[hits[i]] = HashAt[r][i]
                          /\ data[hits[i]] = HashAt[r][i]
        OBVIOUS
      <3>1. i \in 1 .. MaxNumTokens  BY CacheAssumption, SMTT(60)
      <3>2. HashAt[r][i] \in Hash  BY <3>1, CacheAssumption
      <3>3. hits[i] \in hash_map[HashAt[r][i]]  OBVIOUS
      <3>4. hits[i] \in Block /\ block_hash[hits[i]] = HashAt[r][i]
        BY <3>2, <3>3, SMTT(60) DEF IInv, HashIndex
      <3> QED BY <3>2, <3>4, CacheAssumption DEF IInv, HashIndex
    <2>7. Distinct(hits)
      <3> SUFFICES ASSUME NEW i \in 1 .. Len(hits), NEW j \in 1 .. Len(hits),
                          hits[i] = hits[j]
                   PROVE  i = j
        BY DEF Distinct
      <3>1. HashAt[r][i] = HashAt[r][j]  BY <2>6
      <3>2. i \in 1 .. MaxNumTokens /\ j \in 1 .. MaxNumTokens  BY CacheAssumption, SMTT(60)
      <3> QED BY <3>1, <3>2, CacheAssumption
    <2> QED BY <2>2, <2>3, <2>4, <2>5, <2>6, <2>7, SMTT(60)
  <1> QED BY <1>2, <1>3

\* Appending new blocks to a table.
Appended(old, new, table) ==
  /\ table \in Seq(Block) /\ Len(table) = Len(old) + Len(new)
  /\ \A i \in 1 .. Len(old) : table[i] = old[i]
  /\ \A i \in Len(old) + 1 .. Len(table) : table[i] \in Elems(new)
  /\ \A j \in 1 .. Len(new) : table[j + Len(old)] = new[j]
  /\ Elems(table) = Elems(old) \cup Elems(new)
  /\ Distinct(table)

\* New blocks appended to a table leave its blocks where they are.
LEMMA AppendedTable ==
  ASSUME NEW old \in Seq(Block), NEW new \in Seq(Block), NEW table,
         table = old \o new, Distinct(old), Distinct(new),
         Elems(old) \cap Elems(new) = {}
  PROVE  Appended(old, new, table)
  <1>1. /\ table \in Seq(Block) /\ Len(table) = Len(old) + Len(new)
        /\ \A i \in 1 .. Len(old) : table[i] = old[i]
        /\ \A i \in Len(old) + 1 .. Len(table) :
              i - Len(old) \in 1 .. Len(new) /\ table[i] = new[i - Len(old)]
    BY SMTT(60)
  <1>2. \A j \in 1 .. Len(new) : /\ j + Len(old) \in Len(old) + 1 .. Len(table)
                                 /\ table[j + Len(old)] = new[j]
    BY <1>1, SMTT(60)
  <1>3. \A k \in 1 .. Len(old) : table[k] \in Elems(old)  BY <1>1 DEF Elems
  <1>4. \A k \in Len(old) + 1 .. Len(table) : table[k] \in Elems(new)
    BY <1>1 DEF Elems
  <1>5. Elems(table) = Elems(old) \cup Elems(new)
    <2>1. Elems(table) \subseteq Elems(old) \cup Elems(new)
      BY <1>1, <1>3, <1>4, SMTT(60) DEF Elems
    <2>2. Elems(old) \subseteq Elems(table)
      BY <1>1, SMTT(60) DEF Elems
    <2>3. ASSUME NEW j \in 1 .. Len(new) PROVE new[j] \in Elems(table)
      <3>1. j + Len(old) \in 1 .. Len(table) /\ table[j + Len(old)] = new[j]
        BY <1>1, <1>2, SMTT(60)
      <3> QED BY <3>1 DEF Elems
    <2>4. ASSUME NEW b \in Elems(new) PROVE b \in Elems(table)
      <3>1. PICK j \in 1 .. Len(new) : b = new[j]  BY DEF Elems
      <3> QED BY <3>1, <2>3
    <2> QED BY <2>1, <2>2, <2>4
  <1>6. Distinct(table)
    <2> SUFFICES ASSUME NEW i \in 1 .. Len(table), NEW j \in 1 .. Len(table),
                        table[i] = table[j]
                 PROVE  i = j
      BY DEF Distinct
    <2>1. CASE i <= Len(old) /\ j <= Len(old)
      BY <2>1, <1>1, SMTT(60) DEF Distinct
    <2>2. CASE i > Len(old) /\ j > Len(old)
      <3>1. i - Len(old) = j - Len(old)
        BY <2>2, <1>1, SMTT(60) DEF Distinct
      <3> QED BY <3>1, <1>1, SMTT(60)
    <2> QED BY <2>1, <2>2, <1>1, <1>3, <1>4, SMTT(60)
  <1> QED BY <1>1, <1>2, <1>4, <1>5, <1>6 DEF Appended

\* A call of allocate_slots that schedules n tokens of r from token start on,
\* with its effect on the pool.
Allocation(r, hits, new, n, start, end, old, table) ==
  /\ StartsFrom(r, hits, start, old)
  /\ end = start + n
  /\ table = old \o new
  /\ end <= num_tokens[r]
  /\ Len(old) + Len(new) = NumBlocks(end)
  /\ Elems(new) \subseteq free /\ Distinct(new)
  /\ Elems(new) \cap Elems(hits) = {}
  /\ AllocateSlots(r, hits, new, n)

\* allocate_slots extends the table of r by cache hits or by new blocks.
LEMMA AllocateSlotsIInv ==
  ASSUME IInv, NEW r \in Req, NEW hits \in Seq(Block), NEW new \in Seq(Block),
         NEW n \in Nat, NEW start, NEW end, NEW old, NEW table,
         Allocation(r, hits, new, n, start, end, old, table)
  PROVE  IInv'
  <1> DEFINE ns    == NumFull(start)
             ne    == NumFull(end)
             index(b) == CHOOSE i \in 1 .. Len(table) : table[i] = b
             cached(b) == \E i \in ns + 1 .. ne : table[i] = b
             written(b) == \E i \in ns + 1 .. Len(table) : table[i] = b
             fresh == Elems(hits) \cup Elems(new)
  <1>0. /\ StartsFrom(r, hits, start, old)
        /\ end = start + n
        /\ table = old \o new
        /\ end <= num_tokens[r]
        /\ Len(old) + Len(new) = NumBlocks(end)
        /\ Elems(new) \subseteq free /\ Distinct(new)
        /\ Elems(new) \cap Elems(hits) = {}
        /\ AllocateSlots(r, hits, new, n)
    BY DEF Allocation
  <1>1. /\ start \in Nat /\ old \in Seq(Block)
        /\ Len(old) = NumBlocks(start)
        /\ num_cached_block[r] + Len(hits) = ns
        /\ Distinct(old)
        /\ Elems(old) = Elems(req_to_blocks[r]) \cup Elems(hits)
        /\ \A i \in 1 .. ns : data[old[i]] = HashAt[r][i]
        /\ \A i \in ns + 1 .. Len(old) :
              /\ \A q \in Req \ {r} : old[i] \notin Elems(req_to_blocks[q])
              /\ block_hash[old[i]] = None
    <2>1. StartBlocksOK(r, hits, start, old)  BY <1>0, StartBlocks
    <2> QED BY <2>1 DEF StartBlocksOK
  <1>2. end \in Nat /\ start <= end /\ end <= num_tokens[r]
        /\ num_tokens[r] \in 1 .. MaxNumTokens /\ MaxNumTokens \in Nat
    <2>1. num_tokens[r] \in 1 .. MaxNumTokens /\ MaxNumTokens \in Nat
      BY CacheAssumption DEF IInv, TypeOK
    <2>2. end = start + n /\ end <= num_tokens[r]  BY <1>0
    <2> QED BY <2>1, <2>2, <1>1, SMTT(60)
  <1>3. /\ ns \in Nat /\ ne \in Nat /\ ns <= ne /\ ne <= end
        /\ ns <= Len(old) /\ ne <= NumBlocks(end)
    BY <1>1, <1>2, NumFullBounds, NumFullMonotone, NumFullAtMost, NumBlocksBounds
  <1>5. Elems(old) \cap Elems(new) = {}
    <2>1. \A b \in free : b \notin Elems(req_to_blocks[r])
      BY DEF IInv, RefCountsExact, Holders
    <2> QED BY <2>1, <1>1 DEF Allocation
  <1>4. /\ table \in Seq(Block) /\ Len(table) = Len(old) + Len(new)
        /\ \A i \in 1 .. Len(old) : table[i] = old[i]
        /\ \A i \in Len(old) + 1 .. Len(table) : table[i] \in Elems(new)
        /\ \A j \in 1 .. Len(new) : table[j + Len(old)] = new[j]
        /\ Elems(table) = Elems(old) \cup Elems(new)
        /\ Distinct(table)
        /\ Len(table) = NumBlocks(end)
    <2>1. Distinct(new) /\ table = old \o new /\ Len(old) + Len(new) = NumBlocks(end)
      BY <1>0
    <2>2. Appended(old, new, table)  BY <2>1, <1>1, <1>5, AppendedTable
    <2> QED BY <2>1, <2>2 DEF Appended
  <1>7. Distinct(table)  BY <1>4
  <1>8. \A i \in 1 .. Len(table) : index(table[i]) = i
    BY <1>7 DEF Distinct
  <1>9. /\ ref_cnt' = [b \in Block |-> IF b \in fresh THEN ref_cnt[b] + 1 ELSE ref_cnt[b]]
        /\ free' = free \ fresh
        /\ block_hash' = [b \in Block |-> IF cached(b) THEN HashAt[r][index(b)]
                                          ELSE IF b \in Elems(new) THEN None
                                          ELSE block_hash[b]]
        /\ hash_map' = [h \in Hash |-> (hash_map[h] \ Elems(new))
                          \cup {b \in Block : cached(b) /\ block_hash'[b] = h}]
        /\ req_to_blocks' = [req_to_blocks EXCEPT ![r] = table]
        /\ num_cached_block' = [num_cached_block EXCEPT ![r] = ne]
        /\ num_computed_tokens' = [num_computed_tokens EXCEPT ![r] = end]
        /\ data' = [b \in Block |-> IF written(b)
                      THEN IF index(b) <= ne THEN HashAt[r][index(b)] ELSE None
                      ELSE data[b]]
        /\ num_tokens' = num_tokens
    <2>1. Least(end, num_tokens[r]) = end  BY <1>2 DEF Least
    <2>2. (IF ns >= ne THEN ns ELSE ne) = ne  BY <1>3, SMTT(60)
    <2>3. num_cached_block[r] + Len(hits) = ns  BY <1>1
    <2>4. /\ table = req_to_blocks[r] \o hits \o new
          /\ start = num_computed_tokens[r] + Len(hits) * BlockSize
          /\ end = start + n
          /\ AllocateSlots(r, hits, new, n)
      BY <1>0 DEF StartsFrom
    <2>5. /\ Least(start + n, num_tokens[r]) = start + n
          /\ NumFull(start + n) = ne
      BY <2>1, <2>4
    <2>6. FillSlots(r, hits, new, table, start, end, ns, ne)
      BY <2>3, <2>4, <2>5 DEF AllocateSlots
    <2> QED BY <2>2, <2>6 DEF FillSlots
  <1> HIDE DEF index
  <1>10. \A i \in 1 .. ns : /\ table[i] \in Block /\ table[i] = old[i]
                            /\ ~cached(table[i]) /\ ~written(table[i])
                            /\ table[i] \notin Elems(new)
    <2> SUFFICES ASSUME NEW i \in 1 .. ns
                 PROVE  /\ table[i] \in Block /\ table[i] = old[i]
                        /\ ~cached(table[i]) /\ ~written(table[i])
                        /\ table[i] \notin Elems(new)
      OBVIOUS
    <2>1. i \in 1 .. Len(old) /\ i \in 1 .. Len(table)  BY <1>1, <1>3, <1>4, SMTT(60)
    <2>2. table[i] \in Block /\ table[i] = old[i] /\ old[i] \in Elems(old)
      BY <2>1, <1>4, SMTT(60) DEF Elems
    <2>3. \A j \in ns + 1 .. Len(table) : table[j] # table[i]
      BY <2>1, <1>3, <1>4, <1>7, SMTT(60) DEF Distinct
    <2> QED BY <2>2, <2>3, <1>3, <1>4, <1>5, SMTT(60)
  <1>11. \A i \in ns + 1 .. Len(table) :
            /\ table[i] \in Block /\ written(table[i])
            /\ \A q \in Req \ {r} : table[i] \notin Elems(req_to_blocks[q])
            /\ table[i] \in Elems(new) \/ block_hash[table[i]] = None
            /\ cached(table[i]) <=> i <= ne
    <2> SUFFICES ASSUME NEW i \in ns + 1 .. Len(table)
                 PROVE  /\ table[i] \in Block /\ written(table[i])
                        /\ \A q \in Req \ {r} : table[i] \notin Elems(req_to_blocks[q])
                        /\ table[i] \in Elems(new) \/ block_hash[table[i]] = None
                        /\ cached(table[i]) <=> i <= ne
      OBVIOUS
    <2>1. table[i] \in Block /\ written(table[i])  BY <1>3, <1>4, SMTT(60)
    <2>2. cached(table[i]) <=> i <= ne
      BY <1>3, <1>4, <1>7, SMTT(60) DEF Distinct
    <2>3. CASE i <= Len(old)
      BY <2>1, <2>2, <2>3, <1>1, <1>3, <1>4, SMTT(60)
    <2>4. CASE i > Len(old)
      <3>1. table[i] \in Elems(new)  BY <2>4, <1>1, <1>3, <1>4, SMTT(60)
      <3>2. \A q \in Req : table[i] \notin Elems(req_to_blocks[q])
        BY <3>1 DEF Allocation, IInv, RefCountsExact, Holders
      <3> QED BY <2>1, <2>2, <3>1, <3>2
    <2> QED BY <2>3, <2>4, <1>1, <1>3, SMTT(60)
  <1>12. \A b \in Block : cached(b) => written(b)
    BY <1>3, <1>4, SMTT(60)
  <1>13. \A i \in 1 .. ne : HashAt[r][i] \in Hash
    <2>1. \A i \in 1 .. ne : i \in 1 .. MaxNumTokens  BY <1>2, <1>3, SMTT(60)
    <2> QED BY <2>1, CacheAssumption
  <1>14. \A i \in 1 .. ne : data'[table[i]] = HashAt[r][i]
    <2> SUFFICES ASSUME NEW i \in 1 .. ne PROVE data'[table[i]] = HashAt[r][i]
      OBVIOUS
    <2>1. i \in 1 .. Len(table) /\ index(table[i]) = i  BY <1>3, <1>4, <1>8, SMTT(60)
    <2>2. CASE i <= ns  BY <2>2, <1>1, <1>9, <1>10, <1>3, SMTT(60)
    <2>3. CASE i > ns
      <3>1. table[i] \in Block /\ written(table[i])  BY <2>1, <2>3, <1>3, <1>11, SMTT(60)
      <3>2. data'[table[i]] = IF index(table[i]) <= ne THEN HashAt[r][index(table[i])] ELSE None
        BY <3>1, <1>9
      <3> QED BY <3>2, <2>1, SMTT(60)
    <2> QED BY <2>2, <2>3, <1>3, SMTT(60)
  <1>15. \A i \in ns + 1 .. ne : block_hash'[table[i]] = HashAt[r][i]
    <2> SUFFICES ASSUME NEW i \in ns + 1 .. ne
                 PROVE  block_hash'[table[i]] = HashAt[r][i]
      OBVIOUS
    <2>1. i \in 1 .. Len(table) /\ i \in ns + 1 .. Len(table) /\ index(table[i]) = i
      BY <1>3, <1>4, <1>8, SMTT(60)
    <2>2. table[i] \in Block /\ cached(table[i])  BY <2>1, <1>11
    <2>3. block_hash'[table[i]] = HashAt[r][index(table[i])]  BY <2>2, <1>9
    <2> QED BY <2>1, <2>3
  <1>16. \A i \in ne + 1 .. Len(table) : block_hash'[table[i]] = None
    <2> SUFFICES ASSUME NEW i \in ne + 1 .. Len(table)
                 PROVE  block_hash'[table[i]] = None
      OBVIOUS
    <2>1. i \in ns + 1 .. Len(table) /\ ~(i <= ne)  BY <1>3, <1>4, SMTT(60)
    <2>2. table[i] \in Block /\ ~cached(table[i])
          /\ (table[i] \in Elems(new) \/ block_hash[table[i]] = None)
      BY <2>1, <1>11
    <2> QED BY <2>2, <1>9
  <1>17. \A b \in Block : ~written(b) =>
            /\ data'[b] = data[b]
            /\ block_hash'[b] = block_hash[b] /\ b \notin Elems(new)
    <2> SUFFICES ASSUME NEW b \in Block, ~written(b)
                 PROVE  /\ data'[b] = data[b]
                        /\ block_hash'[b] = block_hash[b] /\ b \notin Elems(new)
      OBVIOUS
    <2>1. b \notin Elems(new)
      <3>1. \A j \in 1 .. Len(new) : j + Len(old) \in ns + 1 .. Len(table)
                                     /\ table[j + Len(old)] = new[j]
        BY <1>1, <1>3, <1>4, SMTT(60)
      <3> QED BY <3>1 DEF Elems
    <2>2. ~cached(b)  BY <1>12
    <2> QED BY <2>1, <2>2, <1>9
  <1>18. TypeOK'
    <2>1. block_hash' \in [Block -> Hash \cup {None}]
      <3>1. \A b \in Block : cached(b) => HashAt[r][index(b)] \in Hash
        BY <1>3, <1>4, <1>8, <1>13, SMTT(60)
      <3> QED BY <3>1, <1>9 DEF IInv, TypeOK
    <2>2. data' \in [Block -> Hash \cup {None}]
      <3>1. \A b \in Block : written(b) /\ index(b) <= ne => HashAt[r][index(b)] \in Hash
        BY <1>3, <1>4, <1>8, <1>13, SMTT(60)
      <3> QED BY <3>1, <1>9 DEF IInv, TypeOK
    <2>3. hash_map' \in [Hash -> SUBSET Block]  BY <1>9 DEF IInv, TypeOK
    <2>4. ref_cnt' \in [Block -> Nat]  BY <1>9, SMTT(60) DEF IInv, TypeOK
    <2> QED BY <2>1, <2>2, <2>3, <2>4, <1>2, <1>3, <1>4, <1>9 DEF IInv, TypeOK
  <1>19. RefCountsExact'
    <2>1. \A b \in Block : Holders(b)' = IF b \in fresh THEN Holders(b) \cup {r}
                                         ELSE Holders(b)
      <3>1. Elems(table) = Elems(req_to_blocks[r]) \cup fresh  BY <1>1, <1>4
      <3>2. req_to_blocks' = [req_to_blocks EXCEPT ![r] = table]
            /\ req_to_blocks \in [Req -> Seq(Block)]
        BY <1>9 DEF IInv, TypeOK
      <3>3. \A q \in Req : Elems(req_to_blocks'[q]) =
                 IF q = r THEN Elems(req_to_blocks[r]) \cup fresh
                          ELSE Elems(req_to_blocks[q])
        BY <3>1, <3>2
      <3>4. \A b : Holders(b)' = {q \in Req : b \in Elems(req_to_blocks'[q])}
        BY DEF Holders, Elems
      <3> QED BY <3>3, <3>4 DEF Holders
    <2>2. fresh \subseteq Block  BY ElemsInBlock
    <2>3. \A b \in fresh : r \notin Holders(b)
      <3>1. \A b \in Elems(new) : r \notin Holders(b)
        BY <1>0 DEF IInv, RefCountsExact
      <3>2. \A b \in Elems(hits) : r \notin Holders(b)
        BY <1>0, SMTT(60) DEF StartsFrom, Holders, Elems
      <3> QED BY <3>1, <3>2
    <2>4. \A b \in Block : IsFiniteSet(Holders(b)) /\ Cardinality(Holders(b)) \in Nat
      BY CacheAssumption, FS_Subset, FS_CardinalityType DEF Holders
    <2>5. \A b \in fresh : Cardinality(Holders(b)') = Cardinality(Holders(b)) + 1
      BY <2>1, <2>2, <2>3, <2>4, FS_AddElement
    <2>6. \A b \in Block : ref_cnt'[b] = Cardinality(Holders(b)')
      BY <2>1, <2>5, <1>9 DEF IInv, RefCountsExact
    <2>7. free' = {b \in Block : Holders(b)' = {}}
      BY <2>1, <1>9 DEF IInv, RefCountsExact
    <2> QED BY <2>6, <2>7 DEF RefCountsExact
  <1>20. TableShape'
    <2> SUFFICES ASSUME NEW q \in Req
                 PROVE  /\ num_computed_tokens'[q] <= num_tokens'[q]
                        /\ Len(req_to_blocks'[q]) = NumBlocks(num_computed_tokens'[q])
                        /\ num_cached_block'[q] = NumFull(num_computed_tokens'[q])
                        /\ Distinct(req_to_blocks'[q])
      BY DEF TableShape, NumBlocks, NumFull, Distinct
    <2>1. CASE q = r
      BY <2>1, <1>2, <1>4, <1>9 DEF IInv, TypeOK
    <2>2. CASE q # r
      BY <2>2, <1>9 DEF IInv, TypeOK, TableShape
    <2> QED BY <2>1, <2>2
  <1>21. HashIndex'
    <2>1. \A i \in ns + 1 .. ne : data'[table[i]] = HashAt[r][i]  BY <1>3, <1>14, SMTT(60)
    <2>2. ASSUME NEW b \in Block, block_hash'[b] # None
          PROVE  data'[b] = block_hash'[b]
      <3>1. CASE written(b)
        <4>1. PICK i \in ns + 1 .. Len(table) : table[i] = b  BY <3>1
        <4>2. ~(i \in ne + 1 .. Len(table))  BY <4>1, <2>2, <1>16
        <4>3. i \in ns + 1 .. ne  BY <4>2, <1>3, <1>4, SMTT(60)
        <4> QED BY <4>1, <4>3, <2>1, <1>15
      <3>2. CASE ~written(b)
        BY <3>2, <2>2, <1>17 DEF IInv, HashIndex
      <3> QED BY <3>1, <3>2
    <2>3. ASSUME NEW h \in Hash, NEW b \in Block
          PROVE  b \in hash_map'[h] <=> block_hash'[b] = h
      <3>1. b \in hash_map'[h] <=> \/ b \in hash_map[h] /\ b \notin Elems(new)
                                   \/ cached(b) /\ block_hash'[b] = h
        BY <1>9
      <3>2. b \in hash_map[h] <=> block_hash[b] = h  BY DEF IInv, HashIndex
      <3>3. h # None  BY CacheAssumption
      <3>4. CASE cached(b)
        <4>1. b \in Elems(new) \/ block_hash[b] = None
          <5>1. PICK i \in ns + 1 .. ne : table[i] = b  BY <3>4
          <5>2. Len(table) \in Nat /\ ne <= Len(table)  BY <1>3, <1>4, SMTT(60)
          <5>3. i \in ns + 1 .. Len(table)  BY <5>1, <5>2, <1>3, SMTT(60)
          <5> QED BY <5>1, <5>3, <1>11
        <4> QED BY <3>1, <3>2, <3>3, <3>4, <4>1
      <3>5. CASE ~cached(b)
        BY <3>1, <3>2, <3>3, <3>5, <1>9
      <3> QED BY <3>4, <3>5
    <2>4. \A h \in Hash : hash_map'[h] \subseteq Block  BY <1>18 DEF TypeOK
    <2> QED BY <2>2, <2>3, <2>4 DEF HashIndex
  <1>22. TablesHoldOwnPrefix'
    <2> SUFFICES ASSUME NEW q \in Req,
                        NEW i \in 1 .. NumFull(num_computed_tokens'[q])
                 PROVE  data'[req_to_blocks'[q][i]] = HashAt[q][i]
      BY DEF TablesHoldOwnPrefix, NumFull
    <2>1. CASE q = r
      BY <2>1, <1>9, <1>14 DEF IInv, TypeOK
    <2>2. CASE q # r
      <3>1. req_to_blocks'[q] = req_to_blocks[q]
            /\ num_computed_tokens'[q] = num_computed_tokens[q]
            /\ num_computed_tokens[q] \in Nat
            /\ Len(req_to_blocks[q]) = NumBlocks(num_computed_tokens[q])
            /\ req_to_blocks[q] \in Seq(Block)
        BY <2>2, <1>9 DEF IInv, TypeOK, TableShape
      <3>2. i \in 1 .. Len(req_to_blocks[q])
        <4> DEFINE c == num_computed_tokens[q]
        <4>1. /\ NumFull(c) \in Nat /\ NumBlocks(c) \in Nat
              /\ NumFull(c) <= NumBlocks(c)
          BY <3>1, NumBlocksBounds, NumFullBounds
        <4>2. i \in 1 .. NumFull(c) /\ Len(req_to_blocks[q]) = NumBlocks(c)  BY <3>1
        <4> QED BY <4>1, <4>2, SMTT(60)
      <3>3. req_to_blocks[q][i] \in Elems(req_to_blocks[q])
            /\ req_to_blocks[q][i] \in Block
        BY <3>1, <3>2, SMTT(60) DEF Elems
      <3>4. ~written(req_to_blocks[q][i])  BY <3>3, <2>2, <1>11
      <3> QED BY <3>1, <3>3, <3>4, <1>17 DEF IInv, TablesHoldOwnPrefix
    <2> QED BY <2>1, <2>2
  <1>23. WriteTargetPrivate'
    <2> SUFFICES ASSUME NEW q \in Req,
                        NEW i \in NumFull(num_computed_tokens'[q]) + 1 .. Len(req_to_blocks'[q])
                 PROVE  /\ \A p \in Req \ {q} : req_to_blocks'[q][i] \notin Elems(req_to_blocks'[p])
                        /\ block_hash'[req_to_blocks'[q][i]] = None
      BY DEF WriteTargetPrivate, Elems, NumFull
    <2>0. req_to_blocks' = [req_to_blocks EXCEPT ![r] = table]
          /\ num_computed_tokens' = [num_computed_tokens EXCEPT ![r] = end]
          /\ req_to_blocks \in [Req -> Seq(Block)] /\ num_computed_tokens \in [Req -> Nat]
      BY <1>9 DEF IInv, TypeOK
    <2>1. CASE q = r
      <3>1. i \in ne + 1 .. Len(table) /\ i \in ns + 1 .. Len(table)
            /\ req_to_blocks'[q] = table
        BY <2>0, <2>1, <1>3, <1>4, SMTT(60)
      <3>2. \A p \in Req \ {q} : req_to_blocks'[p] = req_to_blocks[p]
        BY <2>0, <2>1
      <3> QED BY <3>1, <3>2, <2>1, <1>11, <1>16
    <2>2. CASE q # r
      <3>1. /\ req_to_blocks'[q] = req_to_blocks[q]
            /\ num_computed_tokens'[q] = num_computed_tokens[q]
            /\ NumFull(num_computed_tokens[q]) \in Nat
        BY <2>0, <2>2, NumFullBounds
      <3> DEFINE c == req_to_blocks[q][i]
      <3>2. c \in Block /\ c \in Elems(req_to_blocks[q])
        BY <2>0, <3>1, SMTT(60) DEF Elems
      <3>3. /\ \A p \in Req \ {q} : c \notin Elems(req_to_blocks[p])
            /\ block_hash[c] = None
        BY <3>1 DEF IInv, WriteTargetPrivate
      <3>4. ~written(c)  BY <3>2, <2>2, <1>11
      <3>5. block_hash'[c] = None /\ c \notin Elems(new)  BY <3>2, <3>3, <3>4, <1>17
      <3>6. c \notin Elems(hits)
        <4>1. ASSUME NEW k \in 1 .. Len(hits) PROVE hits[k] # c
          <5>1. hits[k] \in hash_map[HashAt[r][k]] /\ k \in 1 .. MaxNumTokens
            BY <1>0, CacheAssumption, SMTT(60) DEF StartsFrom
          <5>2. HashAt[r][k] \in Hash /\ HashAt[r][k] # None
            BY <5>1, CacheAssumption, SMTT(60)
          <5> QED BY <5>1, <5>2, <3>3 DEF IInv, HashIndex
        <4> QED BY <4>1 DEF Elems
      <3>7. c \notin Elems(table)  BY <3>3, <3>5, <3>6, <2>2, <1>1, <1>4
      <3>8. \A p \in Req : req_to_blocks'[p] = IF p = r THEN table ELSE req_to_blocks[p]
        BY <2>0
      <3> QED BY <3>1, <3>3, <3>5, <3>7, <3>8
    <2> QED BY <2>1, <2>2
  <1> QED BY <1>18, <1>19, <1>20, <1>21, <1>22, <1>23 DEF IInv

\* A waiting request admitted with its longest cache hit.
LEMMA AdmitIInv ==
  ASSUME IInv, NEW r \in Req, NEW n \in 1 .. MaxNumTokens, Admit(r, n)
  PROVE  IInv'
  <1>1. /\ req_to_blocks[r] = <<>> /\ num_computed_tokens[r] = 0
        /\ num_tokens[r] \in 1 .. MaxNumTokens /\ MaxNumTokens \in Nat
    <2>1. /\ req_to_blocks[r] = <<>> /\ num_computed_tokens[r] \in Nat
          /\ Len(req_to_blocks[r]) = NumBlocks(num_computed_tokens[r])
      BY DEF Admit, IInv, TypeOK, TableShape
    <2>2. NumBlocks(num_computed_tokens[r]) = 0  BY <2>1
    <2> QED BY <2>1, <2>2, NumBlocksZero, CacheAssumption DEF IInv, TypeOK
  <1>2. MaxHitBlocks(r) \in Nat /\ MaxHitBlocks(r) <= MaxNumTokens
    <2>1. num_tokens[r] - 1 \in Nat  BY <1>1, SMTT(60)
    <2>2. NumFull(num_tokens[r] - 1) \in Nat
          /\ NumFull(num_tokens[r] - 1) <= num_tokens[r] - 1
      BY <2>1, NumFullBounds, NumFullAtMost
    <2> QED BY <1>1, <2>2, SMTT(60) DEF MaxHitBlocks
  <1>3. PICK m \in 0 .. MaxHitBlocks(r) :
          \E hits \in [1 .. m -> Block] :
            LET k == NumBlocks(Len(hits) * BlockSize + n) - Len(hits) IN
            /\ LongestHit(r, hits)
            /\ Len(hits) * BlockSize + n <= num_tokens[r]
            /\ CanAllocate(hits, k)
            /\ \E new \in NewBlocks(k) :
                 Elems(new) \cap Elems(hits) = {} /\ AllocateSlots(r, hits, new, n)
    BY DEF Admit
  <1>4. PICK hits \in [1 .. m -> Block] :
            /\ LongestHit(r, hits)
            /\ Len(hits) * BlockSize + n <= num_tokens[r]
            /\ \E new \in NewBlocks(NumBlocks(Len(hits) * BlockSize + n) - Len(hits)) :
                 Elems(new) \cap Elems(hits) = {} /\ AllocateSlots(r, hits, new, n)
    BY <1>3
  <1>5. m \in Nat /\ m <= MaxNumTokens  BY <1>1, <1>2, SMTT(60)
  <1>6. hits \in Seq(Block) /\ Len(hits) = m  BY <1>5, SMTT(60)
  <1> DEFINE start == m * BlockSize  end == start + n  k == NumBlocks(end) - m
  <1>7. /\ start \in Nat /\ end \in Nat /\ start <= end /\ n \in Nat
        /\ end <= num_tokens[r] /\ NumBlocks(start) = m
    <2>1. start \in Nat /\ NumBlocks(start) = m  BY <1>5, NumBlocksOfMultiple
    <2>2. end <= num_tokens[r]  BY <1>4, <1>6
    <2> HIDE DEF start
    <2> QED BY <2>1, <2>2, <1>1, SMTT(60)
  <1>8. k \in Nat /\ NumBlocks(end) = m + k
    <2> HIDE DEF start, end
    <2>1. m <= NumBlocks(end) /\ NumBlocks(end) \in Nat
      BY <1>7, NumBlocksMonotone, NumBlocksBounds
    <2> QED BY <2>1, <1>5, SMTT(60)
  <1>9. PICK new \in NewBlocks(k) :
          Elems(new) \cap Elems(hits) = {} /\ AllocateSlots(r, hits, new, n)
    BY <1>4, <1>6
  <1>10. /\ new \in Seq(Block) /\ Len(new) = k
         /\ Elems(new) \subseteq free /\ Distinct(new)
    <2>1. new \in [1 .. k -> free] /\ Distinct(new)  BY <1>9 DEF NewBlocks
    <2>2. free \subseteq Block  BY DEF IInv, TypeOK
    <2>3. new \in Seq(free) /\ Len(new) = k  BY <2>1, <1>8, SMTT(60)
    <2>4. new \in Seq(Block)  BY <2>2, <2>3, SMTT(60)
    <2> QED BY <2>1, <2>3, <2>4 DEF Elems
  <1> DEFINE old == req_to_blocks[r] \o hits
  <1>11. old \in Seq(Block) /\ Len(old) = m  BY <1>1, <1>6, SMTT(60)
  <1>12. StartsFrom(r, hits, start, old)
    <2>1. start = num_computed_tokens[r] + Len(hits) * BlockSize
      BY <1>1, <1>6, <1>7, SMTT(60)
    <2>2. \A i \in 1 .. Len(hits) : hits[i] \in hash_map[HashAt[r][i]]
      BY <1>4 DEF LongestHit
    <2> QED BY <2>1, <2>2, <1>1, <1>5, <1>6 DEF StartsFrom
  <1>13. Allocation(r, hits, new, n, start, end, old, old \o new)
    BY <1>7, <1>8, <1>9, <1>10, <1>11, <1>12 DEF Allocation
  <1> HIDE DEF start, end, old
  <1> QED BY <1>6, <1>7, <1>10, <1>13, AllocateSlotsIInv

\* A running request given slots for its next tokens.
LEMMA ContinueIInv ==
  ASSUME IInv, NEW r \in Req, NEW n \in 1 .. MaxNumTokens, Continue(r, n)
  PROVE  IInv'
  <1> DEFINE start == num_computed_tokens[r]  end == start + n
             old == req_to_blocks[r]  k == NumBlocks(end) - Len(old)
  <1>1. /\ start \in Nat /\ old \in Seq(Block) /\ Len(old) = NumBlocks(start)
        /\ n \in Nat /\ MaxNumTokens \in Nat /\ end <= num_tokens[r]
    BY CacheAssumption, SMTT(60) DEF IInv, TypeOK, TableShape, Continue
  <1>2. PICK new \in NewBlocks(k) : AllocateSlots(r, <<>>, new, n)
    BY DEF Continue
  <1>3. k \in Nat /\ NumBlocks(end) = Len(old) + k
    <2>1. end \in Nat /\ start <= end  BY <1>1, SMTT(60)
    <2>2. NumBlocks(start) <= NumBlocks(end) /\ NumBlocks(end) \in Nat
      BY <2>1, <1>1, NumBlocksMonotone, NumBlocksBounds
    <2> QED BY <2>2, <1>1, SMTT(60)
  <1>4. /\ new \in Seq(Block) /\ Len(new) = k
        /\ Elems(new) \subseteq free /\ Distinct(new)
    <2>1. new \in [1 .. k -> free] /\ Distinct(new)  BY <1>2 DEF NewBlocks
    <2>2. free \subseteq Block  BY DEF IInv, TypeOK
    <2>3. new \in Seq(free) /\ Len(new) = k  BY <2>1, <1>3, SMTT(60)
    <2>4. new \in Seq(Block)  BY <2>2, <2>3, SMTT(60)
    <2> QED BY <2>1, <2>3, <2>4 DEF Elems
  <1>5. StartsFrom(r, <<>>, start, old)
    <2>1. Len(<<>>) = 0 /\ 0 * BlockSize = 0  BY BlockSizePositive, SMTT(60)
    <2>2. start = num_computed_tokens[r] + Len(<<>>) * BlockSize
      BY <2>1, <1>1, SMTT(60)
    <2> QED BY <2>1, <2>2, <1>1, SMTT(60) DEF StartsFrom
  <1>6. Elems(new) \cap Elems(<<>>) = {} /\ <<>> \in Seq(Block)  BY SMTT(60) DEF Elems
  <1>7. Allocation(r, <<>>, new, n, start, end, old, old \o new)
    BY <1>1, <1>2, <1>3, <1>4, <1>5, <1>6 DEF Allocation
  <1> HIDE DEF start, end, old
  <1> QED BY <1>1, <1>4, <1>6, <1>7, AllocateSlotsIInv

\* The invariant is inductive: no operation of the cache breaks it.
LEMMA NextIInv == IInv /\ [Next]_vars => IInv'
  <1> SUFFICES ASSUME IInv, [Next]_vars PROVE IInv'  OBVIOUS
  <1>1. CASE \E r \in Req, n \in 1 .. MaxNumTokens : Admit(r, n)
    BY <1>1, AdmitIInv
  <1>2. CASE \E r \in Req, n \in 1 .. MaxNumTokens : Continue(r, n)
    BY <1>2, ContinueIInv
  <1>3. CASE \E r \in Req : AppendToken(r)
    BY <1>3, AppendTokenIInv
  <1>4. ASSUME NEW r \in Req, Preempt(r) PROVE IInv'
    <2>1. FreeTable(r) /\ num_tokens' = num_tokens  BY <1>4 DEF Preempt
    <2>2. num_tokens \in [Req -> 1 .. MaxNumTokens]  BY DEF IInv, TypeOK
    <2> QED BY <2>1, <2>2, FreeTableIInv
  <1>5. ASSUME NEW r \in Req, Finish(r) PROVE IInv'
    <2>1. FreeTable(r) /\ num_tokens' = [num_tokens EXCEPT ![r] = NumPrompt[r]]
      BY <1>5 DEF Finish
    <2>2. num_tokens \in [Req -> 1 .. MaxNumTokens]  BY DEF IInv, TypeOK
    <2>3. num_tokens' \in [Req -> 1 .. MaxNumTokens]
          /\ \A q \in Req \ {r} : num_tokens'[q] = num_tokens[q]
      BY <2>1, <2>2, CacheAssumption
    <2> QED BY <2>1, <2>3, FreeTableIInv
  <1>6. CASE \E S \in SUBSET Block : EvictBlocks(S)
    BY <1>6, EvictBlocksIInv
  <1>7. CASE ResetPrefixCache  BY <1>7, ResetPrefixCacheIInv
  <1>8. CASE UNCHANGED vars
    <2> USE <1>8 DEF vars, pool, IInv
    <2>1. TypeOK'  BY DEF TypeOK
    <2>2. RefCountsExact'
      <3>1. \A b \in Block : Holders(b)' = Holders(b)  BY DEF Holders
      <3> QED BY <3>1 DEF RefCountsExact
    <2>3. TableShape'  BY DEF TableShape
    <2>4. HashIndex'  BY DEF HashIndex
    <2>5. TablesHoldOwnPrefix'  BY DEF TablesHoldOwnPrefix
    <2>6. WriteTargetPrivate'  BY DEF WriteTargetPrivate
    <2> QED BY <2>1, <2>2, <2>3, <2>4, <2>5, <2>6
  <1> QED BY <1>1, <1>2, <1>3, <1>4, <1>5, <1>6, <1>7, <1>8 DEF Next

\* The inductive invariant holds in every reachable state.
LEMMA AlwaysIInv == Spec => []IInv
  BY InitIInv, NextIInv, PTL DEF Spec

\* The variables of the cache keep their types, for any pool, any block size
\* and any set of requests.
THEOREM TypeCorrect == Spec => []TypeOK
  <1>1. IInv => TypeOK  BY DEF IInv
  <1> QED BY <1>1, AlwaysIInv, PTL

\* Reference counts are exact and the free list is the set of blocks that no
\* request holds: touch, get_new_blocks and free_blocks never lose a block or
\* hand one out twice.
THEOREM ReferencesExact == Spec => []RefCountsExact
  <1>1. IInv => RefCountsExact  BY DEF IInv
  <1> QED BY <1>1, AlwaysIInv, PTL

\* A prefix-cache hit always yields the prefix that was looked up.
THEOREM CacheNeverLies == Spec => []CacheEntriesTrue
  BY IInvCacheEntriesTrue, AlwaysIInv, PTL

\* Every request computes from its own prefix, whatever was shared, evicted or
\* preempted before.
THEOREM OwnPrefixOnly == Spec => []TablesHoldOwnPrefix
  <1>1. IInv => TablesHoldOwnPrefix  BY DEF IInv
  <1> QED BY <1>1, AlwaysIInv, PTL

\* No step writes to a block that another request or the prefix cache can see.
THEOREM WritesPrivate == Spec => []WriteTargetPrivate
  <1>1. IInv => WriteTargetPrivate  BY DEF IInv
  <1> QED BY <1>1, AlwaysIInv, PTL
=============================================================================
