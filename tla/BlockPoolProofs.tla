-------------------------- MODULE BlockPoolProofs --------------------------
(***************************************************************************)
(* The block pool for every number of blocks, clients and hashes: the      *)
(* free list, the reference counts, the two indexes of the prefix cache    *)
(* and the published events stay consistent, and the linked list           *)
(* implements FreeBlockOrder.                                              *)
(***************************************************************************)
EXTENDS FreeListProofs

\* The leaves that name no prover are for the SMT solver.
USE SMTT(30)

Types ==
  /\ pool \in Record
  /\ watchers \subseteq Block
  /\ held \in [Client -> SUBSET Block]
  /\ repeated \in [Hash -> 0 .. MaxReports]

\* The free list is well linked and has the blocks without a reference.
Listed(q, p) == \E s : Linked(q, s) /\ Range(s) = Unused(p.ref)

PoolInv ==
  /\ Types
  /\ Listed(queue, pool)
  /\ RefsCounted(pool.ref, held)
  /\ IndexesAgree(pool)
  /\ EventsMirror(pool, published, repeated)
  /\ OnlyWhenCaching(pool)

-----------------------------------------------------------------------------
(* __init__ establishes the invariant.                                     *)
LEMMA PoolInit ==
  ASSUME FiniteFacts, QueueAssumption, PoolAssumption, Init
  PROVE  PoolInv
<1>1. PICK s \in Orderings(Block) : queue = NewQueue(s)
  BY DEF Init, QInit
<1>2. Linked(queue, s)
  BY <1>1, NewQueueLinked
<1>3. Range(s) = Block
  BY <1>1, OrderingFacts
<1>4. /\ pool.ref = [b \in Block |-> 0] /\ pool.hash = [b \in Block |-> None]
      /\ pool.more = [b \in Block |-> {}] /\ pool.map = [h \in Hash |-> {}]
      /\ pool = [ref |-> pool.ref, hash |-> pool.hash, more |-> pool.more, map |-> pool.map]
      /\ watchers = {} /\ published = [h \in Hash |-> 0] /\ held = [c \in Client |-> {}]
      /\ repeated = [h \in Hash |-> 0]
  BY DEF Init
<1>5. Listed(queue, pool)
  <2>1. Unused(pool.ref) = Block
    BY <1>4 DEF Unused
  <2> QED BY <1>2, <1>3, <2>1 DEF Listed
<1>6. Types
  <2>1. pool.ref \in [Block -> Nat] /\ pool.hash \in [Block -> Hash \cup {None}]
        /\ pool.more \in [Block -> SUBSET Hash] /\ pool.map \in [Hash -> SUBSET Block]
    BY <1>4
  <2>2. repeated \in [Hash -> 0 .. MaxReports]
    BY <1>4 DEF PoolAssumption
  <2> QED BY <1>4, <2>1, <2>2 DEF Types, Record
<1>7. RefsCounted(pool.ref, held)
  <2>1. \A b \in Block : Holders(held, b) = {}
    BY <1>4 DEF Holders
  <2> QED BY <1>4, <2>1, EmptyCount, Zenon DEF RefsCounted
<1>8. IndexesAgree(pool)
  BY <1>4 DEF IndexesAgree, HashesOf
<1>9. EventsMirror(pool, published, repeated) /\ OnlyWhenCaching(pool)
  BY <1>4, EmptyCount DEF EventsMirror, OnlyWhenCaching
<1> QED BY <1>5, <1>6, <1>7, <1>8, <1>9 DEF PoolInv

(* The repeated events are counted in natural numbers.                     *)
LEMMA RepeatedNat ==
  ASSUME PoolAssumption, PoolInv
  PROVE  repeated \in [Hash -> Nat]
<1>1. repeated \in [Hash -> 0 .. MaxReports] /\ MaxReports \in Nat
  BY DEF PoolInv, Types, PoolAssumption
<1> QED BY <1>1

(* get_new_blocks keeps the invariant.                                     *)
LEMMA GetNewKeeps ==
  ASSUME FiniteFacts, QueueAssumption, PoolAssumption, PoolInv,
         NEW c \in Client, NEW n \in 1 .. queue.num, GetNewBlocks(c, n)
  PROVE  PoolInv'
<1> DEFINE ret == Range(Walk(queue, n))
           evicted == IF EnableCaching THEN DropHashes(pool, ret) ELSE pool
<1>1. PICK s : Linked(queue, s) /\ Range(s) = Unused(pool.ref)
  BY DEF PoolInv, Listed
<1>2. /\ queue' = PopleftN(queue, n) /\ watchers' = watchers \ ret
      /\ pool' = [evicted EXCEPT !.ref = Counted(pool.ref, ret, 1)]
      /\ held' = [held EXCEPT ![c] = @ \cup ret] /\ repeated' = repeated
  BY DEF GetNewBlocks
<1>3. published' = IF EnableCaching
                   THEN [h \in Hash |-> published[h] - Cardinality({b \in ret : h \in DroppedBy(pool, b)})]
                   ELSE published
  BY Zenon DEF GetNewBlocks
<1>4. /\ Linked(queue', SubSeq(s, n + 1, Len(s))) /\ ret \subseteq Range(s)
      /\ Range(SubSeq(s, n + 1, Len(s))) = Range(s) \ ret
  BY <1>1, <1>2, GetNewList
<1> HIDE DEF ret
<1>5. /\ pool \in Record /\ held \in [Client -> SUBSET Block] /\ RefsCounted(pool.ref, held)
      /\ IndexesAgree(pool) /\ EventsMirror(pool, published, repeated) /\ OnlyWhenCaching(pool)
      /\ watchers \subseteq Block
  BY DEF PoolInv, Types
<1>6. ret \in SUBSET Block /\ ret \cap held[c] = {}
  <2>1. ret \subseteq Unused(pool.ref)
    BY <1>1, <1>4
  <2>2. ASSUME NEW b \in ret PROVE b \notin held[c]
    <3>1. b \in Block /\ pool.ref[b] = 0
      BY <2>1 DEF Unused
    <3>2. Cardinality(Holders(held, b)) = 0 /\ IsFiniteSet(Holders(held, b))
      BY <1>5, <3>1, Finite DEF RefsCounted, Holders
    <3>3. Holders(held, b) = {}
      BY <3>2, EmptyCount
    <3> QED BY <3>3 DEF Holders
  <2> QED BY <2>1, <2>2 DEF Unused
<1>7. /\ evicted \in Record /\ IndexesAgree(evicted)
      /\ \A h \in Hash : evicted.map[h] \subseteq pool.map[h]
  BY <1>5, <1>6, DropFacts
<1>8. EventsMirror(evicted, published', repeated')
  <2>1. CASE EnableCaching
    <3>1. repeated \in [Hash -> Nat]
      BY RepeatedNat
    <3> QED BY <1>2, <1>3, <1>5, <1>6, <2>1, <3>1, DropMirrored
  <2>2. CASE ~EnableCaching
    BY <1>2, <1>3, <1>5, <2>2
  <2> QED BY <2>1, <2>2
<1> HIDE DEF evicted
<1> DEFINE ref == Counted(pool.ref, ret, 1)
<1>9. pool'.ref = ref /\ pool'.map = evicted.map /\ pool'.hash = evicted.hash
      /\ pool'.more = evicted.more
      /\ pool' = [ref |-> ref, hash |-> evicted.hash, more |-> evicted.more, map |-> evicted.map]
  <2>1. evicted = [ref |-> evicted.ref, hash |-> evicted.hash, more |-> evicted.more,
                   map |-> evicted.map]
    BY <1>7 DEF Record
  <2> HIDE DEF ref
  <2>2. pool' = [evicted EXCEPT !.ref = ref]
    BY <1>2 DEF ref
  <2> QED BY <2>1, <2>2
<1>10. /\ RefsCounted(pool'.ref, held') /\ held' \in [Client -> SUBSET Block]
       /\ pool'.ref \in [Block -> Nat] /\ Unused(pool'.ref) = Unused(pool.ref) \ ret
  <2>1. pool.ref \in [Block -> Nat]
    BY <1>5 DEF Record
  <2>2. held \in [Client -> SUBSET Block] /\ RefsCounted(pool.ref, held)
    BY <1>5
  <2>3. held' = Taking(held, c, ret) /\ pool'.ref = Counted(pool.ref, ret, 1)
    BY <1>2, <1>9 DEF Taking
  <2> HIDE DEF ref
  <2>4. /\ RefsCounted(Counted(pool.ref, ret, 1), Taking(held, c, ret))
        /\ Taking(held, c, ret) \in [Client -> SUBSET Block]
        /\ Counted(pool.ref, ret, 1) \in [Block -> Nat]
    BY <1>6, <2>1, <2>2, TakingCounts, Zenon
  <2>5. Unused(Counted(pool.ref, ret, 1)) = Unused(pool.ref) \ ret
    BY <1>6, <2>1, <2>2, TakingCounts
  <2> QED BY <2>3, <2>4, <2>5, Zenon
<1>11. Types'
  <2>1. pool' \in Record
    BY <1>7, <1>9, <1>10 DEF Record
  <2> QED BY <1>2, <1>5, <1>10, <2>1 DEF PoolInv, Types
<1>12. Listed(queue, pool)'
  BY <1>1, <1>4, <1>10 DEF Listed
<1>13. IndexesAgree(pool')
  BY <1>7, <1>9 DEF IndexesAgree, HashesOf
<1>14. EventsMirror(pool', published', repeated') /\ OnlyWhenCaching(pool')
  BY <1>5, <1>7, <1>8, <1>9 DEF EventsMirror, OnlyWhenCaching
<1> QED BY <1>10, <1>11, <1>12, <1>13, <1>14 DEF PoolInv

(* touch() keeps the invariant.                                            *)
LEMMA TouchKeeps ==
  ASSUME FiniteFacts, QueueAssumption, PoolAssumption, PoolInv,
         NEW c \in Client, NEW t \in SomeOf(Block), Touch(c, t)
  PROVE  PoolInv'
<1> DEFINE U == Unused(pool.ref)
           ref == Counted(pool.ref, Range(t), 1)
<1>1. PICK s : Linked(queue, s) /\ Range(s) = U
  BY DEF PoolInv, Listed
<1>2. t \in Seq(Block) /\ IsInjective(t) /\ Range(t) \in SUBSET Block
  <2>1. Block \in SUBSET Block
    OBVIOUS
  <2> QED BY <2>1, SomeOfFacts
<1>3. /\ pool \in Record /\ held \in [Client -> SUBSET Block] /\ RefsCounted(pool.ref, held)
      /\ IndexesAgree(pool) /\ EventsMirror(pool, published, repeated) /\ OnlyWhenCaching(pool)
      /\ watchers \subseteq Block
  BY DEF PoolInv, Types
<1>4. /\ Range(t) \cap held[c] = {} /\ queue' = RemoveBlocks(queue, Only(t, U))
      /\ pool' = WithRef(pool, ref) /\ held' = Taking(held, c, Range(t))
      /\ watchers' = watchers /\ published' = published /\ repeated' = repeated
  BY DEF Touch, Unused, WithRef, Taking
<1>5. pool.ref \in [Block -> Nat] /\ U \in SUBSET Block
  BY <1>3 DEF Record, Unused
<1>6. Linked(queue', Only(s, Block \ Range(Only(t, U))))
      /\ Range(Only(s, Block \ Range(Only(t, U)))) = U \ Range(t)
  <2> HIDE DEF U
  <2>1. queue' = RemoveBlocks(queue, Only(t, Range(s)))
    BY <1>1, <1>4
  <2>2. Linked(queue', Only(s, Block \ Range(Only(t, Range(s)))))
        /\ Range(Only(s, Block \ Range(Only(t, Range(s))))) = Range(s) \ Range(t)
    BY <1>1, <1>2, <2>1, TouchList
  <2> QED BY <1>1, <2>2
<1>7. /\ RefsCounted(ref, held') /\ held' \in [Client -> SUBSET Block] /\ ref \in [Block -> Nat]
      /\ Unused(ref) = U \ Range(t)
  <2> DEFINE T == Range(t)
  <2>1. T \in SUBSET Block /\ T \cap held[c] = {}
    BY <1>2, <1>4
  <2> HIDE DEF T
  <2>2. held \in [Client -> SUBSET Block] /\ RefsCounted(pool.ref, held)
    BY <1>3
  <2>3. /\ RefsCounted(Counted(pool.ref, T, 1), Taking(held, c, T))
        /\ Taking(held, c, T) \in [Client -> SUBSET Block]
        /\ Counted(pool.ref, T, 1) \in [Block -> Nat]
    BY <1>5, <2>1, <2>2, TakingCounts, Zenon
  <2>4. Unused(Counted(pool.ref, T, 1)) = Unused(pool.ref) \ T
    BY <1>5, <2>1, <2>2, TakingCounts
  <2> QED BY <1>4, <2>3, <2>4 DEF T
<1> HIDE DEF ref, U
<1>9. /\ pool' \in Record /\ pool'.ref = ref /\ IndexesAgree(pool')
      /\ EventsMirror(pool', published', repeated') /\ OnlyWhenCaching(pool')
  BY <1>3, <1>4, <1>7, RefOnly, Zenon
<1>10. Listed(queue', pool')
  BY <1>6, <1>7, <1>9, Zenon DEF Listed
<1> QED BY <1>3, <1>4, <1>7, <1>9, <1>10 DEF PoolInv, Types

(* The blocks that leave their last holder are not in the list.            *)
LEMMA ReleasedFacts ==
  ASSUME FiniteFacts, QueueAssumption, PoolAssumption, PoolInv,
         NEW c \in Client, NEW t \in SomeOf(held[c])
  PROVE  /\ t \in Seq(Block) /\ IsInjective(t) /\ Range(t) \in SUBSET held[c]
         /\ LET ref == Counted(pool.ref, Range(t), -1)
            IN  /\ RefsCounted(ref, Giving(held, c, Range(t)))
                /\ Giving(held, c, Range(t)) \in [Client -> SUBSET Block]
                /\ ref \in [Block -> Nat]
                /\ Unused(ref) = Unused(pool.ref) \cup Released(ref, Range(t))
                /\ Unused(pool.ref) \cap Range(t) = {}
<1>1. /\ pool \in Record /\ held \in [Client -> SUBSET Block] /\ RefsCounted(pool.ref, held)
  BY DEF PoolInv, Types
<1>2. t \in Seq(Block) /\ IsInjective(t) /\ Range(t) \in SUBSET held[c]
  <2>1. held[c] \in SUBSET Block
    BY <1>1
  <2> QED BY <2>1, SomeOfFacts
<1>3. pool.ref \in [Block -> Nat]
  BY <1>1 DEF Record
<1> DEFINE T == Range(t)
<1>4. T \in SUBSET held[c]
  BY <1>2
<1> HIDE DEF T
<1>5. /\ RefsCounted(Counted(pool.ref, T, -1), Giving(held, c, T))
      /\ Giving(held, c, T) \in [Client -> SUBSET Block]
      /\ Counted(pool.ref, T, -1) \in [Block -> Nat]
  BY <1>1, <1>3, <1>4, GivingCounts, Zenon
<1>6. /\ Unused(Counted(pool.ref, T, -1)) =
           Unused(pool.ref) \cup Released(Counted(pool.ref, T, -1), T)
      /\ Unused(pool.ref) \cap T = {}
  BY <1>1, <1>3, <1>4, GivingCounts
<1> QED BY <1>2, <1>5, <1>6 DEF T

(* free_blocks and unpin_blocks put back, each once, the blocks that lost  *)
(* their last reference, some at the front and some at the end.            *)
LEMMA GivenBack ==
  ASSUME FiniteFacts, QueueAssumption, PoolAssumption, PoolInv,
         NEW c \in Client, NEW t \in SomeOf(held[c]),
         FreeBlocksOf(c, t) \/ UnpinBlocks(c, t)
  PROVE  \E f, l \in Seq(Block) :
           /\ IsInjective(f) /\ IsInjective(l) /\ Range(f) \cap Range(l) = {}
           /\ Range(f) \cup Range(l) = Released(Counted(pool.ref, Range(t), -1), Range(t))
           /\ queue' = AppendN(PrependN(queue, f), l)
<1> DEFINE ref == Counted(pool.ref, Range(t), -1)
           unused == {b \in Range(t) : ref[b] = 0}
           plain == {b \in unused : pool.hash[b] = None \/ ~EnableCaching}
<1>1. t \in Seq(Block) /\ IsInjective(t)
  BY ReleasedFacts
<1>2. unused = Released(ref, Range(t)) /\ unused \subseteq Range(t) /\ plain \subseteq unused
  BY DEF Released
<1>3. CASE FreeBlocksOf(c, t)
  <2>1. queue' = AppendN(PrependN(queue, Only(t, plain)), Only(t, unused \ plain))
    BY <1>3 DEF FreeBlocksOf
  <2> DEFINE A == plain
             B == unused \ plain
  <2>2. A \subseteq Range(t) /\ B \subseteq Range(t) /\ A \cap B = {} /\ A \cup B = unused
    BY <1>2
  <2>3. queue' = AppendN(PrependN(queue, Only(t, A)), Only(t, B))
    BY <2>1
  <2> HIDE DEF A, B, unused, ref
  <2>4. /\ Only(t, A) \in Seq(Block) /\ IsInjective(Only(t, A))
        /\ Range(Only(t, A)) = Range(t) \cap A
    BY <1>1, OnlyFacts
  <2>5. /\ Only(t, B) \in Seq(Block) /\ IsInjective(Only(t, B))
        /\ Range(Only(t, B)) = Range(t) \cap B
    BY <1>1, OnlyFacts
  <2>6. /\ Range(Only(t, A)) \cap Range(Only(t, B)) = {}
        /\ Range(Only(t, A)) \cup Range(Only(t, B)) = unused
    BY <2>2, <2>4, <2>5
  <2> QED BY <1>2, <2>3, <2>4, <2>5, <2>6 DEF ref
<1>4. CASE UnpinBlocks(c, t)
  <2>1. queue' = AppendN(queue, Only(t, unused))
    BY <1>4 DEF UnpinBlocks
  <2>2. PrependN(queue, <<>>) = queue
    BY DEF PrependN
  <2>3. <<>> \in Seq(Block) /\ IsInjective(<<>>) /\ Range(<<>>) = {}
    BY DEF IsInjective, Range
  <2> HIDE DEF unused, ref
  <2>4. /\ Only(t, unused) \in Seq(Block) /\ IsInjective(Only(t, unused))
        /\ Range(Only(t, unused)) = Range(t) \cap unused
    BY <1>1, OnlyFacts
  <2>5. Range(<<>>) \cap Range(Only(t, unused)) = {}
        /\ Range(<<>>) \cup Range(Only(t, unused)) = unused
    BY <1>2, <2>3, <2>4
  <2>6. queue' = AppendN(PrependN(queue, <<>>), Only(t, unused))
    BY <2>1, <2>2, Zenon
  <2> DEFINE e == <<>>
             o == Only(t, unused)
  <2> HIDE DEF e, o
  <2>7. /\ e \in Seq(Block) /\ o \in Seq(Block) /\ IsInjective(e) /\ IsInjective(o)
        /\ Range(e) \cap Range(o) = {} /\ Range(e) \cup Range(o) = Released(ref, Range(t))
        /\ queue' = AppendN(PrependN(queue, e), o)
    BY <1>2, <2>3, <2>4, <2>5, <2>6 DEF e, o
  <2> QED BY <2>7 DEF ref
<1> QED BY <1>3, <1>4

(* The list afterwards: f at its front, l at its end.                      *)
LEMMA GivenBackList ==
  ASSUME FiniteFacts, QueueAssumption, PoolAssumption, PoolInv,
         NEW s, Linked(queue, s), Range(s) = Unused(pool.ref),
         NEW c \in Client, NEW t \in SomeOf(held[c]),
         FreeBlocksOf(c, t) \/ UnpinBlocks(c, t)
  PROVE  \E f, l \in Seq(Block) :
           /\ IsInjective(f) /\ IsInjective(l) /\ Range(f) \cap Range(l) = {}
           /\ (Range(f) \cup Range(l)) \cap Range(s) = {}
           /\ Linked(queue', (f \o s) \o l)
           /\ Range((f \o s) \o l) = Unused(Counted(pool.ref, Range(t), -1))
<1>1. PICK f, l \in Seq(Block) :
           /\ IsInjective(f) /\ IsInjective(l) /\ Range(f) \cap Range(l) = {}
           /\ Range(f) \cup Range(l) = Released(Counted(pool.ref, Range(t), -1), Range(t))
           /\ queue' = AppendN(PrependN(queue, f), l)
  BY GivenBack, Zenon
<1> DEFINE ref == Counted(pool.ref, Range(t), -1)
<1>2. /\ Unused(ref) = Unused(pool.ref) \cup Released(ref, Range(t))
      /\ Unused(pool.ref) \cap Range(t) = {}
  BY ReleasedFacts
<1>3. Released(ref, Range(t)) \subseteq Range(t)
  BY DEF Released
<1> HIDE DEF ref
<1>4. Range(f) \cup Range(l) = Released(ref, Range(t))
  BY <1>1 DEF ref
<1>5. (Range(f) \cup Range(l)) \cap Range(s) = {}
  BY <1>2, <1>3, <1>4
<1>6. Range(f) \cap Range(s) = {} /\ Range(l) \cap Range(s) = {}
  BY <1>5
<1>7. /\ Linked(queue', (f \o s) \o l)
      /\ Range((f \o s) \o l) = Range(f) \cup Range(s) \cup Range(l)
  BY <1>1, <1>6, PutBackList
<1>8. Range((f \o s) \o l) = Unused(ref)
  BY <1>2, <1>4, <1>7
<1> QED BY <1>1, <1>5, <1>7, <1>8 DEF ref

(* free_blocks and unpin_blocks keep the invariant.                        *)
LEMMA GivingBackKeeps ==
  ASSUME FiniteFacts, QueueAssumption, PoolAssumption, PoolInv,
         NEW c \in Client, NEW t \in SomeOf(held[c]),
         FreeBlocksOf(c, t) \/ UnpinBlocks(c, t)
  PROVE  PoolInv'
<1> DEFINE ref == Counted(pool.ref, Range(t), -1)
<1>1. PICK s : Linked(queue, s) /\ Range(s) = Unused(pool.ref)
  BY DEF PoolInv, Listed
<1>2. PICK f, l \in Seq(Block) : /\ Linked(queue', (f \o s) \o l)
                                 /\ Range((f \o s) \o l) = Unused(ref)
  BY <1>1, GivenBackList
<1>3. /\ pool \in Record /\ IndexesAgree(pool) /\ EventsMirror(pool, published, repeated)
      /\ OnlyWhenCaching(pool) /\ watchers \subseteq Block /\ held \in [Client -> SUBSET Block]
  BY DEF PoolInv, Types
<1>4. /\ RefsCounted(ref, Giving(held, c, Range(t)))
      /\ Giving(held, c, Range(t)) \in [Client -> SUBSET Block]
      /\ ref \in [Block -> Nat] /\ Range(t) \subseteq held[c]
  BY ReleasedFacts
<1>5. /\ pool' = WithRef(pool, ref) /\ held' = Giving(held, c, Range(t))
      /\ published' = published /\ repeated' = repeated
      /\ watchers' \in {watchers, watchers \cup Range(t)}
  BY DEF FreeBlocksOf, UnpinBlocks, WithRef, Giving
<1>6. watchers' \subseteq Block
  BY <1>3, <1>4, <1>5
<1> HIDE DEF ref
<1>7. /\ pool' \in Record /\ pool'.ref = ref /\ IndexesAgree(pool')
      /\ EventsMirror(pool', published', repeated') /\ OnlyWhenCaching(pool')
  BY <1>3, <1>4, <1>5, RefOnly, Zenon
<1>8. Listed(queue', pool')
  BY <1>2, <1>7 DEF Listed
<1> QED BY <1>4, <1>5, <1>6, <1>7, <1>8 DEF PoolInv, Types

(* A step that leaves references, list and watchers alone keeps the        *)
(* invariant when it keeps that of the prefix cache.                       *)
LEMMA CacheOnly ==
  ASSUME PoolInv, queue' = queue, watchers' = watchers, held' = held,
         repeated' \in [Hash -> 0 .. MaxReports],
         pool' \in Record, pool'.ref = pool.ref, IndexesAgree(pool'),
         EventsMirror(pool', published', repeated'), OnlyWhenCaching(pool')
  PROVE  PoolInv'
<1>1. Listed(queue', pool') /\ RefsCounted(pool'.ref, held')
  BY DEF PoolInv, Listed
<1> QED BY <1>1 DEF PoolInv, Types

(* cache_full_blocks keeps the invariant.                                  *)
LEMMA CacheFullKeeps ==
  ASSUME FiniteFacts, QueueAssumption, PoolAssumption, PoolInv,
         NEW c \in Client, NEW b \in Block, NEW h \in FullHash, CacheFullBlock(c, b, h)
  PROVE  PoolInv'
<1>1. pool \in Record /\ IndexesAgree(pool) /\ EventsMirror(pool, published, repeated)
  BY DEF PoolInv, Types
<1>2. h \in Hash
  BY DEF Hash
<1>3. /\ EnableCaching /\ queue' = queue /\ watchers' = watchers /\ held' = held
      /\ repeated' = repeated /\ repeated \in [Hash -> Nat]
      /\ repeated' \in [Hash -> 0 .. MaxReports]
  BY RepeatedNat DEF CacheFullBlock, PoolInv, Types
<1>4. CASE pool.hash[b] = None
  <2>1. pool' = InsertHash(pool, b, h) /\ published' = Published(published, {}, {h})
    BY <1>4 DEF CacheFullBlock
  <2>2. b \notin pool.map[h]
    <3>1. HashesOf(pool, b) = {}
      BY <1>1, <1>4 DEF IndexesAgree, HashesOf
    <3> QED BY <1>1, <1>2, <3>1 DEF IndexesAgree
  <2>3. pool' \in Record /\ pool'.ref = pool.ref /\ IndexesAgree(pool')
    BY <1>1, <1>2, <2>1, InsertKeeps, Zenon
  <2>4. EventsMirror(pool', published', repeated')
    BY <1>1, <1>2, <1>3, <2>1, <2>2, InsertMirrored, Zenon
  <2> QED BY <1>3, <2>3, <2>4, CacheOnly DEF OnlyWhenCaching
<1>5. CASE pool.hash[b] # None
  <2> DEFINE e == DropHashes(pool, {b})
  <2>1. pool' = InsertHash(e, b, h)
        /\ published' = Published(published, DroppedBy(pool, b), {h})
    BY <1>5 DEF CacheFullBlock
  <2>2. {b} \in SUBSET Block
    OBVIOUS
  <2>3. e \in Record /\ e.ref = pool.ref /\ IndexesAgree(e)
    BY <1>1, <2>2, DropFacts
  <2>4. EventsMirror(pool', published', repeated')
    BY <1>1, <1>2, <1>3, <2>1, PromoteMirrored, Zenon
  <2> HIDE DEF e
  <2>5. pool' \in Record /\ pool'.ref = pool.ref /\ IndexesAgree(pool')
    BY <1>2, <2>1, <2>3, InsertKeeps, Zenon
  <2> QED BY <1>3, <2>4, <2>5, CacheOnly DEF OnlyWhenCaching
<1> QED BY <1>4, <1>5

(* cache_partial_block keeps the invariant.                                *)
LEMMA CachePartialKeeps ==
  ASSUME FiniteFacts, QueueAssumption, PoolAssumption, PoolInv,
         NEW c \in Client, NEW b \in Block, NEW h \in PartialHash, NEW replace \in BOOLEAN,
         CachePartialBlock(c, b, h, replace)
  PROVE  PoolInv'
<1> DEFINE already == pool.hash[b] = h \/ b \in pool.map[h]
           shorter == pool.hash[b] # None /\ HashTokens[pool.hash[b]] < HashTokens[h]
           drop == replace \/ (~already /\ shorter)
<1>1. pool \in Record /\ IndexesAgree(pool) /\ EventsMirror(pool, published, repeated)
  BY DEF PoolInv, Types
<1>2. h \in Hash
  BY DEF Hash
<1>3. /\ EnableCaching /\ queue' = queue /\ watchers' = watchers /\ held' = held
      /\ repeated' = repeated /\ repeated \in [Hash -> Nat]
      /\ repeated' \in [Hash -> 0 .. MaxReports]
  BY RepeatedNat DEF CachePartialBlock, PoolInv, Types
<1>4. CASE drop
  <2> DEFINE e == DropHashes(pool, {b})
  <2>1. pool' = InsertHash(e, b, h)
        /\ published' = Published(published, DroppedBy(pool, b), {h})
    BY <1>4 DEF CachePartialBlock
  <2>2. {b} \in SUBSET Block
    OBVIOUS
  <2>3. e \in Record /\ e.ref = pool.ref /\ IndexesAgree(e)
    BY <1>1, <2>2, DropFacts
  <2>4. EventsMirror(pool', published', repeated')
    BY <1>1, <1>2, <1>3, <2>1, PromoteMirrored, Zenon
  <2> HIDE DEF e
  <2>5. pool' \in Record /\ pool'.ref = pool.ref /\ IndexesAgree(pool')
    BY <1>2, <2>1, <2>3, InsertKeeps, Zenon
  <2> QED BY <1>3, <2>4, <2>5, CacheOnly DEF OnlyWhenCaching
<1>5. CASE ~drop
  <2>1. /\ pool' = InsertHash(pool, b, h) /\ ~replace
        /\ published' = Published(published, {}, IF already THEN {} ELSE {h})
    BY <1>5 DEF CachePartialBlock
  <2>0. pool' = InsertHash(pool, b, h)
    BY <2>1
  <2>2. pool' \in Record /\ pool'.ref = pool.ref /\ IndexesAgree(pool')
    BY <1>1, <1>2, <2>0, InsertKeeps, Zenon
  <2>3. EventsMirror(pool', published', repeated')
    <3>1. CASE already
      <4>1. pool' = pool
        <5>1. h # None
          BY <1>2 DEF PoolAssumption
        <5> QED BY <2>0, <3>1, <5>1 DEF InsertHash
      <4>2. published' = Published(published, {}, {})
        BY <2>1, <3>1
      <4>3. published = [g \in Hash |-> Cardinality(pool.map[g]) + repeated[g]]
        BY <1>1 DEF EventsMirror
      <4>4. \A g \in Hash : Cardinality(pool.map[g]) \in Nat
        <5>1. \A g \in Hash : pool.map[g] \in SUBSET Block
          BY <1>1 DEF Record
        <5> QED BY <5>1, Finite
      <4>5. published' = published
        BY <1>3, <4>2, <4>3, <4>4 DEF Published
      <4> QED BY <1>1, <1>3, <4>1, <4>5
    <3>2. CASE ~already
      <4>1. published' = Published(published, {}, {h}) /\ b \notin pool.map[h]
        BY <2>1, <3>2
      <4> HIDE DEF already
      <4> QED BY <1>1, <1>2, <1>3, <2>0, <4>1, InsertMirrored, Zenon
    <3> QED BY <3>1, <3>2
  <2> QED BY <1>3, <2>2, <2>3, CacheOnly DEF OnlyWhenCaching
<1> QED BY <1>4, <1>5

(* move_block_hashes keeps the invariant: as many blocks have each hash as *)
(* before, so no event is due.                                             *)
LEMMA MoveKeeps ==
  ASSUME FiniteFacts, QueueAssumption, PoolAssumption, PoolInv,
         NEW c \in Client, NEW src \in Block, NEW dst \in Block, MoveBlockHashes(c, src, dst)
  PROVE  PoolInv'
<1> DEFINE p == DropHashes(pool, {src})
           moved == DroppedBy(pool, src)
           first == IF pool.hash[src] \in moved THEN pool.hash[src]
                    ELSE CHOOSE h \in moved : TRUE
           map == [h \in Hash |-> IF h \in moved THEN p.map[h] \cup {dst} ELSE p.map[h]]
<1>1. /\ pool \in Record /\ IndexesAgree(pool) /\ EventsMirror(pool, published, repeated)
      /\ OnlyWhenCaching(pool)
  BY DEF PoolInv, Types
<1>2. /\ src # dst /\ pool.hash[dst] = None /\ pool.more[dst] = {}
      /\ queue' = queue /\ watchers' = watchers /\ held' = held /\ published' = published
      /\ repeated' = repeated /\ repeated' \in [Hash -> 0 .. MaxReports]
  BY DEF MoveBlockHashes, PoolInv, Types
<1>3. pool' = IF moved = {} THEN p ELSE
        [p EXCEPT !.hash[dst] = first, !.more[dst] = moved \ {first}, !.map = map]
  BY DEF MoveBlockHashes
<1>4. moved = {h \in Hash : src \in pool.map[h]}
  BY <1>1, DroppedIs
<1>5. /\ p \in Record /\ p.ref = pool.ref /\ IndexesAgree(p)
      /\ \A h \in Hash : p.map[h] = pool.map[h] \ {src}
      /\ p.hash[dst] = None /\ p.more[dst] = {}
  <2>1. {src} \in SUBSET Block
    OBVIOUS
  <2> QED BY <1>1, <1>2, <2>1, DropFacts
<1>6. moved # {} => first \in moved /\ first # None
  BY <1>4 DEF PoolAssumption
<1> HIDE DEF p, moved, first
<1>7. \A h \in Hash : dst \notin pool.map[h] /\ dst \notin p.map[h]
  <2>1. HashesOf(pool, dst) = {} /\ HashesOf(p, dst) = {}
    BY <1>2, <1>5 DEF HashesOf
  <2> QED BY <1>1, <1>5, <2>1 DEF IndexesAgree
<1>8. \A h \in Hash : pool.map[h] \in SUBSET Block /\ IsFiniteSet(pool.map[h])
  BY <1>1, Finite DEF Record
<1>9. published = [h \in Hash |-> Cardinality(pool.map[h]) + repeated[h]]
  BY <1>1 DEF EventsMirror
<1>10. CASE moved = {}
  <2>1. pool' = p
    BY <1>3, <1>10
  <2>2. ASSUME NEW h \in Hash PROVE p.map[h] = pool.map[h]
    <3>1. src \notin pool.map[h]
      BY <1>4, <1>10
    <3>2. p.map[h] = pool.map[h] \ {src}
      BY <1>5
    <3> QED BY <3>1, <3>2
  <2>3. EventsMirror(p, published, repeated) /\ OnlyWhenCaching(p)
    BY <1>1, <1>9, <2>2 DEF EventsMirror, OnlyWhenCaching
  <2> QED BY <1>2, <1>5, <2>1, <2>3, CacheOnly
<1>11. CASE moved # {}
  <2> DEFINE hash == [p.hash EXCEPT ![dst] = first]
             more == [p.more EXCEPT ![dst] = moved \ {first}]
  <2>0. p = [ref |-> p.ref, hash |-> p.hash, more |-> p.more, map |-> p.map]
        /\ p.ref \in [Block -> Nat] /\ p.hash \in [Block -> Hash \cup {None}]
        /\ p.more \in [Block -> SUBSET Hash] /\ p.map \in [Hash -> SUBSET Block]
    BY <1>5 DEF Record
  <2>1. pool' = [ref |-> p.ref, hash |-> hash, more |-> more, map |-> map]
    <3> HIDE DEF map
    <3> QED BY <1>3, <1>11, <2>0, Zenon
  <2>2. first \in Hash /\ first \in moved /\ moved \subseteq Hash /\ first # None
    BY <1>4, <1>6, <1>11
  <2>3. /\ hash \in [Block -> Hash \cup {None}] /\ more \in [Block -> SUBSET Hash]
        /\ map \in [Hash -> SUBSET Block]
    BY <2>0, <2>2
  <2>4. \A a \in Block : /\ hash[a] = IF a = dst THEN first ELSE p.hash[a]
                         /\ more[a] = IF a = dst THEN moved \ {first} ELSE p.more[a]
    BY <2>0
  <2>5. \A h \in Hash : map[h] = IF h \in moved THEN p.map[h] \cup {dst} ELSE p.map[h]
    OBVIOUS
  <2> HIDE DEF hash, more, map
  <2>6. pool'.ref = p.ref /\ pool'.hash = hash /\ pool'.more = more /\ pool'.map = map
    BY <2>1
  <2>7. pool' \in Record
    BY <2>0, <2>1, <2>3 DEF Record
  <2>8. \A a \in Block : HashesOf(pool', a) = IF a = dst THEN moved ELSE HashesOf(p, a)
    BY <2>2, <2>4, <2>6 DEF HashesOf
  <2>9. \A a \in Block, h \in Hash : a \in p.map[h] <=> h \in HashesOf(p, a)
    BY <1>5 DEF IndexesAgree
  <2>10. \A a \in Block, h \in Hash : a \in map[h] <=> h \in HashesOf(pool', a)
    <3>1. ASSUME NEW a \in Block, NEW h \in Hash
          PROVE  a \in map[h] <=> h \in HashesOf(pool', a)
      <4>1. a \in map[h] <=> a \in p.map[h] \/ (h \in moved /\ a = dst)
        BY <2>5, Zenon
      <4>2. h \in HashesOf(pool', a) <=> IF a = dst THEN h \in moved ELSE h \in HashesOf(p, a)
        BY <2>8
      <4>3. a \in p.map[h] <=> h \in HashesOf(p, a)
        BY <2>9
      <4>4. dst \notin p.map[h]
        BY <1>7
      <4> QED BY <4>1, <4>2, <4>3, <4>4
    <3> QED BY <3>1
  <2>11. IndexesAgree(pool')
    <3>1. \A a \in Block : hash[a] = None => more[a] = {}
      BY <1>5, <2>2, <2>4 DEF IndexesAgree
    <3> QED BY <2>6, <2>10, <3>1 DEF IndexesAgree
  <2>12. ASSUME NEW h \in Hash PROVE Cardinality(map[h]) = Cardinality(pool.map[h])
    <3>1. CASE h \in moved
      <4>1. map[h] = (pool.map[h] \ {src}) \cup {dst} /\ src \in pool.map[h]
        BY <1>4, <1>5, <2>5, <3>1, Zenon
      <4> DEFINE m == pool.map[h] \ {src}
      <4>2. IsFiniteSet(m) /\ Cardinality(m) = Cardinality(pool.map[h]) - 1
        <5>1. /\ IsFiniteSet(pool.map[h] \ {src})
              /\ Cardinality(pool.map[h] \ {src}) =
                   Cardinality(pool.map[h]) - IF src \in pool.map[h] THEN 1 ELSE 0
          BY <1>8, RemoveElement, Zenon
        <5> QED BY <4>1, <5>1
      <4>3. dst \notin m
        BY <1>7
      <4> HIDE DEF m
      <4>4. Cardinality(m \cup {dst}) = Cardinality(m) + 1
        BY <4>2, <4>3, AddElement, Zenon
      <4>5. Cardinality(pool.map[h]) \in Nat
        BY <1>8, FiniteSubset
      <4>6. map[h] = m \cup {dst}
        BY <4>1 DEF m
      <4> QED BY <4>2, <4>4, <4>5, <4>6
    <3>2. CASE h \notin moved
      <4>1. map[h] = pool.map[h] \ {src} /\ src \notin pool.map[h]
        BY <1>4, <1>5, <2>5, <3>2, Zenon
      <4>2. map[h] = pool.map[h]
        BY <4>1
      <4> QED BY <4>2
    <3> QED BY <3>1, <3>2
  <2>13. EventsMirror(pool', published', repeated')
    BY <1>2, <1>9, <2>6, <2>12 DEF EventsMirror
  <2>14. OnlyWhenCaching(pool')
    <3>1. EnableCaching
      BY <1>1, <1>4, <1>11 DEF OnlyWhenCaching
    <3> QED BY <3>1 DEF OnlyWhenCaching
  <2> QED BY <1>2, <1>5, <2>6, <2>7, <2>11, <2>13, <2>14, CacheOnly
<1> QED BY <1>10, <1>11

(* evict_blocks keeps the invariant.                                       *)
LEMMA EvictKeeps ==
  ASSUME FiniteFacts, QueueAssumption, PoolAssumption, PoolInv,
         NEW S \in SUBSET Block, EvictBlocks(S)
  PROVE  PoolInv'
<1>1. /\ pool \in Record /\ IndexesAgree(pool) /\ EventsMirror(pool, published, repeated)
      /\ OnlyWhenCaching(pool)
  BY DEF PoolInv, Types
<1>2. /\ pool' = DropHashes(pool, S)
      /\ queue' = queue /\ watchers' = watchers /\ held' = held
      /\ repeated' = repeated /\ repeated' \in [Hash -> 0 .. MaxReports]
      /\ published' = [h \in Hash |->
           published[h] - Cardinality({b \in S : h \in DroppedBy(pool, b)})]
  BY DEF EvictBlocks, PoolInv, Types
<1>3. pool' \in Record /\ pool'.ref = pool.ref /\ IndexesAgree(pool')
      /\ \A h \in Hash : pool'.map[h] = pool.map[h] \ S
  BY <1>1, <1>2, DropFacts
<1>4. EventsMirror(pool', published', repeated')
  <2>1. repeated \in [Hash -> Nat]
    BY RepeatedNat
  <2> QED BY <1>1, <1>2, <2>1, DropMirrored
<1>5. OnlyWhenCaching(pool')
  BY <1>1, <1>3 DEF OnlyWhenCaching
<1> QED BY <1>2, <1>3, <1>4, <1>5, CacheOnly

(* reset_prefix_cache keeps the invariant.                                 *)
LEMMA ResetKeeps ==
  ASSUME FiniteFacts, QueueAssumption, PoolAssumption, PoolInv, ResetPrefixCache
  PROVE  PoolInv'
<1> DEFINE hash == [b \in Block |-> None]
           more == [b \in Block |-> {}]
           map == [h \in Hash |-> {}]
<1>1. pool \in Record
  BY DEF PoolInv, Types
<1>2. pool = [ref |-> pool.ref, hash |-> pool.hash, more |-> pool.more, map |-> pool.map]
      /\ pool.ref \in [Block -> Nat]
  BY <1>1 DEF Record
<1>3. pool' = [pool EXCEPT !.hash = hash, !.more = more, !.map = map]
      /\ queue' = queue /\ held' = held /\ watchers' = {} /\ published' = [h \in Hash |-> 0]
      /\ repeated' = [h \in Hash |-> 0]
  BY DEF ResetPrefixCache
<1>4. /\ hash \in [Block -> Hash \cup {None}] /\ more \in [Block -> SUBSET Hash]
      /\ map \in [Hash -> SUBSET Block]
      /\ \A b \in Block : hash[b] = None /\ more[b] = {}
      /\ \A h \in Hash : map[h] = {}
  OBVIOUS
<1> HIDE DEF hash, more, map
<1>5. pool' = [ref |-> pool.ref, hash |-> hash, more |-> more, map |-> map]
  BY <1>2, <1>3, Zenon
<1>6. pool'.ref = pool.ref /\ pool'.hash = hash /\ pool'.more = more /\ pool'.map = map
  BY <1>5
<1>7. pool' \in Record
  BY <1>2, <1>4, <1>5 DEF Record
<1>8. IndexesAgree(pool')
  BY <1>4, <1>6 DEF IndexesAgree, HashesOf
<1>9. EventsMirror(pool', published', repeated') /\ OnlyWhenCaching(pool')
  BY <1>3, <1>4, <1>6, EmptyCount DEF EventsMirror, OnlyWhenCaching
<1>10. Listed(queue', pool') /\ RefsCounted(pool'.ref, held')
  BY <1>3, <1>6 DEF PoolInv, Listed
<1>11. repeated' \in [Hash -> 0 .. MaxReports]
  BY <1>3 DEF PoolAssumption
<1> QED BY <1>3, <1>7, <1>8, <1>9, <1>10, <1>11 DEF PoolInv, Types

(* emit_cached_block_events keeps the invariant: the events it repeats are *)
(* counted apart.                                                          *)
LEMMA EmitKeeps ==
  ASSUME FiniteFacts, QueueAssumption, PoolAssumption, PoolInv,
         NEW S \in SUBSET FullHash, EmitCachedBlockEvents(S)
  PROVE  PoolInv'
<1>1. /\ pool \in Record /\ IndexesAgree(pool) /\ EventsMirror(pool, published, repeated)
      /\ OnlyWhenCaching(pool) /\ repeated \in [Hash -> 0 .. MaxReports]
  BY DEF PoolInv, Types
<1>2. /\ pool' = pool /\ queue' = queue /\ watchers' = watchers /\ held' = held
      /\ published' = Published(published, {}, S) /\ repeated' = Published(repeated, {}, S)
      /\ \A h \in S : repeated[h] < MaxReports
  BY DEF EmitCachedBlockEvents
<1>3. \A h \in Hash : Cardinality(pool.map[h]) \in Nat
  <2>1. \A h \in Hash : pool.map[h] \in SUBSET Block
    BY <1>1 DEF Record
  <2> QED BY <2>1, Finite
<1>4. \A h \in Hash : published[h] = Cardinality(pool.map[h]) + repeated[h]
  BY <1>1 DEF EventsMirror
<1>5. \A h \in Hash : repeated[h] \in 0 .. MaxReports /\ MaxReports \in Nat
  BY <1>1 DEF PoolAssumption
<1>6. repeated' \in [Hash -> 0 .. MaxReports]
  BY <1>2, <1>5 DEF Published
<1>7. EventsMirror(pool', published', repeated')
  <2>1. \A h \in Hash : /\ published'[h] = published[h] + (IF h \in S THEN 1 ELSE 0)
                        /\ repeated'[h] = repeated[h] + (IF h \in S THEN 1 ELSE 0)
    BY <1>2, <1>3, <1>4, <1>5 DEF Published
  <2>2. \A h \in Hash : published'[h] = Cardinality(pool.map[h]) + repeated'[h]
    BY <1>3, <1>4, <1>5, <2>1
  <2>3. published' = [h \in Hash |-> published'[h]]
    BY <1>2 DEF Published
  <2> QED BY <1>2, <2>2, <2>3 DEF EventsMirror
<1> QED BY <1>1, <1>2, <1>6, <1>7, CacheOnly

-----------------------------------------------------------------------------
(* Every step keeps the invariant.                                         *)
LEMMA PoolStep ==
  ASSUME FiniteFacts, QueueAssumption, PoolAssumption, PoolInv, [Next]_vars
  PROVE  PoolInv'
<1>1. CASE UNCHANGED vars
  <2>1. queue' = queue /\ pool' = pool /\ watchers' = watchers
        /\ published' = published /\ repeated' = repeated /\ held' = held
    BY <1>1 DEF vars
  <2> QED BY <2>1 DEF PoolInv, Types, Listed
<1>2. CASE \E c \in Client, n \in 1 .. queue.num : GetNewBlocks(c, n)
  BY <1>2, GetNewKeeps
<1>3. CASE \E c \in Client : \E s \in SomeOf(Block) : Touch(c, s)
  BY <1>3, TouchKeeps
<1>4. CASE \E c \in Client : \E s \in SomeOf(held[c]) : FreeBlocksOf(c, s)
  BY <1>4, GivingBackKeeps
<1>5. CASE \E c \in Client : \E s \in SomeOf(held[c]) : UnpinBlocks(c, s)
  BY <1>5, GivingBackKeeps
<1>6. CASE \E c \in Client, b \in Block, h \in FullHash : CacheFullBlock(c, b, h)
  BY <1>6, CacheFullKeeps
<1>7. CASE \E c \in Client, b \in Block, h \in PartialHash, replace \in BOOLEAN :
             CachePartialBlock(c, b, h, replace)
  BY <1>7, CachePartialKeeps
<1>8. CASE \E c \in Client, src, dst \in Block : MoveBlockHashes(c, src, dst)
  BY <1>8, MoveKeeps
<1>9. CASE \E S \in (SUBSET Block) \ {{}} : EvictBlocks(S)
  BY <1>9, EvictKeeps
<1>10. CASE \E S \in (SUBSET FullHash) \ {{}} : EmitCachedBlockEvents(S)
  BY <1>10, EmitKeeps
<1>11. CASE ResetPrefixCache
  BY <1>11, ResetKeeps
<1> QED BY <1>1, <1>2, <1>3, <1>4, <1>5, <1>6, <1>7, <1>8, <1>9, <1>10, <1>11,
           Zenon DEF Next

(* What the invariant says of the three that the runs check.               *)
LEMMA InvSaysFreeList ==
  ASSUME FiniteFacts, QueueAssumption, PoolAssumption, PoolInv
  PROVE  FreeListIsUnreferenced
<1>1. PICK s : Linked(queue, s) /\ Range(s) = Unused(pool.ref)
  BY DEF PoolInv, Listed
<1>2. AllFreeBlocks(queue) = s
  BY <1>1, AllFreeBlocksIs
<1>3. /\ pool \in Record /\ held \in [Client -> SUBSET Block] /\ watchers \subseteq Block
      /\ RefsCounted(pool.ref, held) /\ EventsMirror(pool, published, repeated)
  BY DEF PoolInv, Types
<1>4. /\ pool = [ref |-> pool.ref, hash |-> pool.hash, more |-> pool.more, map |-> pool.map]
      /\ pool.ref \in [Block -> Nat] /\ pool.hash \in [Block -> Hash \cup {None}]
      /\ pool.more \in [Block -> SUBSET Hash] /\ pool.map \in [Hash -> SUBSET Block]
  BY <1>3 DEF Record
<1>5. \A b \in Block : /\ pool.ref[b] = Cardinality({c \in Client : b \in held[c]})
                       /\ pool.ref[b] \in 0 .. Cardinality(Client)
  <2>1. ASSUME NEW b \in Block
        PROVE  /\ pool.ref[b] = Cardinality(Holders(held, b))
               /\ pool.ref[b] \in 0 .. Cardinality(Client)
    <3>1. Holders(held, b) \in SUBSET Client
      BY DEF Holders
    <3>2. Cardinality(Holders(held, b)) \in Nat
          /\ Cardinality(Holders(held, b)) <= Cardinality(Client)
      BY <3>1, Finite
    <3>3. Cardinality(Client) \in Nat
      BY FiniteSubset DEF PoolAssumption
    <3>4. pool.ref[b] = Cardinality(Holders(held, b))
      BY <1>3 DEF RefsCounted
    <3> QED BY <3>2, <3>3, <3>4
  <2> QED BY <2>1 DEF Holders
<1>6. pool \in PoolRecord
  <2>1. pool.ref \in [Block -> 0 .. Cardinality(Client)]
    BY <1>4, <1>5, Zenon
  <2> QED BY <1>4, <2>1 DEF PoolRecord
<1>7. /\ published \in [Hash -> 0 .. Cardinality(Block) + MaxReports]
      /\ repeated \in [Hash -> 0 .. MaxReports]
  <2>1. ASSUME NEW h \in Hash
        PROVE  Cardinality(pool.map[h]) + repeated[h] \in 0 .. Cardinality(Block) + MaxReports
    <3>1. pool.map[h] \in SUBSET Block
      BY <1>4
    <3>2. Cardinality(pool.map[h]) \in Nat /\ Cardinality(pool.map[h]) <= Cardinality(Block)
      BY <3>1, Finite
    <3>3. Cardinality(Block) \in Nat
      BY FiniteSubset DEF QueueAssumption
    <3>4. repeated[h] \in 0 .. MaxReports /\ MaxReports \in Nat
      BY DEF PoolInv, Types, PoolAssumption
    <3> QED BY <3>2, <3>3, <3>4
  <2> QED BY <1>3, <2>1 DEF EventsMirror, PoolInv, Types
<1>8. /\ \A x, y \in Node : queue.next[x] = y <=> queue.prev[y] = x
      /\ queue.prev[FakeHead] = None /\ queue.next[FakeTail] = None
      /\ \A b \in Block : (queue.prev[b] = None) = (queue.next[b] = None)
      /\ \A b \in Block : b \in Range(s) <=> queue.next[b] # None
      /\ queue.num = Cardinality(Range(s))
      /\ queue.prev \in [Node -> Node \cup {None}]
      /\ queue.next \in [Node -> Node \cup {None}]
      /\ queue.num \in 0 .. Cardinality(Block)
  BY <1>1, LinkedAgrees
<1>9. LinksAgree
  BY <1>2, <1>8, Zenon DEF LinksAgree
<1>10. TypeOK
  BY <1>3, <1>6, <1>7, <1>8 DEF TypeOK, QTypeOK
<1>11. FreeBlocks = {b \in Block : pool.ref[b] = 0}
  BY <1>1, <1>2 DEF FreeBlocks, Unused
<1> QED BY <1>5, <1>9, <1>10, <1>11, Zenon DEF FreeListIsUnreferenced

(* A block leaves the free list only in get_new_blocks, which has told its *)
(* watchers and dropped its hashes, or in touch(), where it is a hit.      *)
LEMMA QuietStep ==
  ASSUME FiniteFacts, QueueAssumption, PoolAssumption, PoolInv, Next
  PROVE  \A b \in FreeBlocks \ FreeBlocks' :
           (b \notin watchers' /\ \A h \in Hash : b \notin pool'.map[h])
           \/ (\E h \in Hash : b \in pool.map[h] /\ b \in pool'.map[h])
<1>1. PICK s : Linked(queue, s) /\ Range(s) = Unused(pool.ref)
  BY DEF PoolInv, Listed
<1>2. FreeBlocks = Range(s)
  BY <1>1, AllFreeBlocksIs DEF FreeBlocks
<1>3. ASSUME NEW u, Linked(queue', u) PROVE FreeBlocks' = Range(u)
  BY <1>3, AllFreeBlocksIs DEF FreeBlocks
<1>4. pool \in Record /\ IndexesAgree(pool) /\ OnlyWhenCaching(pool)
  BY DEF PoolInv, Types
<1>5. ASSUME NEW c \in Client, NEW n \in 1 .. queue.num, GetNewBlocks(c, n),
             NEW b \in FreeBlocks \ FreeBlocks'
      PROVE  b \notin watchers' /\ \A h \in Hash : b \notin pool'.map[h]
  <2> DEFINE ret == Range(Walk(queue, n))
             evicted == IF EnableCaching THEN DropHashes(pool, ret) ELSE pool
  <2>1. /\ queue' = PopleftN(queue, n) /\ watchers' = watchers \ ret
        /\ pool' = [evicted EXCEPT !.ref = Counted(pool.ref, ret, 1)]
    BY <1>5 DEF GetNewBlocks
  <2>2. /\ Linked(queue', SubSeq(s, n + 1, Len(s)))
        /\ Range(SubSeq(s, n + 1, Len(s))) = Range(s) \ ret /\ ret \subseteq Range(s)
    BY <1>1, <2>1, GetNewList
  <2> HIDE DEF ret
  <2>3. FreeBlocks' = Range(s) \ ret
    BY <1>3, <2>2
  <2>4. b \in ret
    BY <1>2, <1>5, <2>3
  <2>5. ret \in SUBSET Block
    BY <1>1, <2>2 DEF Unused
  <2>6. evicted \in Record /\ \A h \in Hash : b \notin evicted.map[h]
    <3>1. CASE EnableCaching
      <4>1. DropHashes(pool, ret) \in Record
            /\ \A h \in Hash : DropHashes(pool, ret).map[h] = pool.map[h] \ ret
        BY <1>4, <2>5, DropFacts
      <4> QED BY <2>4, <3>1, <4>1
    <3>2. CASE ~EnableCaching
      BY <1>4, <3>2 DEF OnlyWhenCaching
    <3> QED BY <3>1, <3>2
  <2> HIDE DEF evicted
  <2>7. pool'.map = evicted.map
    BY <2>1, <2>6 DEF Record
  <2> QED BY <2>1, <2>4, <2>6, <2>7
<1>6. ASSUME NEW c \in Client, NEW t \in SomeOf(Block), Touch(c, t),
             NEW b \in FreeBlocks \ FreeBlocks'
      PROVE  \E h \in Hash : b \in pool.map[h] /\ b \in pool'.map[h]
  <2>1. t \in Seq(Block) /\ IsInjective(t)
    <3>1. Block \in SUBSET Block
      OBVIOUS
    <3> QED BY <3>1, SomeOfFacts
  <2>2. queue' = RemoveBlocks(queue, Only(t, Range(s)))
    BY <1>1, <1>6 DEF Touch, Unused
  <2>3. /\ Linked(queue', Only(s, Block \ Range(Only(t, Range(s)))))
        /\ Range(Only(s, Block \ Range(Only(t, Range(s))))) = Range(s) \ Range(t)
    BY <1>1, <2>1, <2>2, TouchList
  <2>4. FreeBlocks' = Range(s) \ Range(t)
    BY <1>3, <2>3
  <2>5. b \in Range(t)
    BY <1>2, <1>6, <2>4
  <2>6. pool' = [pool EXCEPT !.ref = Counted(pool.ref, Range(t), 1)]
        /\ \A x \in Range(t) : \E h \in Hash : x \in pool.map[h]
    BY <1>6 DEF Touch
  <2>7. pool'.map = pool.map
    BY <1>4, <2>6 DEF Record
  <2> QED BY <2>5, <2>6, <2>7
<1>7. ASSUME NEW c \in Client, NEW t \in SomeOf(held[c]),
             FreeBlocksOf(c, t) \/ UnpinBlocks(c, t)
      PROVE  FreeBlocks \subseteq FreeBlocks'
  <2>1. PICK f, l \in Seq(Block) :
           /\ Linked(queue', (f \o s) \o l)
           /\ Range((f \o s) \o l) = Unused(Counted(pool.ref, Range(t), -1))
    BY <1>1, <1>7, GivenBackList
  <2>2. FreeBlocks' = Unused(Counted(pool.ref, Range(t), -1))
    BY <1>3, <2>1
  <2>3. Unused(pool.ref) \subseteq Unused(Counted(pool.ref, Range(t), -1))
    BY ReleasedFacts
  <2> QED BY <1>1, <1>2, <2>2, <2>3
<1>8. ASSUME queue' = queue PROVE FreeBlocks' = FreeBlocks
  BY <1>8 DEF FreeBlocks
<1>9. CASE \E c \in Client, n \in 1 .. queue.num : GetNewBlocks(c, n)
  BY <1>5, <1>9
<1>10. CASE \E c \in Client : \E t \in SomeOf(Block) : Touch(c, t)
  BY <1>6, <1>10
<1>11. CASE \E c \in Client : \E t \in SomeOf(held[c]) : FreeBlocksOf(c, t) \/ UnpinBlocks(c, t)
  BY <1>7, <1>11
<1>12. CASE queue' = queue
  BY <1>8, <1>12
<1> QED BY <1>9, <1>10, <1>11, <1>12, Zenon
        DEF Next, CacheFullBlock, CachePartialBlock, MoveBlockHashes, EvictBlocks,
            EmitCachedBlockEvents, ResetPrefixCache

-----------------------------------------------------------------------------
(* FreeBlockOrder's operators on sequences are the list's.                 *)
LEMMA SameOperators ==
  /\ \A S : Order!Orderings(S) = Orderings(S)
  /\ \A s : Order!Range(s) = Range(s)
  /\ \A s, A : Order!Only(s, A) = Only(s, A)
<1>1. \A S : Order!Cardinality(S) = Cardinality(S)
  BY DEF Order!Cardinality, Cardinality
<1>2. \A S : Order!Orderings(S) = Orderings(S)
  BY <1>1 DEF Order!Orderings, Orderings, Order!Bijection, Bijection, Order!Injection,
              Injection, Order!Surjection, Surjection, Order!IsInjective, IsInjective
<1>3. \A s : Order!Range(s) = Range(s)
  BY DEF Order!Range, Range
<1>4. \A s, A : Order!Only(s, A) = Only(s, A)
  BY DEF Order!Only, Only
<1> QED BY <1>2, <1>3, <1>4

(* Cutting a concatenation where its parts meet.                           *)
LEMMA SplitConcat ==
  ASSUME NEW f \in Seq(Block), NEW l \in Seq(Block)
  PROVE  /\ SubSeq(f \o l, 1, Len(f)) = f
         /\ SubSeq(f \o l, Len(f) + 1, Len(f \o l)) = l
  OBVIOUS

(* Each step of the pool is a step of FreeBlockOrder or leaves the list.   *)
LEMMA OrderStep ==
  ASSUME FiniteFacts, QueueAssumption, PoolAssumption, PoolInv, Next
  PROVE  Order!Next \/ AllFreeBlocks(queue)' = AllFreeBlocks(queue)
<1> DEFINE order == AllFreeBlocks(queue)
<1>1. PICK s : Linked(queue, s) /\ Range(s) = Unused(pool.ref)
  BY DEF PoolInv, Listed
<1>2. order = s
  BY <1>1, AllFreeBlocksIs
<1>3. ASSUME NEW u, Linked(queue', u) PROVE order' = u
  BY <1>3, AllFreeBlocksIs
<1>4. s \in Seq(Block) /\ IsInjective(s) /\ Range(s) \subseteq Block
  BY <1>1, LinkedFacts
<1> HIDE DEF order
<1>5. CASE \E c \in Client, n \in 1 .. queue.num : GetNewBlocks(c, n)
  <2>1. PICK c \in Client, n \in 1 .. queue.num : GetNewBlocks(c, n)
    BY <1>5
  <2>2. queue' = PopleftN(queue, n)
    BY <2>1 DEF GetNewBlocks
  <2>3. n \in 1 .. Len(s) /\ Linked(queue', SubSeq(s, n + 1, Len(s)))
    BY <1>1, <2>2, GetNewList
  <2>4. n \in 1 .. Len(order) /\ order' = SubSeq(order, n + 1, Len(order))
    BY <1>2, <1>3, <2>3, Zenon
  <2>5. n \in 1 .. Len(order) /\ Order!TakeFront(n)
    BY <2>4 DEF order, Order!TakeFront
  <2> QED BY <2>5 DEF order, Order!Next
<1>6. CASE \E c \in Client : \E t \in SomeOf(Block) : Touch(c, t)
  <2>1. PICK c \in Client, t \in SomeOf(Block) : Touch(c, t)
    BY <1>6
  <2>2. t \in Seq(Block) /\ IsInjective(t)
    <3>1. Block \in SUBSET Block
      OBVIOUS
    <3> QED BY <2>1, <3>1, SomeOfFacts
  <2>3. queue' = RemoveBlocks(queue, Only(t, Range(s)))
    BY <1>1, <2>1 DEF Touch, Unused
  <2> DEFINE S == Range(Only(t, Range(s)))
  <2>4. Linked(queue', Only(s, Block \ S)) /\ S = Range(t) \cap Range(s)
    BY <1>1, <2>2, <2>3, TouchList, Zenon
  <2>5. S \in SUBSET Range(order)
    BY <1>2, <2>4
  <2> HIDE DEF S
  <2>6. order' = Only(order, Block \ S)
    BY <1>2, <1>3, <2>4
  <2>7. S \in SUBSET Order!Range(order) /\ Order!TakeOut(S)
    BY <2>5, <2>6, SameOperators DEF order, Order!TakeOut
  <2> QED BY <2>7 DEF order, Order!Next
<1>7. CASE \E c \in Client : \E t \in SomeOf(held[c]) : FreeBlocksOf(c, t) \/ UnpinBlocks(c, t)
  <2>0. PICK c \in Client : \E t \in SomeOf(held[c]) : FreeBlocksOf(c, t) \/ UnpinBlocks(c, t)
    BY <1>7
  <2>1. PICK t \in SomeOf(held[c]) : FreeBlocksOf(c, t) \/ UnpinBlocks(c, t)
    BY <2>0
  <2>2. PICK f, l \in Seq(Block) :
           /\ IsInjective(f) /\ IsInjective(l) /\ Range(f) \cap Range(l) = {}
           /\ (Range(f) \cup Range(l)) \cap Range(s) = {}
           /\ Linked(queue', (f \o s) \o l)
    BY <1>1, <2>1, GivenBackList, Zenon
  <2> DEFINE u == f \o l
             k == Len(f)
  <2>3. u \in Seq(Block) /\ k \in 0 .. Len(u)
    OBVIOUS
  <2>4. SubSeq(u, 1, k) = f /\ SubSeq(u, k + 1, Len(u)) = l
    BY SplitConcat
  <2>5. IsInjective(u) /\ Range(u) = Range(f) \cup Range(l)
    BY <2>2, InjectiveConcat, RangeConcat
  <2> HIDE DEF u, k
  <2>6. u \in Orderings(Range(u)) /\ Range(u) \in SUBSET (Block \ Range(order))
    <3>1. Range(u) \subseteq Block
      BY <2>3 DEF Range
    <3>2. u \in Orderings(Range(u))
      BY <2>3, <2>5, OrderingOfRange, Zenon
    <3> QED BY <1>2, <2>2, <2>5, <3>1, <3>2
  <2>7. order' = SubSeq(u, 1, k) \o order \o SubSeq(u, k + 1, Len(u))
    BY <1>2, <1>3, <2>2, <2>4, Zenon
  <2>8. u \in Order!Returnable
    BY <2>6, SameOperators DEF order, Order!Returnable
  <2>9. Order!PutBack(u, k)
    BY <2>7 DEF order, Order!PutBack
  <2> QED BY <2>3, <2>8, <2>9 DEF Order!Next
<1>8. CASE queue' = queue
  BY <1>8
<1> QED BY <1>5, <1>6, <1>7, <1>8, Zenon
        DEF Next, CacheFullBlock, CachePartialBlock, MoveBlockHashes, EvictBlocks,
            EmitCachedBlockEvents, ResetPrefixCache

-----------------------------------------------------------------------------
INSTANCE FiniteSetTheorems

(* The facts the lemmas above take as a hypothesis: the library's theorems,  *)
(* and that of the initial segments 0 .. n with n in S one has no other in it. *)
LEMMA FiniteFactsHold == FiniteFacts
<1>1. ASSUME NEW S \in SUBSET Nat, S # {} PROVE \E n \in S : \A m \in S : n <= m
  <2> DEFINE R == StrictSubsetOrdering(Nat)
             T == {0 .. n : n \in S}
  <2> HIDE DEF R, T
  <2>1. T \subseteq FiniteSubsetsOf(Nat) /\ T # {}
    <3>1. ASSUME NEW n \in S PROVE 0 .. n \in FiniteSubsetsOf(Nat)
      <4>1. IsFiniteSet(0 .. n)
        BY FS_Interval
      <4> QED BY <4>1 DEF FiniteSubsetsOf
    <3> QED BY <1>1, <3>1, Zenon DEF T
  <2>2. PICK t \in T : \A u \in T : <<u, t>> \notin R
    BY <2>1, WFMin, FS_StrictSubsetOrderingWellFounded DEF R
  <2>3. PICK n \in S : t = 0 .. n
    BY DEF T
  <2>4. ASSUME NEW m \in S, m < n PROVE FALSE
    <3>1. <<0 .. m, 0 .. n>> \notin R
      BY <2>2, <2>3, Zenon DEF T
    <3>2. 0 .. m \in SUBSET Nat /\ 0 .. n \in SUBSET Nat
      OBVIOUS
    <3>3. 0 .. m \subseteq 0 .. n /\ n \in 0 .. n /\ n \notin 0 .. m
      BY <2>4
    <3>4. 0 .. m # 0 .. n
      BY <3>3
    <3> QED BY <3>1, <3>2, <3>3, <3>4 DEF StrictSubsetOrdering, R
  <2> QED BY <2>4
<1>2. ASSUME NEW S, IsFiniteSet(S)
      PROVE  /\ Cardinality(S) \in Nat
             /\ Cardinality(S) = 0 <=> S = {}
             /\ \A T \in SUBSET S : IsFiniteSet(T) /\ Cardinality(T) <= Cardinality(S)
             /\ \A T : Cardinality(S \ T) = Cardinality(S) - Cardinality(S \cap T)
  BY <1>2, FS_CardinalityType, FS_EmptySet, FS_Subset, FS_Difference, Zenon
<1>3. ASSUME NEW S, IsFiniteSet(S), NEW x
      PROVE  /\ IsFiniteSet(S \cup {x})
             /\ Cardinality(S \cup {x}) = Cardinality(S) + IF x \in S THEN 0 ELSE 1
             /\ Cardinality(S \ {x}) = Cardinality(S) - IF x \in S THEN 1 ELSE 0
  BY <1>2, <1>3, FS_AddElement, FS_RemoveElement
<1>4. IsFiniteSet({})
  BY FS_EmptySet
<1>5. ASSUME NEW n \in Nat, NEW S, Bijection(1 .. n, S) # {}
      PROVE  IsFiniteSet(S) /\ Cardinality(S) = n
  <2>1. ExistsBijection(1 .. n, S)
    BY <1>5, Zenon DEF ExistsBijection
  <2> QED BY <2>1, FS_NatBijection, FS_CountingElements
<1> QED BY <1>1, <1>2, <1>3, <1>4, <1>5, Zenon DEF FiniteFacts

(* The invariant holds in every reachable state.                           *)
LEMMA PoolInvariant == Spec => []PoolInv
<1>1. Init => PoolInv
  BY FiniteFactsHold, QueueAssumption, PoolAssumption, PoolInit
<1>2. PoolInv /\ [Next]_vars => PoolInv'
  BY FiniteFactsHold, QueueAssumption, PoolAssumption, PoolStep
<1> QED BY <1>1, <1>2, PTL DEF Spec

(* A block is in the free list exactly when nobody references it, its      *)
(* ref_cnt is the number of its holders, and the links agree: get_new_     *)
(* blocks, touch, free_blocks and unpin_blocks keep the list exact.        *)
THEOREM FreeListExact == Spec => []FreeListIsUnreferenced
<1>1. PoolInv => FreeListIsUnreferenced
  BY FiniteFactsHold, QueueAssumption, PoolAssumption, InvSaysFreeList
<1> QED BY <1>1, PoolInvariant, PTL

(* cached_block_hash_to_block and the hashes of the blocks agree through   *)
(* promotion, copy-on-write moves, eviction and reset.                     *)
THEOREM IndexesExact == Spec => []HashIndexesAgree
<1>1. PoolInv => HashIndexesAgree
  BY DEF PoolInv, IndexesAgree, HashIndexesAgree
<1> QED BY <1>1, PoolInvariant, PTL

(* Counting the BlockStored and BlockRemoved events per hash gives the     *)
(* number of blocks that cache it, and what emit_cached_block_events has   *)
(* reported again since the last reset on top: never less than is cached.  *)
THEOREM EventsExact == Spec => []EventsMirrorCache
<1>1. PoolInv => EventsMirrorCache
  BY DEF PoolInv, EventsMirror, EventsMirrorCache
<1> QED BY <1>1, PoolInvariant, PTL

(* A block handed out anew is quiet, whatever unpins, hits, promotions and *)
(* evictions came before.                                                  *)
THEOREM HandOutsQuiet == Spec => HandedOutQuiet
<1> DEFINE quiet == \A b \in FreeBlocks \ FreeBlocks' :
             (b \notin watchers' /\ \A h \in Hash : b \notin pool'.map[h])
             \/ (\E h \in Hash : b \in pool.map[h] /\ b \in pool'.map[h])
<1>1. PoolInv /\ [Next]_vars => [quiet]_vars
  BY FiniteFactsHold, QueueAssumption, PoolAssumption, QuietStep
<1> HIDE DEF quiet
<1>2. Spec => [][quiet]_vars
  BY <1>1, PoolInvariant, PTL DEF Spec
<1> QED BY <1>2 DEF quiet, HandedOutQuiet

(* The linked list implements the eviction order: every method changes the *)
(* sequence read from the head as FreeBlockOrder says.                     *)
THEOREM ListImplementsOrder == Spec => ImplementsOrder
<1>1. Init => Order!Init
  <2>1. SUFFICES ASSUME Init PROVE Order!Init
    OBVIOUS
  <2>2. PICK s \in Orderings(Block) : queue = NewQueue(s)
    BY <2>1 DEF Init, QInit
  <2>3. AllFreeBlocks(queue) = s
    BY <2>2, FiniteFactsHold, QueueAssumption, NewQueueLinked, AllFreeBlocksIs
  <2> QED BY <2>2, <2>3, SameOperators DEF Order!Init
<1> DEFINE order == AllFreeBlocks(queue)
<1>2. PoolInv /\ [Next]_vars => [Order!Next]_order
  <2>1. CASE Next
    BY <2>1, FiniteFactsHold, QueueAssumption, PoolAssumption, OrderStep
  <2>2. CASE UNCHANGED vars
    BY <2>2 DEF vars
  <2> QED BY <2>1, <2>2
<1> QED BY <1>1, <1>2, PoolInvariant, PTL DEF Spec, ImplementsOrder, Order!Spec

=============================================================================
