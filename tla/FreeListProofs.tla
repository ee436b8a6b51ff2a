--------------------------- MODULE FreeListProofs ---------------------------
(***************************************************************************)
(* The linked list of free blocks, for every number of blocks: each        *)
(* method of FreeKVCacheBlockQueue maps a well-linked list to the          *)
(* well-linked list of the sequence that FreeBlockOrder promises.  Then    *)
(* what the operators of BlockPool do to its counts, indexes and events.   *)
(*                                                                         *)
(* Walking the list, filtering a sequence and touching several blocks are  *)
(* loops.  What they compute is shown by induction: a property that fails  *)
(* for some number fails for a least one (LeastNatural).                   *)
(***************************************************************************)
EXTENDS BlockPool, TLAPS

\* The leaves that name no prover are for the SMT solver.
USE SMTT(30)

\* Node i of the list of the blocks s: 0 is the fake head.
At(s, i) == IF i = 0 THEN FakeHead ELSE IF i > Len(s) THEN FakeTail ELSE s[i]

\* q is the well-linked list of the blocks s.
Linked(q, s) ==
  /\ s \in Seq(Block) /\ IsInjective(s)
  /\ q = [prev |-> q.prev, next |-> q.next, num |-> Len(s)]
  /\ q.prev \in [Node -> Node \cup {None}]
  /\ q.next \in [Node -> Node \cup {None}]
  /\ q.prev[FakeHead] = None /\ q.next[FakeTail] = None
  /\ \A i \in 0 .. Len(s) :
       q.next[At(s, i)] = At(s, i + 1) /\ q.prev[At(s, i + 1)] = At(s, i)
  /\ \A b \in Block \ Range(s) : q.prev[b] = None /\ q.next[b] = None

-----------------------------------------------------------------------------
(* What the proofs use of the library's facts about natural numbers and      *)
(* finite sets: a hypothesis of the lemmas, which BlockPoolProofs discharges. *)
(* Kept out of this module, the library does not weigh on each obligation.   *)
FiniteFacts ==
  /\ \A S \in SUBSET Nat : S # {} => \E n \in S : \A m \in S : n <= m
  /\ \A S : IsFiniteSet(S) =>
       /\ Cardinality(S) \in Nat
       /\ Cardinality(S) = 0 <=> S = {}
       /\ \A T \in SUBSET S : IsFiniteSet(T) /\ Cardinality(T) <= Cardinality(S)
       /\ \A T : Cardinality(S \ T) = Cardinality(S) - Cardinality(S \cap T)
       /\ \A x : /\ IsFiniteSet(S \cup {x})
                 /\ Cardinality(S \cup {x}) = Cardinality(S) + IF x \in S THEN 0 ELSE 1
                 /\ Cardinality(S \ {x}) = Cardinality(S) - IF x \in S THEN 1 ELSE 0
  /\ IsFiniteSet({})
  /\ \A n \in Nat : \A S : Bijection(1 .. n, S) # {} => IsFiniteSet(S) /\ Cardinality(S) = n

(* A set of naturals that is not empty has a least element.                *)
LEMMA LeastNatural ==
  ASSUME FiniteFacts, NEW S, S \subseteq Nat, S # {}
  PROVE  \E n \in S : \A m \in S : n <= m
  BY Zenon DEF FiniteFacts

(* Finite sets of blocks, clients or hashes: their parts and their size.    *)
LEMMA FiniteSubset ==
  ASSUME FiniteFacts, NEW S, IsFiniteSet(S), NEW T \in SUBSET S
  PROVE  /\ IsFiniteSet(T) /\ Cardinality(T) \in Nat /\ Cardinality(S) \in Nat
         /\ Cardinality(T) <= Cardinality(S)
  BY Zenon DEF FiniteFacts

(* A block more in a set of blocks.                                         *)
LEMMA AddElement ==
  ASSUME FiniteFacts, NEW S, NEW x, IsFiniteSet(S)
  PROVE  /\ IsFiniteSet(S \cup {x})
         /\ Cardinality(S \cup {x}) = Cardinality(S) + IF x \in S THEN 0 ELSE 1
  BY Zenon DEF FiniteFacts

(* A block less in a set of blocks.                                         *)
LEMMA RemoveElement ==
  ASSUME FiniteFacts, NEW S, NEW x, IsFiniteSet(S)
  PROVE  /\ IsFiniteSet(S \ {x})
         /\ Cardinality(S \ {x}) = Cardinality(S) - IF x \in S THEN 1 ELSE 0
<1>1. S \ {x} \in SUBSET S
  OBVIOUS
<1> QED BY <1>1, Zenon DEF FiniteFacts

(* Several blocks less in a set of blocks.                                  *)
LEMMA RemoveElements ==
  ASSUME FiniteFacts, NEW S, NEW T, IsFiniteSet(S)
  PROVE  Cardinality(S \ T) = Cardinality(S) - Cardinality(S \cap T)
  BY Zenon DEF FiniteFacts

(* No block is zero blocks.                                                 *)
LEMMA EmptyCount ==
  ASSUME FiniteFacts
  PROVE  Cardinality({}) = 0 /\ \A S : IsFiniteSet(S) => (Cardinality(S) = 0 <=> S = {})
  BY Zenon DEF FiniteFacts

(* Nodes of a list: the blocks are in the middle.                          *)
LEMMA AtFacts ==
  ASSUME NEW s \in Seq(Block)
  PROVE  /\ At(s, 0) = FakeHead /\ At(s, Len(s) + 1) = FakeTail
         /\ \A i \in 1 .. Len(s) : At(s, i) = s[i] /\ s[i] \in Block
         /\ \A i \in 0 .. Len(s) + 1 : At(s, i) \in Node
  BY DEF At, Node

(* Following the links n times gives the first n blocks of the list.       *)
LEMMA WalkIs ==
  ASSUME FiniteFacts, NEW q, NEW s, Linked(q, s), NEW n \in 0 .. Len(s)
  PROVE  Walk(q, n) = [i \in 1 .. n |-> s[i]]
<1> DEFINE F(g) == [i \in 1 .. n |-> q.next[IF i = 1 THEN FakeHead ELSE g[i - 1]]]
           w == [i \in 1 .. n |-> s[i]]
           node == CHOOSE g : g = F(g)
<1> HIDE DEF F, w, node
<1>0. s \in Seq(Block) /\ Len(s) \in Nat
  BY DEF Linked
<1>1. \A i \in 1 .. n : q.next[At(s, i - 1)] = s[i]
  BY <1>0, AtFacts DEF Linked
<1>2. w = F(w)
  <2>1. ASSUME NEW i \in 1 .. n
        PROVE  w[i] = q.next[IF i = 1 THEN FakeHead ELSE w[i - 1]]
    BY <1>0, <1>1, AtFacts DEF w
  <2> QED BY <2>1 DEF F, w
<1>3. node = F(node)
  BY <1>2 DEF node
<1>4. \A i \in 1 .. n : node[i] = q.next[IF i = 1 THEN FakeHead ELSE node[i - 1]]
  BY <1>3 DEF F
<1>5. \A i \in 1 .. n : node[i] = s[i]
  <2> DEFINE Bad == {i \in 1 .. n : node[i] # s[i]}
  <2> HIDE DEF Bad
  <2>1. SUFFICES ASSUME Bad # {} PROVE FALSE
    BY Zenon DEF Bad
  <2>2. PICK i \in Bad : \A m \in Bad : i <= m
    <3>1. Bad \subseteq Nat
      BY DEF Bad
    <3> QED BY <2>1, <3>1, LeastNatural, Zenon
  <2>3. i = 1 \/ (i - 1 \in 1 .. n /\ node[i - 1] = s[i - 1])
    BY <2>2 DEF Bad
  <2>4. node[i] = q.next[At(s, i - 1)]
    BY <1>0, <1>4, <2>3, AtFacts DEF Bad
  <2> QED BY <1>1, <2>2, <2>4 DEF Bad
<1>6. Walk(q, n) = [i \in 1 .. n |-> node[i]]
  BY DEF Walk, node, F
<1> QED BY <1>5, <1>6

(* get_all_free_blocks reads the list off.                                 *)
LEMMA AllFreeBlocksIs ==
  ASSUME FiniteFacts, NEW q, NEW s, Linked(q, s), QueueAssumption
  PROVE  AllFreeBlocks(q) = s
<1> DEFINE last(t) == q.next[IF t = <<>> THEN FakeHead ELSE t[Len(t)]]
           w(n) == [i \in 1 .. n |-> s[i]]
<1> HIDE DEF last, w
<1>0. s \in Seq(Block) /\ Len(s) \in Nat /\ q.num = Len(s)
  BY DEF Linked
<1>1. {Walk(q, n) : n \in 0 .. q.num} = {w(n) : n \in 0 .. Len(s)}
  BY <1>0, WalkIs DEF w
<1>2. ASSUME NEW n \in 0 .. Len(s) PROVE last(w(n)) = At(s, n + 1)
  <2>1. CASE n = 0
    <3>1. w(n) = <<>>
      BY <2>1 DEF w
    <3> QED BY <1>0, <2>1, <3>1, AtFacts DEF Linked, last
  <2>2. CASE n > 0
    <3>1. w(n) \in Seq(Block) /\ Len(w(n)) = n /\ w(n)[n] = s[n]
      BY <1>0, <2>2 DEF w
    <3>2. w(n) # <<>>
      BY <3>1, <2>2
    <3> QED BY <1>0, <2>2, <3>1, <3>2, AtFacts DEF Linked, last
  <2> QED BY <2>1, <2>2
<1>3. ASSUME NEW n \in 0 .. Len(s)
      PROVE  last(w(n)) = FakeTail <=> n = Len(s)
  <2>1. n < Len(s) => At(s, n + 1) \in Block
    BY <1>0, AtFacts
  <2>2. At(s, Len(s) + 1) = FakeTail /\ FakeTail \notin Block
    BY <1>0, AtFacts
  <2>3. n = Len(s) \/ n < Len(s)
    BY <1>0
  <2>4. n < Len(s) => n # Len(s)
    BY <1>0
  <2> QED BY <1>2, <2>1, <2>2, <2>3, <2>4
<1>4. w(Len(s)) = s /\ Len(s) \in 0 .. Len(s)
  BY <1>0 DEF w
<1> DEFINE W == {w(n) : n \in 0 .. Len(s)}
<1> HIDE DEF W
<1>5. \E t \in W : last(t) = FakeTail
  BY <1>3, <1>4, Zenon DEF W
<1>6. \A t \in W : last(t) = FakeTail => t = s
  BY <1>3, <1>4, Zenon DEF W
<1> USE DEF w, last
<1>7. AllFreeBlocks(q) = CHOOSE t \in W : last(t) = FakeTail
  BY <1>1, Zenon DEF AllFreeBlocks, W
<1> QED BY <1>5, <1>6, <1>7

-----------------------------------------------------------------------------
\* A list whose fields have their types, whatever its links.
Shaped(q) ==
  /\ q = [prev |-> q.prev, next |-> q.next, num |-> q.num]
  /\ q.prev \in [Node -> Node \cup {None}]
  /\ q.next \in [Node -> Node \cup {None}]

\* p is q but for the nodes of s, linked between l and r.
Threaded(p, q, l, s, r) ==
  LET c == Chain(l, s, r) IN
  /\ p = [prev |-> p.prev, next |-> p.next, num |-> q.num]
  /\ Shaped(p)
  /\ \A i \in 0 .. Len(s) : p.next[c[i]] = c[i + 1] /\ p.prev[c[i + 1]] = c[i]
  /\ \A x \in Node \ Range(s) : /\ x # l => p.next[x] = q.next[x]
                                /\ x # r => p.prev[x] = q.prev[x]

(* LinkBetween changes the links of the nodes it threads, and no others.   *)
LEMMA LinkBetweenIs ==
  ASSUME NEW q, Shaped(q), NEW l \in Node, NEW r \in Node,
         NEW s \in Seq(Block), IsInjective(s), l \notin Range(s), r \notin Range(s)
  PROVE  Threaded(LinkBetween(q, l, s, r), q, l, s, r)
<1> DEFINE p == LinkBetween(q, l, s, r)
           c == Chain(l, s, r)
<1> HIDE DEF p, c
<1> DEFINE after(x)  == {i \in 1 .. Len(s) + 1 : c[i - 1] = x}
           before(x) == {i \in 0 .. Len(s) : c[i + 1] = x}
           nx == [x \in Node |-> IF after(x) = {} THEN q.next[x]
                                 ELSE c[CHOOSE i \in after(x) : TRUE]]
           pv == [x \in Node |-> IF before(x) = {} THEN q.prev[x]
                                 ELSE c[CHOOSE i \in before(x) : TRUE]]
<1> HIDE DEF after, before, nx, pv
<1>1. p = [q EXCEPT !.next = nx, !.prev = pv]
  BY DEF LinkBetween, p, c, after, before, nx, pv
<1>2. p = [prev |-> pv, next |-> nx, num |-> q.num]
  BY <1>1, Zenon DEF Shaped
<1>3. Len(s) \in Nat /\ \A i \in 1 .. Len(s) : s[i] \in Block /\ s[i] \in Range(s)
  BY DEF Range
<1>4. /\ c[0] = l /\ c[Len(s) + 1] = r
      /\ \A i \in 1 .. Len(s) : c[i] = s[i]
      /\ \A i \in 0 .. Len(s) + 1 : c[i] \in Node
  BY <1>3 DEF Chain, c
<1>5. \A i, j \in 0 .. Len(s) : c[i] = c[j] => i = j
  BY <1>3, <1>4 DEF IsInjective
<1>6. \A i, j \in 1 .. Len(s) + 1 : c[i] = c[j] => i = j
  BY <1>3, <1>4 DEF IsInjective
<1>7. ASSUME NEW i \in 0 .. Len(s) PROVE nx[c[i]] = c[i + 1] /\ pv[c[i + 1]] = c[i]
  <2>1. after(c[i]) = {i + 1}
    BY <1>3, <1>5 DEF after
  <2>2. before(c[i + 1]) = {i}
    BY <1>3, <1>6 DEF before
  <2>3. c[i] \in Node /\ c[i + 1] \in Node
    BY <1>3, <1>4
  <2> QED BY <2>1, <2>2, <2>3, Zenon DEF nx, pv
<1>8. ASSUME NEW x \in Node, x \notin Range(s)
      PROVE  /\ x # l => nx[x] = q.next[x]
             /\ x # r => pv[x] = q.prev[x]
  <2>1. x # l => after(x) = {}
    BY <1>3, <1>4, <1>8 DEF after
  <2>2. x # r => before(x) = {}
    BY <1>3, <1>4, <1>8 DEF before
  <2> QED BY <2>1, <2>2 DEF nx, pv
<1>9. nx \in [Node -> Node \cup {None}] /\ pv \in [Node -> Node \cup {None}]
  <2>1. ASSUME NEW x \in Node PROVE nx[x] \in Node \cup {None}
    <3>1. CASE after(x) = {}
      BY <3>1 DEF Shaped, nx
    <3>2. CASE after(x) # {}
      <4>1. PICK i \in after(x) : i = CHOOSE j \in after(x) : TRUE
        BY <3>2, Zenon
      <4>2. i \in 0 .. Len(s) + 1
        BY <1>3, <4>1 DEF after
      <4>3. nx[x] = c[i]
        BY <3>2, <4>1 DEF nx
      <4> QED BY <1>4, <4>2, <4>3
    <3> QED BY <3>1, <3>2
  <2>2. ASSUME NEW x \in Node PROVE pv[x] \in Node \cup {None}
    <3>1. CASE before(x) = {}
      BY <3>1 DEF Shaped, pv
    <3>2. CASE before(x) # {}
      <4>1. PICK i \in before(x) : i = CHOOSE j \in before(x) : TRUE
        BY <3>2, Zenon
      <4>2. i \in 0 .. Len(s) + 1
        BY <1>3, <4>1 DEF before
      <4>3. pv[x] = c[i]
        BY <3>2, <4>1 DEF pv
      <4> QED BY <1>4, <4>2, <4>3
    <3> QED BY <3>1, <3>2
  <2>3. \A x \in Node : nx[x] \in Node \cup {None} /\ pv[x] \in Node \cup {None}
    BY <2>1, <2>2, Zenon
  <2>4. nx = [x \in Node |-> nx[x]] /\ pv = [x \in Node |-> pv[x]]
    BY DEF nx, pv
  <2> QED BY <2>3, <2>4
<1>10. Threaded(p, q, l, s, r)
  BY <1>2, <1>7, <1>8, <1>9 DEF Threaded, Shaped, c
<1> QED BY <1>10 DEF p

(* No node occurs twice in a list.                                         *)
LEMMA AtInjective ==
  ASSUME NEW s \in Seq(Block), IsInjective(s), QueueAssumption
  PROVE  \A i, j \in 0 .. Len(s) + 1 : At(s, i) = At(s, j) => i = j
<1>1. Len(s) \in Nat /\ DOMAIN s = 1 .. Len(s)
  OBVIOUS
<1> QED BY <1>1, AtFacts DEF IsInjective

(* The fields of a well-linked list, and that one of its nodes is not in   *)
(* a sequence of other blocks.                                             *)
LEMMA LinkedFacts ==
  ASSUME NEW q, NEW s, Linked(q, s)
  PROVE  /\ s \in Seq(Block) /\ IsInjective(s) /\ Len(s) \in Nat
         /\ DOMAIN s = 1 .. Len(s) /\ Range(s) \subseteq Block
         /\ Shaped(q) /\ q.num = Len(s)
         /\ \A i \in 1 .. Len(s) : s[i] \in Range(s)
  BY DEF Linked, Shaped, Range

(* __init__ links all the blocks.                                          *)
LEMMA NewQueueLinked ==
  ASSUME FiniteFacts, NEW s \in Orderings(Block), QueueAssumption
  PROVE  Linked(NewQueue(s), s)
<1> DEFINE n == [x \in Node |-> None]
           q == [prev |-> n, next |-> n, num |-> Len(s)]
           p == NewQueue(s)
           c == Chain(FakeHead, s, FakeTail)
<1> HIDE DEF n, q, p, c
<1>1. /\ s \in [1 .. Cardinality(Block) -> Block] /\ IsInjective(s)
      /\ \A b \in Block : \E i \in 1 .. Cardinality(Block) : s[i] = b
  BY DEF Orderings, Bijection, Injection, Surjection
<1>2. Cardinality(Block) \in Nat
  BY FiniteSubset
<1>3. s \in Seq(Block) /\ Len(s) = Cardinality(Block) /\ DOMAIN s = 1 .. Len(s)
  BY <1>1, <1>2
<1>4. Range(s) = Block
  BY <1>1, <1>2 DEF Range
<1>5. Shaped(q) /\ q.num = Len(s) /\ q.prev = n /\ q.next = n
  BY DEF Shaped, n, q
<1>6. FakeHead \in Node /\ FakeTail \in Node
      /\ FakeHead \notin Range(s) /\ FakeTail \notin Range(s) /\ FakeHead # FakeTail
  BY <1>4 DEF Node
<1>7. p = LinkBetween(q, FakeHead, s, FakeTail)
  BY DEF NewQueue, n, q, p
<1>8. \A i \in 0 .. Len(s) + 1 : c[i] = At(s, i)
  BY <1>3 DEF Chain, At, c
<1>9. /\ p = [prev |-> p.prev, next |-> p.next, num |-> q.num]
      /\ Shaped(p)
      /\ \A i \in 0 .. Len(s) : p.next[c[i]] = c[i + 1] /\ p.prev[c[i + 1]] = c[i]
      /\ \A x \in Node \ Range(s) : /\ x # FakeHead => p.next[x] = q.next[x]
                                    /\ x # FakeTail => p.prev[x] = q.prev[x]
  <2>1. Threaded(p, q, FakeHead, s, FakeTail)
    BY <1>1, <1>3, <1>5, <1>6, <1>7, LinkBetweenIs
  <2> QED BY <2>1 DEF Threaded, c
<1>10. \A i \in 0 .. Len(s) :
         p.next[At(s, i)] = At(s, i + 1) /\ p.prev[At(s, i + 1)] = At(s, i)
  BY <1>3, <1>8, <1>9
<1>11. p.next[FakeTail] = None /\ p.prev[FakeHead] = None
  BY <1>5, <1>6, <1>9 DEF n
<1> QED BY <1>1, <1>3, <1>4, <1>5, <1>9, <1>10, <1>11 DEF Linked, Shaped, p

(* The blocks of a concatenation.                                          *)
LEMMA RangeConcat ==
  ASSUME NEW s \in Seq(Block), NEW t \in Seq(Block)
  PROVE  Range(s \o t) = Range(s) \cup Range(t)
<1> DEFINE u == s \o t
<1> HIDE DEF u
<1>1. /\ u \in Seq(Block) /\ Len(u) = Len(s) + Len(t) /\ Len(t) \in Nat /\ Len(s) \in Nat
      /\ \A i \in 1 .. Len(s) : u[i] = s[i]
      /\ \A i \in 1 .. Len(t) : u[Len(s) + i] = t[i]
      /\ DOMAIN u = 1 .. Len(u) /\ DOMAIN t = 1 .. Len(t) /\ DOMAIN s = 1 .. Len(s)
  BY DEF u
<1>2. ASSUME NEW i \in 1 .. Len(u) PROVE u[i] \in Range(s) \cup Range(t)
  <2>1. i \in 1 .. Len(s) \/ (i - Len(s) \in 1 .. Len(t) /\ i = Len(s) + (i - Len(s)))
    BY <1>1
  <2> QED BY <1>1, <2>1, Zenon DEF Range
<1>3. ASSUME NEW i \in 1 .. Len(s) PROVE s[i] \in Range(u)
  BY <1>1 DEF Range
<1>4. ASSUME NEW i \in 1 .. Len(t) PROVE t[i] \in Range(u)
  <2>1. Len(s) + i \in 1 .. Len(u)
    BY <1>1
  <2> QED BY <1>1, <2>1 DEF Range
<1>5. Range(u) = Range(s) \cup Range(t)
  BY <1>1, <1>2, <1>3, <1>4, Zenon DEF Range
<1> QED BY <1>5 DEF u

(* A concatenation of sequences without a block in common.                 *)
LEMMA InjectiveConcat ==
  ASSUME NEW s \in Seq(Block), NEW t \in Seq(Block), IsInjective(s), IsInjective(t),
         Range(s) \cap Range(t) = {}
  PROVE  IsInjective(s \o t)
<1> DEFINE u == s \o t
<1> HIDE DEF u
<1>1. /\ u \in Seq(Block) /\ Len(u) = Len(s) + Len(t) /\ Len(t) \in Nat /\ Len(s) \in Nat
      /\ \A i \in 1 .. Len(s) : u[i] = s[i] /\ s[i] \in Range(s)
      /\ \A i \in 1 .. Len(t) : u[Len(s) + i] = t[i] /\ t[i] \in Range(t)
      /\ DOMAIN u = 1 .. Len(u) /\ DOMAIN t = 1 .. Len(t) /\ DOMAIN s = 1 .. Len(s)
  BY DEF Range, u
<1> QED BY <1>1 DEF IsInjective

(* append_n puts blocks that are not in the list at its end.               *)
LEMMA AppendNLinked ==
  ASSUME NEW q, NEW s, Linked(q, s), QueueAssumption,
         NEW t \in Seq(Block), IsInjective(t), Range(t) \cap Range(s) = {}
  PROVE  Linked(AppendN(q, t), s \o t)
<1> DEFINE u == s \o t
           l == q.prev[FakeTail]
           b == LinkBetween(q, l, t, FakeTail)
           p == AppendN(q, t)
           c == Chain(l, t, FakeTail)
<1> HIDE DEF u, l, b, p, c
<1>0. /\ s \in Seq(Block) /\ IsInjective(s) /\ Len(s) \in Nat
      /\ DOMAIN s = 1 .. Len(s) /\ Range(s) \subseteq Block
      /\ Shaped(q) /\ q.num = Len(s)
      /\ \A i \in 1 .. Len(s) : s[i] \in Range(s)
  BY LinkedFacts
<1>1. CASE t = <<>>
  <2>1. p = q /\ u = s
    BY <1>0, <1>1 DEF AppendN, u, p
  <2> QED BY <2>1 DEF u, p
<1>2. CASE t # <<>>
  <2>1. l = At(s, Len(s)) /\ At(s, Len(s) + 1) = FakeTail
    BY <1>0, AtFacts DEF Linked, l
  <2>2. /\ l \in Node /\ FakeTail \in Node /\ l # FakeTail
        /\ l \notin Range(t) /\ FakeTail \notin Range(t)
    <3>1. l \in Node /\ FakeTail \in Node
      BY <1>0, <2>1, AtFacts
    <3>2. l # FakeTail
      BY <1>0, <2>1, AtInjective
    <3>3. Range(t) \subseteq Block
      BY DEF Range
    <3>4. l \in Range(s) \/ l = FakeHead
      BY <1>0, <2>1, AtFacts
    <3> QED BY <3>1, <3>2, <3>3, <3>4
  <2>3. /\ b = [prev |-> b.prev, next |-> b.next, num |-> q.num]
        /\ Shaped(b)
        /\ \A i \in 0 .. Len(t) : b.next[c[i]] = c[i + 1] /\ b.prev[c[i + 1]] = c[i]
        /\ \A x \in Node \ Range(t) : /\ x # l => b.next[x] = q.next[x]
                                      /\ x # FakeTail => b.prev[x] = q.prev[x]
    <3>1. Threaded(b, q, l, t, FakeTail)
      BY <1>0, <2>2, LinkBetweenIs DEF b
    <3> QED BY <3>1 DEF Threaded, c
  <2>4. p = [b EXCEPT !.num = @ + Len(t)]
    BY <1>2 DEF AppendN, b, l, p
  <2>5. p = [prev |-> b.prev, next |-> b.next, num |-> Len(u)]
    <3>1. Len(u) = q.num + Len(t)
      BY <1>0 DEF u
    <3>2. b.num = q.num
      BY <2>3
    <3> QED BY <2>3, <2>4, <3>1, <3>2
  <2>6. /\ u \in Seq(Block) /\ Len(u) = Len(s) + Len(t) /\ Len(t) \in Nat
        /\ \A i \in 1 .. Len(s) : u[i] = s[i]
        /\ \A i \in 1 .. Len(t) : u[Len(s) + i] = t[i] /\ t[i] \in Range(t)
    BY <1>0 DEF Range, u
  <2>7. IsInjective(u)
    BY <1>0, InjectiveConcat DEF u
  <2>8. \A i \in 0 .. Len(s) : At(u, i) = At(s, i)
    BY <1>0, <2>6, <1>2 DEF At
  <2>9. \A i \in 0 .. Len(t) + 1 : At(u, Len(s) + i) = c[i]
    <3>1. /\ c[0] = l /\ c[Len(t) + 1] = FakeTail
          /\ \A i \in 1 .. Len(t) : c[i] = t[i]
      BY <2>6 DEF c, Chain
    <3>2. At(u, Len(s) + 0) = l
      BY <1>0, <2>1, <2>8
    <3>3. \A i \in 1 .. Len(t) : At(u, Len(s) + i) = t[i]
      BY <1>0, <2>6 DEF At
    <3>4. At(u, Len(s) + (Len(t) + 1)) = FakeTail
      BY <1>0, <2>6 DEF At
    <3>5. \A i \in 0 .. Len(t) + 1 : i = 0 \/ i \in 1 .. Len(t) \/ i = Len(t) + 1
      BY <2>6
    <3> QED BY <3>1, <3>2, <3>3, <3>4, <3>5, Zenon
  <2>10. ASSUME NEW i \in 0 .. Len(u)
         PROVE  b.next[At(u, i)] = At(u, i + 1) /\ b.prev[At(u, i + 1)] = At(u, i)
    <3>1. CASE i < Len(s)
      <4>1. /\ At(u, i) = At(s, i) /\ At(u, i + 1) = At(s, i + 1)
            /\ At(s, i) \in Node /\ At(s, i + 1) \in Node
        BY <1>0, <2>6, <2>8, <3>1, AtFacts
      <4>2. At(s, i) # l /\ At(s, i + 1) # FakeTail
        BY <1>0, <2>1, <3>1, AtInjective
      <4>3. At(s, i) \notin Range(t) /\ At(s, i + 1) \notin Range(t)
        <5>1. \A j \in 0 .. Len(s) : At(s, j) \in Range(s) \/ At(s, j) = FakeHead
          BY <1>0, AtFacts
        <5>2. FakeHead \notin Range(t)
          BY DEF Range
        <5> QED BY <1>0, <3>1, <5>1, <5>2
      <4>4. q.next[At(s, i)] = At(s, i + 1) /\ q.prev[At(s, i + 1)] = At(s, i)
        BY <1>0, <3>1 DEF Linked
      <4> QED BY <2>3, <4>1, <4>2, <4>3, <4>4
    <3>2. CASE i >= Len(s)
      <4>1. PICK j \in 0 .. Len(t) : i = Len(s) + j
        <5>1. i - Len(s) \in 0 .. Len(t) /\ i = Len(s) + (i - Len(s))
          BY <1>0, <2>6, <3>2
        <5> QED BY <5>1
      <4>2. At(u, i) = c[j] /\ At(u, i + 1) = c[j + 1]
        <5>1. i + 1 = Len(s) + (j + 1) /\ j + 1 \in 0 .. Len(t) + 1 /\ j \in 0 .. Len(t) + 1
          BY <1>0, <2>6, <4>1
        <5> QED BY <2>9, <4>1, <5>1
      <4> QED BY <2>3, <4>1, <4>2
    <3> QED BY <1>0, <3>1, <3>2
  <2>11. Range(u) = Range(s) \cup Range(t)
    BY <1>0, RangeConcat DEF u
  <2>12. b.next[FakeTail] = None /\ b.prev[FakeHead] = None
    <3>1. FakeHead \notin Range(t) /\ FakeHead # FakeTail /\ FakeHead \in Node
      BY DEF Range, Node
    <3> QED BY <2>2, <2>3, <3>1 DEF Linked
  <2>13. ASSUME NEW x \in Block \ Range(u) PROVE b.prev[x] = None /\ b.next[x] = None
    <3>1. x \in Node \ Range(t) /\ x # FakeTail /\ x \in Block \ Range(s)
      BY <2>11 DEF Node
    <3>2. x # l
      <4>1. l \in Range(s) \/ l = FakeHead
        BY <1>0, <2>1, AtFacts
      <4> QED BY <3>1, <4>1
    <3> QED BY <2>3, <3>1, <3>2 DEF Linked
  <2>14. p.prev = b.prev /\ p.next = b.next /\ p.num = Len(u)
         /\ p = [prev |-> p.prev, next |-> p.next, num |-> Len(u)]
    BY <2>5
  <2>15. b.prev \in [Node -> Node \cup {None}] /\ b.next \in [Node -> Node \cup {None}]
    BY <2>3 DEF Shaped
  <2>16. Linked(p, u)
    BY <2>6, <2>7, <2>10, <2>12, <2>13, <2>14, <2>15, Zenon DEF Linked
  <2> QED BY <2>16 DEF p, u
<1> QED BY <1>1, <1>2

(* prepend_n puts blocks that are not in the list at its front.            *)
LEMMA PrependNLinked ==
  ASSUME NEW q, NEW s, Linked(q, s), QueueAssumption,
         NEW t \in Seq(Block), IsInjective(t), Range(t) \cap Range(s) = {}
  PROVE  Linked(PrependN(q, t), t \o s)
<1> DEFINE u == t \o s
           r == q.next[FakeHead]
           b == LinkBetween(q, FakeHead, t, r)
           p == PrependN(q, t)
           c == Chain(FakeHead, t, r)
<1> HIDE DEF u, r, b, p, c
<1>0. /\ s \in Seq(Block) /\ IsInjective(s) /\ Len(s) \in Nat
      /\ DOMAIN s = 1 .. Len(s) /\ Range(s) \subseteq Block
      /\ Shaped(q) /\ q.num = Len(s)
      /\ \A i \in 1 .. Len(s) : s[i] \in Range(s)
  BY LinkedFacts
<1>1. CASE t = <<>>
  <2>1. p = q /\ u = s
    BY <1>0, <1>1 DEF PrependN, u, p
  <2> QED BY <2>1 DEF u, p
<1>2. CASE t # <<>>
  <2>1. r = At(s, 1) /\ At(s, 0) = FakeHead /\ At(s, Len(s) + 1) = FakeTail
    BY <1>0, AtFacts DEF Linked, r
  <2>2. r \in Range(s) \/ r = FakeTail
    BY <1>0, <2>1 DEF At
  <2>3. /\ r \in Node /\ FakeHead \in Node /\ r # FakeHead
        /\ r \notin Range(t) /\ FakeHead \notin Range(t) /\ FakeTail \notin Range(t)
    <3>1. Range(t) \subseteq Block
      BY DEF Range
    <3> QED BY <1>0, <2>2, <3>1 DEF Node
  <2>4. /\ b = [prev |-> b.prev, next |-> b.next, num |-> q.num]
        /\ Shaped(b)
        /\ \A i \in 0 .. Len(t) : b.next[c[i]] = c[i + 1] /\ b.prev[c[i + 1]] = c[i]
        /\ \A x \in Node \ Range(t) : /\ x # FakeHead => b.next[x] = q.next[x]
                                      /\ x # r => b.prev[x] = q.prev[x]
    <3>1. Threaded(b, q, FakeHead, t, r)
      BY <1>0, <2>3, LinkBetweenIs DEF b
    <3> QED BY <3>1 DEF Threaded, c
  <2>5. p = [b EXCEPT !.num = @ + Len(t)]
    BY <1>2 DEF PrependN, b, r, p
  <2>6. p = [prev |-> b.prev, next |-> b.next, num |-> Len(u)]
    <3>1. Len(u) = q.num + Len(t)
      BY <1>0 DEF u
    <3>2. b.num = q.num
      BY <2>4
    <3> QED BY <2>4, <2>5, <3>1, <3>2
  <2>7. /\ u \in Seq(Block) /\ Len(u) = Len(t) + Len(s) /\ Len(t) \in Nat
        /\ \A i \in 1 .. Len(t) : u[i] = t[i] /\ t[i] \in Range(t)
        /\ \A i \in 1 .. Len(s) : u[Len(t) + i] = s[i]
    BY <1>0 DEF Range, u
  <2>8. IsInjective(u) /\ Range(u) = Range(t) \cup Range(s)
    BY <1>0, InjectiveConcat, RangeConcat DEF u
  <2>9. \A j \in 1 .. Len(s) + 1 : At(u, Len(t) + j) = At(s, j)
    BY <1>0, <2>7 DEF At
  <2>10. \A i \in 0 .. Len(t) + 1 : At(u, i) = c[i]
    <3>1. /\ c[0] = FakeHead /\ c[Len(t) + 1] = At(s, 1)
          /\ \A i \in 1 .. Len(t) : c[i] = t[i]
      BY <2>1, <2>7 DEF c, Chain
    <3>2. At(u, 0) = FakeHead /\ \A i \in 1 .. Len(t) : At(u, i) = t[i]
      BY <1>0, <2>7 DEF At
    <3>3. At(u, Len(t) + 1) = At(s, 1)
      BY <1>0, <2>9
    <3>4. \A i \in 0 .. Len(t) + 1 : i = 0 \/ i \in 1 .. Len(t) \/ i = Len(t) + 1
      BY <2>7
    <3> QED BY <3>1, <3>2, <3>3, <3>4, Zenon
  <2>11. ASSUME NEW i \in 0 .. Len(u)
         PROVE  b.next[At(u, i)] = At(u, i + 1) /\ b.prev[At(u, i + 1)] = At(u, i)
    <3>1. CASE i <= Len(t)
      <4>1. i \in 0 .. Len(t) /\ At(u, i) = c[i] /\ At(u, i + 1) = c[i + 1]
        BY <2>7, <2>10, <3>1
      <4> QED BY <2>4, <4>1
    <3>2. CASE i > Len(t)
      <4>1. PICK j \in 1 .. Len(s) : i = Len(t) + j
        <5>1. i - Len(t) \in 1 .. Len(s) /\ i = Len(t) + (i - Len(t))
          BY <1>0, <2>7, <3>2
        <5> QED BY <5>1, Zenon
      <4>2. At(u, i) = At(s, j) /\ At(u, i + 1) = At(s, j + 1)
        <5>1. \A k, m \in Nat : \A n \in 1 .. m :
                /\ (k + n) + 1 = k + (n + 1)
                /\ n + 1 \in 1 .. m + 1 /\ n \in 1 .. m + 1
          OBVIOUS
        <5>2. i + 1 = Len(t) + (j + 1) /\ j + 1 \in 1 .. Len(s) + 1 /\ j \in 1 .. Len(s) + 1
          BY <1>0, <4>1, <5>1
        <5> QED BY <2>9, <4>1, <5>2
      <4>3. At(s, j) # FakeHead /\ At(s, j + 1) # r
        BY <1>0, <2>1, <4>1, AtInjective
      <4>4. /\ At(s, j) \in Node /\ At(s, j + 1) \in Node
            /\ At(s, j) \notin Range(t) /\ At(s, j + 1) \notin Range(t)
        <5>1. \A k \in 1 .. Len(s) + 1 : At(s, k) \in Range(s) \/ At(s, k) = FakeTail
          BY <1>0 DEF At
        <5> QED BY <1>0, <2>3, <4>1, <5>1, AtFacts
      <4>5. q.next[At(s, j)] = At(s, j + 1) /\ q.prev[At(s, j + 1)] = At(s, j)
        BY <1>0, <4>1 DEF Linked
      <4> QED BY <2>4, <4>2, <4>3, <4>4, <4>5
    <3> QED BY <2>7, <3>1, <3>2
  <2>12. b.next[FakeTail] = None /\ b.prev[FakeHead] = None
    <3>1. FakeTail \in Node /\ FakeHead # FakeTail
      BY DEF Node
    <3> QED BY <2>3, <2>4, <3>1 DEF Linked
  <2>13. ASSUME NEW x \in Block \ Range(u) PROVE b.prev[x] = None /\ b.next[x] = None
    <3>1. x \in Node \ Range(t) /\ x # FakeHead /\ x # FakeTail /\ x \in Block \ Range(s)
      BY <2>8 DEF Node
    <3>2. x # r
      BY <2>2, <3>1
    <3> QED BY <2>4, <3>1, <3>2 DEF Linked
  <2>14. p.prev = b.prev /\ p.next = b.next
         /\ p = [prev |-> p.prev, next |-> p.next, num |-> Len(u)]
    BY <2>6
  <2>15. b.prev \in [Node -> Node \cup {None}] /\ b.next \in [Node -> Node \cup {None}]
    BY <2>4 DEF Shaped
  <2>16. Linked(p, u)
    BY <2>7, <2>8, <2>11, <2>12, <2>13, <2>14, <2>15, Zenon DEF Linked
  <2> QED BY <2>16 DEF p, u
<1> QED BY <1>1, <1>2

(* What is left of a sequence without its first n elements.                *)
LEMMA RestFacts ==
  ASSUME NEW s \in Seq(Block), NEW n \in 1 .. Len(s)
  PROVE  /\ SubSeq(s, n + 1, Len(s)) \in Seq(Block)
         /\ Len(SubSeq(s, n + 1, Len(s))) = Len(s) - n
         /\ \A i \in 1 .. Len(s) - n : SubSeq(s, n + 1, Len(s))[i] = s[n + i]
<1>1. SubSeq(s, n + 1, Len(s)) \in Seq(Block)
  OBVIOUS
<1>2. Len(SubSeq(s, n + 1, Len(s))) = Len(s) - n
  <2>1. CASE n < Len(s)
    BY <2>1
  <2>2. CASE n = Len(s)
    BY <2>2
  <2> QED BY <2>1, <2>2
<1>3. \A i \in 1 .. Len(s) - n : SubSeq(s, n + 1, Len(s))[i] = s[n + i]
  OBVIOUS
<1> QED BY <1>1, <1>2, <1>3

(* popleft_n takes the first n blocks.                                     *)
LEMMA PopleftNLinked ==
  ASSUME FiniteFacts, NEW q, NEW s, Linked(q, s), QueueAssumption, NEW n \in 1 .. Len(s)
  PROVE  Linked(PopleftN(q, n), SubSeq(s, n + 1, Len(s)))
<1> DEFINE u == SubSeq(s, n + 1, Len(s))
           ret == [i \in 1 .. n |-> s[i]]
           rest == At(s, n + 1)
           cut == [x \in Node |-> IF x \in Range(ret) THEN None ELSE q.next[x]]
           cutPrev == [x \in Node |-> IF x \in Range(ret) THEN None ELSE q.prev[x]]
           nx == [cut EXCEPT ![FakeHead] = rest]
           pv == [cutPrev EXCEPT ![rest] = FakeHead]
           p == PopleftN(q, n)
<1> HIDE DEF u, ret, rest, cut, cutPrev, nx, pv, p
<1>0. /\ s \in Seq(Block) /\ IsInjective(s) /\ Len(s) \in Nat
      /\ DOMAIN s = 1 .. Len(s) /\ Range(s) \subseteq Block
      /\ Shaped(q) /\ q.num = Len(s)
      /\ \A i \in 1 .. Len(s) : s[i] \in Range(s)
  BY LinkedFacts
<1>1. Walk(q, n) = ret /\ ret[n] = s[n]
  BY <1>0, WalkIs DEF ret
<1>2. q.next[s[n]] = rest /\ rest \in Node /\ rest # None
  <2>1. q.next[At(s, n)] = At(s, n + 1) /\ At(s, n) = s[n]
    BY <1>0, AtFacts DEF Linked
  <2>2. rest \in Node
    BY <1>0, AtFacts DEF rest
  <2> QED BY <2>1, <2>2 DEF rest
<1>3. Range(ret) = {s[i] : i \in 1 .. n}
  BY <1>0, Zenon DEF Range, ret
<1>4. p = [prev |-> pv, next |-> nx, num |-> q.num - n]
  BY <1>1, <1>2 DEF PopleftN, cut, cutPrev, nx, pv, p
<1>5. /\ u \in Seq(Block) /\ Len(u) = Len(s) - n
      /\ \A i \in 1 .. Len(u) : u[i] = s[n + i]
  BY <1>0, RestFacts, Zenon DEF u
<1>6. IsInjective(u)
  <2>1. DOMAIN u = 1 .. Len(u)
    BY <1>5
  <2>2. SUFFICES ASSUME NEW i \in 1 .. Len(u), NEW j \in 1 .. Len(u), u[i] = u[j]
                 PROVE  i = j
    BY <2>1 DEF IsInjective
  <2>3. n + i \in DOMAIN s /\ n + j \in DOMAIN s /\ s[n + i] = s[n + j]
    <3>1. n + i \in 1 .. Len(s) /\ n + j \in 1 .. Len(s)
      BY <1>0, <1>5
    <3>2. s[n + i] = s[n + j]
      BY <1>5, <2>2
    <3> QED BY <1>0, <3>1, <3>2
  <2>4. n + i = n + j
    BY <1>0, <2>3, Zenon DEF IsInjective
  <2> QED BY <1>0, <2>4
<1>7. Range(u) = {s[i] : i \in n + 1 .. Len(s)}
  <2>1. DOMAIN u = 1 .. Len(u)
    BY <1>5
  <2>2. Len(s) \in Nat /\ Len(u) = Len(s) - n
    BY <1>0, <1>5
  <2>3. ASSUME NEW i \in 1 .. Len(u) PROVE n + i \in n + 1 .. Len(s) /\ u[i] = s[n + i]
    <3>1. n + i \in n + 1 .. Len(s)
      BY <2>2
    <3> QED BY <1>5, <3>1
  <2>4. ASSUME NEW i \in n + 1 .. Len(s) PROVE i - n \in 1 .. Len(u) /\ u[i - n] = s[i]
    <3>1. i - n \in 1 .. Len(u) /\ n + (i - n) = i
      BY <2>2
    <3> QED BY <1>5, <3>1
  <2> QED BY <2>1, <2>3, <2>4, Zenon DEF Range
<1>8. At(u, 0) = FakeHead /\ \A j \in 1 .. Len(u) + 1 : At(u, j) = At(s, n + j)
  BY <1>0, <1>5 DEF At
<1>9. \A j \in n + 1 .. Len(s) + 1 : At(s, j) \notin Range(ret) /\ At(s, j) # FakeHead
                                     /\ At(s, j) \in Node
  <2>1. \A j \in n + 1 .. Len(s) + 1, i \in 0 .. n : At(s, i) # At(s, j)
    BY <1>0, AtInjective
  <2>2. \A i \in 1 .. n : At(s, i) = s[i]
    BY <1>0, AtFacts
  <2>3. \A j \in n + 1 .. Len(s) + 1 : At(s, j) \in Node /\ At(s, 0) = FakeHead
    BY <1>0, AtFacts
  <2> QED BY <1>3, <2>1, <2>2, <2>3
<1>10. FakeHead \in Node /\ FakeTail \in Node /\ FakeHead # FakeTail
       /\ FakeHead \notin Range(ret) /\ FakeTail \notin Range(ret) /\ Range(ret) \subseteq Block
       /\ rest # FakeHead
  <2>1. Range(ret) \subseteq Block
    BY <1>0, <1>3
  <2>2. rest # FakeHead
    <3>1. n + 1 \in n + 1 .. Len(s) + 1
      BY <1>0
    <3> QED BY <1>9, <3>1 DEF rest
  <2> QED BY <2>1, <2>2 DEF Node
<1>11. /\ nx \in [Node -> Node \cup {None}] /\ pv \in [Node -> Node \cup {None}]
       /\ nx[FakeHead] = rest /\ pv[rest] = FakeHead
       /\ \A x \in Node : x # FakeHead /\ x \notin Range(ret) => nx[x] = q.next[x]
       /\ \A x \in Node : x # rest /\ x \notin Range(ret) => pv[x] = q.prev[x]
       /\ \A x \in Range(ret) : x # FakeHead /\ x # rest => nx[x] = None /\ pv[x] = None
  <2>1. cut \in [Node -> Node \cup {None}] /\ cutPrev \in [Node -> Node \cup {None}]
    BY <1>0 DEF Shaped, cut, cutPrev
  <2>2. \A x \in Node : /\ cut[x] = IF x \in Range(ret) THEN None ELSE q.next[x]
                        /\ cutPrev[x] = IF x \in Range(ret) THEN None ELSE q.prev[x]
    BY DEF cut, cutPrev
  <2>3. Range(ret) \subseteq Node
    BY <1>10 DEF Node
  <2> QED BY <1>2, <1>10, <2>1, <2>2, <2>3 DEF nx, pv
<1>12. ASSUME NEW j \in 0 .. Len(u)
       PROVE  nx[At(u, j)] = At(u, j + 1) /\ pv[At(u, j + 1)] = At(u, j)
  <2>1. CASE j = 0
    <3>1. At(u, j) = FakeHead /\ At(u, j + 1) = rest
      BY <1>0, <1>5, <1>8, <2>1 DEF rest
    <3> QED BY <1>11, <3>1
  <2>2. CASE j > 0
    <3>1. At(u, j) = At(s, n + j) /\ At(u, j + 1) = At(s, n + j + 1)
      BY <1>0, <1>5, <1>8, <2>2
    <3>2. q.next[At(s, n + j)] = At(s, n + j + 1) /\ q.prev[At(s, n + j + 1)] = At(s, n + j)
      <4>1. n + j \in 0 .. Len(s)
        BY <1>0, <1>5, <2>2
      <4> QED BY <4>1 DEF Linked
    <3>3. /\ At(s, n + j) \notin Range(ret) /\ At(s, n + j) # FakeHead
          /\ At(s, n + j) \in Node /\ At(s, n + j + 1) \in Node
          /\ At(s, n + j + 1) \notin Range(ret)
      <4>1. n + j \in n + 1 .. Len(s) + 1 /\ n + j + 1 \in n + 1 .. Len(s) + 1
        BY <1>0, <1>5, <2>2
      <4> QED BY <1>9, <4>1
    <3>4. At(s, n + j + 1) # rest
      <4>1. n + j + 1 \in 0 .. Len(s) + 1 /\ n + 1 \in 0 .. Len(s) + 1 /\ n + j + 1 # n + 1
        BY <1>0, <1>5, <2>2
      <4> QED BY <1>0, <4>1, AtInjective DEF rest
    <3> QED BY <1>11, <3>1, <3>2, <3>3, <3>4
  <2> QED BY <1>5, <2>1, <2>2
<1>13. nx[FakeTail] = None /\ pv[FakeHead] = None
  BY <1>10, <1>11 DEF Linked
<1>14. ASSUME NEW x \in Block \ Range(u) PROVE pv[x] = None /\ nx[x] = None
  <2>1. x \in Node /\ x # FakeHead
    BY DEF Node
  <2>2. x # rest
    <3>1. n + 1 <= Len(s) => s[n + 1] \in Range(u)
      BY <1>0, <1>7
    <3>2. rest = IF n + 1 <= Len(s) THEN s[n + 1] ELSE FakeTail
      BY <1>0 DEF rest, At
    <3> QED BY <3>1, <3>2
  <2>3. CASE x \in Range(ret)
    BY <1>11, <2>1, <2>2, <2>3
  <2>4. CASE x \notin Range(ret)
    <3>1. x \notin Range(s)
      <4>1. \A i \in 1 .. Len(s) : i \in 1 .. n \/ i \in n + 1 .. Len(s)
        BY <1>0
      <4> QED BY <1>0, <1>3, <1>7, <2>4, <4>1, Zenon DEF Range
    <3> QED BY <1>11, <2>1, <2>2, <2>4, <3>1 DEF Linked
  <2> QED BY <2>3, <2>4
<1>15. p.prev = pv /\ p.next = nx /\ p = [prev |-> p.prev, next |-> p.next, num |-> Len(u)]
  BY <1>0, <1>4, <1>5
<1>16. Linked(p, u)
  BY <1>5, <1>6, <1>11, <1>12, <1>13, <1>14, <1>15, Zenon DEF Linked
<1> QED BY <1>16 DEF p, u

\* The sequence s without its element k.
Cut(s, k) == [j \in 1 .. Len(s) - 1 |-> IF j < k THEN s[j] ELSE s[j + 1]]

(* What is left when one block is taken out.                               *)
LEMMA CutFacts ==
  ASSUME NEW s \in Seq(Block), IsInjective(s), NEW k \in 1 .. Len(s)
  PROVE  /\ Cut(s, k) \in Seq(Block) /\ Len(Cut(s, k)) = Len(s) - 1
         /\ \A j \in 1 .. Len(s) - 1 : Cut(s, k)[j] = IF j < k THEN s[j] ELSE s[j + 1]
         /\ IsInjective(Cut(s, k))
         /\ Range(Cut(s, k)) = Range(s) \ {s[k]}
<1> DEFINE u == Cut(s, k)
           n == Len(s) - 1
<1> HIDE DEF u, n
<1>1. Len(s) \in Nat /\ DOMAIN s = 1 .. Len(s) /\ n \in Nat /\ k \in 1 .. n + 1
      /\ \A i \in 1 .. Len(s) : s[i] \in Block
  BY DEF n
<1>2. u = [j \in 1 .. n |-> IF j < k THEN s[j] ELSE s[j + 1]]
  BY DEF Cut, u, n
<1>3. u \in [1 .. n -> Block]
  <2>1. \A j \in 1 .. n : (IF j < k THEN s[j] ELSE s[j + 1]) \in Block
    BY <1>1 DEF n
  <2> QED BY <1>2, <2>1
<1>4. u \in Seq(Block) /\ Len(u) = n /\ DOMAIN u = 1 .. n
  <2>1. n \in Nat
    BY <1>1
  <2> QED BY <1>3, <2>1
<1>5. \A j \in 1 .. n : u[j] = IF j < k THEN s[j] ELSE s[j + 1]
  BY <1>2
<1>6. ASSUME NEW i \in 1 .. n, NEW j \in 1 .. n, u[i] = u[j] PROVE i = j
  <2> DEFINE f(x) == IF x < k THEN x ELSE x + 1
  <2> HIDE DEF f
  <2>1. f(i) \in DOMAIN s /\ f(j) \in DOMAIN s
    BY <1>1 DEF n, f
  <2>2. s[f(i)] = s[f(j)]
    BY <1>5, <1>6 DEF f
  <2>3. f(i) = f(j)
    BY <2>1, <2>2, Zenon DEF IsInjective
  <2> QED BY <1>1, <2>3 DEF f
<1>7. ASSUME NEW j \in 1 .. n PROVE u[j] \in Range(s) \ {s[k]}
  <2> DEFINE f(x) == IF x < k THEN x ELSE x + 1
  <2> HIDE DEF f
  <2>1. f(j) \in DOMAIN s /\ f(j) # k /\ k \in DOMAIN s
    BY <1>1 DEF n, f
  <2>2. u[j] = s[f(j)]
    BY <1>5 DEF f
  <2> QED BY <2>1, <2>2, Zenon DEF IsInjective, Range
<1>8. ASSUME NEW i \in 1 .. Len(s), i # k PROVE \E j \in 1 .. n : u[j] = s[i]
  <2>1. CASE i < k
    BY <1>1, <1>5, <2>1
  <2>2. CASE i > k
    <3>1. i - 1 \in 1 .. n /\ ~(i - 1 < k) /\ i - 1 + 1 = i
      BY <1>1, <2>2 DEF n
    <3> QED BY <1>5, <3>1
  <2> QED BY <1>1, <1>8, <2>1, <2>2
<1>9. Range(u) = Range(s) \ {s[k]}
  <2>1. Range(u) = {u[j] : j \in 1 .. n} /\ Range(s) = {s[i] : i \in 1 .. Len(s)}
    BY <1>1, <1>4 DEF Range
  <2>2. Range(u) \subseteq Range(s) \ {s[k]}
    BY <1>7, <2>1
  <2>3. ASSUME NEW x \in Range(s) \ {s[k]} PROVE x \in Range(u)
    <3>1. PICK i \in 1 .. Len(s) : x = s[i]
      BY <2>1
    <3>2. i # k
      BY <3>1
    <3> QED BY <1>8, <2>1, <3>1, <3>2
  <2> QED BY <2>2, <2>3
<1> QED BY <1>4, <1>5, <1>6, <1>9, Zenon DEF u, IsInjective, n

(* remove takes one block out of the middle.                               *)
LEMMA RemoveBlockLinked ==
  ASSUME NEW q, NEW s, Linked(q, s), QueueAssumption, NEW k \in 1 .. Len(s)
  PROVE  Linked(RemoveBlock(q, s[k]), Cut(s, k))
<1> DEFINE u == Cut(s, k)
           b == s[k]
           l == At(s, k - 1)
           r == At(s, k + 1)
           nx == [q.next EXCEPT ![l] = r, ![b] = None]
           pv == [q.prev EXCEPT ![r] = l, ![b] = None]
           p == RemoveBlock(q, b)
<1> HIDE DEF u, b, l, r, nx, pv, p
<1>0. /\ s \in Seq(Block) /\ IsInjective(s) /\ Len(s) \in Nat
      /\ DOMAIN s = 1 .. Len(s) /\ Range(s) \subseteq Block
      /\ Shaped(q) /\ q.num = Len(s)
      /\ \A i \in 1 .. Len(s) : s[i] \in Range(s)
  BY LinkedFacts
<1>1. /\ u \in Seq(Block) /\ Len(u) = Len(s) - 1
      /\ \A j \in 1 .. Len(s) - 1 : u[j] = IF j < k THEN s[j] ELSE s[j + 1]
      /\ IsInjective(u)
      /\ Range(u) = Range(s) \ {b}
  BY <1>0, CutFacts, Zenon DEF u, b
<1>2. /\ \A j \in 0 .. k - 1 : At(u, j) = At(s, j)
      /\ \A j \in k .. Len(s) : At(u, j) = At(s, j + 1)
  <2>1. ASSUME NEW j \in 0 .. k - 1 PROVE At(u, j) = At(s, j)
    <3>1. j = 0 \/ (j \in 1 .. Len(s) - 1 /\ j < k /\ ~(j > Len(u)) /\ ~(j > Len(s)))
      BY <1>0, <1>1
    <3> QED BY <1>1, <3>1 DEF At
  <2>2. ASSUME NEW j \in k .. Len(s) PROVE At(u, j) = At(s, j + 1)
    <3>1. CASE j = Len(s)
      <4>1. j # 0 /\ j + 1 # 0 /\ j > Len(u) /\ j + 1 > Len(s)
        BY <1>0, <1>1, <3>1
      <4> QED BY <4>1 DEF At
    <3>2. CASE j # Len(s)
      <4>1. /\ j # 0 /\ j + 1 # 0 /\ ~(j > Len(u)) /\ ~(j + 1 > Len(s))
            /\ j \in 1 .. Len(s) - 1 /\ ~(j < k)
        <5>1. Len(s) \in Nat /\ Len(u) = Len(s) - 1 /\ j \in Nat /\ k \in 1 .. Len(s)
          BY <1>0, <1>1
        <5> QED BY <3>2, <5>1
      <4> QED BY <1>1, <4>1 DEF At
    <3> QED BY <3>1, <3>2
  <2> QED BY <2>1, <2>2
<1>3. b = At(s, k) /\ q.next[b] = r /\ q.prev[b] = l
  <2>1. k \in 0 .. Len(s) /\ k - 1 \in 0 .. Len(s) /\ (k - 1) + 1 = k /\ At(s, k) = s[k]
    BY <1>0, AtFacts
  <2> QED BY <2>1 DEF Linked, b, l, r
<1>4. l \in Node /\ r \in Node /\ b \in Node /\ l # b /\ r # b /\ b \in Block
  <2>1. k - 1 \in 0 .. Len(s) + 1 /\ k + 1 \in 0 .. Len(s) + 1 /\ k \in 0 .. Len(s) + 1
        /\ k - 1 # k /\ k + 1 # k
    BY <1>0
  <2>2. b \in Block
    BY <1>0 DEF b
  <2> QED BY <1>0, <1>3, <2>1, <2>2, AtFacts, AtInjective DEF l, r
<1>5. p = [prev |-> pv, next |-> nx, num |-> q.num - 1]
  BY <1>3 DEF RemoveBlock, nx, pv, p
<1>6. /\ nx \in [Node -> Node \cup {None}] /\ pv \in [Node -> Node \cup {None}]
      /\ nx[l] = r /\ pv[r] = l /\ nx[b] = None /\ pv[b] = None
      /\ \A x \in Node : /\ x # l /\ x # b => nx[x] = q.next[x]
                         /\ x # r /\ x # b => pv[x] = q.prev[x]
  BY <1>0, <1>4 DEF Shaped, nx, pv
<1>7. ASSUME NEW j \in 0 .. Len(u)
      PROVE  nx[At(u, j)] = At(u, j + 1) /\ pv[At(u, j + 1)] = At(u, j)
  <2>1. CASE j < k - 1
    <3>1. At(u, j) = At(s, j) /\ At(u, j + 1) = At(s, j + 1)
      <4>1. j \in 0 .. k - 1 /\ j + 1 \in 0 .. k - 1
        BY <1>0, <1>1, <2>1
      <4> QED BY <1>2, <4>1, Zenon
    <3>2. q.next[At(s, j)] = At(s, j + 1) /\ q.prev[At(s, j + 1)] = At(s, j)
      BY <1>0, <1>1, <2>1 DEF Linked
    <3>3. j \in 0 .. Len(s) + 1 /\ j + 1 \in 0 .. Len(s) + 1 /\ k - 1 \in 0 .. Len(s) + 1
          /\ k + 1 \in 0 .. Len(s) + 1 /\ k \in 0 .. Len(s) + 1
          /\ j # k - 1 /\ j # k /\ j + 1 # k + 1 /\ j + 1 # k
      BY <1>0, <1>1, <2>1
    <3>4. /\ At(s, j) # l /\ At(s, j) # b /\ At(s, j + 1) # r /\ At(s, j + 1) # b
          /\ At(s, j) \in Node /\ At(s, j + 1) \in Node
      BY <1>0, <1>3, <3>3, AtInjective, AtFacts DEF u, l, r
    <3> QED BY <1>6, <3>1, <3>2, <3>4
  <2>2. CASE j = k - 1
    <3>1. At(u, j) = l /\ At(u, j + 1) = r
      BY <1>0, <1>1, <1>2, <2>2 DEF l, r
    <3> QED BY <1>6, <3>1
  <2>3. CASE j > k - 1
    <3>1. At(u, j) = At(s, j + 1) /\ At(u, j + 1) = At(s, j + 2)
      BY <1>0, <1>1, <1>2, <2>3
    <3>2. q.next[At(s, j + 1)] = At(s, j + 2) /\ q.prev[At(s, j + 2)] = At(s, j + 1)
      <4>1. j + 1 \in 0 .. Len(s) /\ (j + 1) + 1 = j + 2
        BY <1>0, <1>1
      <4> QED BY <4>1 DEF Linked
    <3>3. j + 1 \in 0 .. Len(s) + 1 /\ j + 2 \in 0 .. Len(s) + 1 /\ k - 1 \in 0 .. Len(s) + 1
          /\ k + 1 \in 0 .. Len(s) + 1 /\ k \in 0 .. Len(s) + 1
          /\ j + 1 # k - 1 /\ j + 1 # k /\ j + 2 # k + 1 /\ j + 2 # k
      BY <1>0, <1>1, <2>3
    <3>4. /\ At(s, j + 1) # l /\ At(s, j + 1) # b /\ At(s, j + 2) # r /\ At(s, j + 2) # b
          /\ At(s, j + 1) \in Node /\ At(s, j + 2) \in Node
      BY <1>0, <1>3, <3>3, AtInjective, AtFacts DEF u, l, r
    <3> QED BY <1>6, <3>1, <3>2, <3>4
  <2> QED BY <1>0, <1>1, <2>1, <2>2, <2>3
<1>8. nx[FakeTail] = None /\ pv[FakeHead] = None
  <2>1. At(s, Len(s) + 1) = FakeTail /\ At(s, 0) = FakeHead
        /\ FakeTail \in Node /\ FakeHead \in Node
    BY <1>0, AtFacts
  <2>2. Len(s) + 1 \in 0 .. Len(s) + 1 /\ 0 \in 0 .. Len(s) + 1 /\ k - 1 \in 0 .. Len(s) + 1
        /\ k + 1 \in 0 .. Len(s) + 1 /\ Len(s) + 1 # k - 1 /\ 0 # k + 1
    BY <1>0
  <2>3. FakeTail # l /\ FakeHead # r /\ FakeTail # b /\ FakeHead # b
    BY <1>0, <1>4, <2>1, <2>2, AtInjective DEF l, r
  <2> QED BY <1>6, <2>1, <2>3 DEF Linked
<1>9. ASSUME NEW x \in Block \ Range(u) PROVE pv[x] = None /\ nx[x] = None
  <2>1. CASE x = b
    BY <1>6, <2>1
  <2>2. CASE x # b
    <3>1. x \in Block \ Range(s) /\ x \in Node
      BY <1>1, <2>2 DEF Node
    <3>2. \A j \in 0 .. Len(s) + 1 : x # At(s, j)
      BY <1>0, <3>1 DEF At
    <3>3. x # l /\ x # r
      <4>1. k - 1 \in 0 .. Len(s) + 1 /\ k + 1 \in 0 .. Len(s) + 1
        BY <1>0
      <4> QED BY <3>2, <4>1 DEF l, r
    <3> QED BY <1>6, <2>2, <3>1, <3>3 DEF Linked
  <2> QED BY <2>1, <2>2
<1>10. p.prev = pv /\ p.next = nx /\ p = [prev |-> p.prev, next |-> p.next, num |-> Len(u)]
  BY <1>0, <1>1, <1>5
<1>11. Linked(p, u)
  BY <1>1, <1>6, <1>7, <1>8, <1>9, <1>10, Zenon DEF Linked
<1> QED BY <1>11 DEF p, u, b

-----------------------------------------------------------------------------
(* The loop of Only, as the values that its result takes.                  *)
LEMMA OnlyLoop ==
  ASSUME FiniteFacts, NEW s \in Seq(Block), NEW A
  PROVE  \E f \in [0 .. Len(s) -> Seq(Block)] :
           /\ f[0] = <<>>
           /\ \A i \in 1 .. Len(s) :
                f[i] = IF s[i] \in A THEN Append(f[i - 1], s[i]) ELSE f[i - 1]
           /\ Only(s, A) = f[Len(s)]
<1> DEFINE N == Len(s)
           next(f, i) == IF s[i] \in A THEN Append(f[i - 1], s[i]) ELSE f[i - 1]
           Runs(f, n) == f[0] = <<>> /\ \A i \in 1 .. n : f[i] = next(f, i)
           Bad == {n \in 0 .. N : ~ \E f \in [0 .. n -> Seq(Block)] : Runs(f, n)}
           F(f) == [i \in 0 .. N |-> IF i = 0 THEN <<>> ELSE next(f, i)]
           only == CHOOSE f : f = F(f)
<1> HIDE DEF N, next, Runs, Bad, F, only
<1>1. N \in Nat /\ \A i \in 1 .. N : s[i] \in Block
  BY DEF N
<1>2. Bad = {}
  <2>1. SUFFICES ASSUME Bad # {} PROVE FALSE
    BY Zenon
  <2>2. PICK n \in Bad : \A m \in Bad : n <= m
    <3>1. Bad \subseteq Nat
      BY <1>1 DEF Bad
    <3> QED BY <2>1, <3>1, LeastNatural, Zenon
  <2>3. n # 0
    <3>1. SUFFICES ASSUME n = 0 PROVE FALSE
      BY Zenon
    <3> DEFINE f == [i \in 0 .. 0 |-> <<>>]
    <3> HIDE DEF f
    <3>2. f \in [0 .. n -> Seq(Block)] /\ f[0] = <<>> /\ 1 .. n = {}
      BY <3>1 DEF f
    <3> QED BY <2>2, <3>2, Zenon DEF Runs, Bad
  <2>4. n - 1 \in 0 .. N /\ n - 1 \notin Bad /\ n \in 1 .. N
    <3>1. n \in 0 .. N
      BY <2>2, Zenon DEF Bad
    <3>2. n - 1 \in 0 .. N /\ n \in 1 .. N /\ ~(n <= n - 1)
      BY <1>1, <2>3, <3>1
    <3> QED BY <2>2, <3>2, Zenon
  <2>5. PICK f \in [0 .. n - 1 -> Seq(Block)] : Runs(f, n - 1)
    BY <2>4, Zenon DEF Bad
  <2> DEFINE g == [i \in 0 .. n |-> IF i = n THEN next(f, n) ELSE f[i]]
  <2> HIDE DEF g
  <2>6. next(f, n) \in Seq(Block)
    <3>1. f[n - 1] \in Seq(Block) /\ s[n] \in Block
      BY <1>1, <2>4
    <3> QED BY <3>1 DEF next
  <2>7. g \in [0 .. n -> Seq(Block)]
    BY <1>1, <2>4, <2>6 DEF g
  <2>8. g[n] = next(f, n) /\ \A i \in 0 .. n - 1 : g[i] = f[i]
    BY <1>1, <2>4 DEF g
  <2>9. next(g, n) = next(f, n) /\ \A i \in 1 .. n - 1 : next(g, i) = next(f, i)
    <3>1. n - 1 \in 0 .. n - 1 /\ \A i \in 1 .. n - 1 : i - 1 \in 0 .. n - 1
      BY <1>1, <2>4
    <3> QED BY <2>8, <3>1 DEF next
  <2>10. Runs(g, n)
    <3>1. g[0] = <<>>
      <4>1. 0 \in 0 .. n - 1
        BY <1>1, <2>4
      <4> QED BY <2>5, <2>8, <4>1 DEF Runs
    <3>2. \A i \in 1 .. n : i = n \/ (i \in 1 .. n - 1 /\ i \in 0 .. n - 1)
      BY <1>1, <2>4
    <3> QED BY <2>5, <2>8, <2>9, <3>1, <3>2 DEF Runs
  <2> QED BY <2>2, <2>7, <2>10, Zenon DEF Bad
<1>3. PICK f \in [0 .. N -> Seq(Block)] : Runs(f, N)
  <2>1. N \in 0 .. N
    BY <1>1
  <2> QED BY <1>2, <2>1, Zenon DEF Bad
<1>4. f = F(f)
  <2>1. \A i \in 0 .. N : f[i] = IF i = 0 THEN <<>> ELSE next(f, i)
    <3>1. \A i \in 0 .. N : i = 0 \/ i \in 1 .. N
      BY <1>1
    <3> QED BY <1>3, <3>1 DEF Runs
  <2> QED BY <2>1 DEF F
<1>5. only = F(only)
  BY <1>4, Zenon DEF only
<1>6. Only(s, A) = only[N]
  BY DEF Only, N, next, F
<1>7. DOMAIN only = 0 .. N /\ only = [i \in 0 .. N |-> only[i]]
      /\ only[0] = <<>> /\ \A i \in 1 .. N : only[i] = next(only, i)
  <2>1. \A i \in 0 .. N : only[i] = IF i = 0 THEN <<>> ELSE next(only, i)
    BY <1>5, Zenon DEF F
  <2>2. DOMAIN only = 0 .. N /\ only = [i \in 0 .. N |-> only[i]]
    BY <1>5 DEF F
  <2>3. 0 \in 0 .. N /\ \A i \in 1 .. N : i \in 0 .. N /\ i # 0
    BY <1>1
  <2> QED BY <2>1, <2>2, <2>3, Zenon
<1>8. only \in [0 .. N -> Seq(Block)]
  <2> DEFINE Odd == {i \in 0 .. N : only[i] \notin Seq(Block)}
  <2> HIDE DEF Odd
  <2>1. Odd = {}
    <3>1. SUFFICES ASSUME Odd # {} PROVE FALSE
      BY Zenon
    <3>2. PICK n \in Odd : \A m \in Odd : n <= m
      <4>1. Odd \subseteq Nat
        BY <1>1 DEF Odd
      <4> QED BY <3>1, <4>1, LeastNatural, Zenon
    <3>3. n \in 0 .. N /\ only[n] \notin Seq(Block)
      BY <3>2 DEF Odd
    <3>4. n # 0
      <4>1. <<>> \in Seq(Block)
        OBVIOUS
      <4> QED BY <1>7, <3>3, <4>1, Zenon
    <3>5. n \in 1 .. N /\ n - 1 \in 0 .. N /\ ~(n <= n - 1)
      BY <1>1, <3>3, <3>4
    <3>6. only[n - 1] \in Seq(Block) /\ s[n] \in Block
      BY <1>1, <3>2, <3>5 DEF Odd
    <3>7. next(only, n) \in Seq(Block)
      BY <3>6 DEF next
    <3> QED BY <1>7, <3>3, <3>5, <3>7
  <2> QED BY <1>7, <2>1, Zenon DEF Odd
<1> QED BY <1>6, <1>7, <1>8, Zenon DEF N, next

(* Induction over sequences of blocks, with the set G of those that have   *)
(* the property.                                                           *)
LEMMA SequenceInduction ==
  ASSUME FiniteFacts, NEW G, <<>> \in G,
         \A t \in Seq(Block), x \in Block : t \in G => Append(t, x) \in G
  PROVE  Seq(Block) \subseteq G
<1> DEFINE Bad == {Len(s) : s \in Seq(Block) \ G}
<1> HIDE DEF Bad
<1>1. SUFFICES ASSUME Seq(Block) \ G # {} PROVE FALSE
  BY Zenon
<1>2. Bad \subseteq Nat
  BY DEF Bad
<1>3. Bad # {}
  BY <1>1, Zenon DEF Bad
<1>4. PICK n \in Bad : \A m \in Bad : n <= m
  BY <1>2, <1>3, LeastNatural, Zenon
<1>5. PICK s \in Seq(Block) \ G : n = Len(s)
  BY <1>4 DEF Bad
<1>6. s # <<>>
  BY <1>5
<1> DEFINE t == SubSeq(s, 1, Len(s) - 1)
           x == s[Len(s)]
<1> HIDE DEF t, x
<1>7. Len(s) \in Nat \ {0}
  BY <1>5, <1>6
<1>8. t \in Seq(Block) /\ Len(t) = Len(s) - 1 /\ x \in Block
  BY <1>5, <1>7 DEF t, x
<1>9. \A i \in 1 .. Len(s) - 1 : t[i] = s[i]
  BY <1>5, <1>7 DEF t
<1>10. s = Append(t, x)
  <2>1. Append(t, x) \in Seq(Block) /\ Len(Append(t, x)) = Len(s)
    BY <1>5, <1>7, <1>8
  <2>2. ASSUME NEW i \in 1 .. Len(s) PROVE Append(t, x)[i] = s[i]
    BY <1>5, <1>7, <1>8, <1>9 DEF x
  <2> QED BY <1>5, <2>1, <2>2
<1>11. t \notin G
  BY <1>5, <1>8, <1>10, Zenon
<1>12. Len(t) \in Bad
  BY <1>8, <1>11, Zenon DEF Bad
<1>13. ~(n <= Len(t))
  BY <1>5, <1>7, <1>8
<1> QED BY <1>4, <1>12, <1>13, Zenon

(* remove_blocks of no blocks at all: Only of the empty sequence is empty.   *)
LEMMA OnlyEmpty ==
  ASSUME FiniteFacts, NEW A
  PROVE  Only(<<>>, A) = <<>>
<1> DEFINE e == <<>>
<1> HIDE DEF e
<1>1. e \in Seq(Block) /\ Len(e) = 0
  BY DEF e
<1>2. PICK f \in [0 .. Len(e) -> Seq(Block)] :
           /\ f[0] = <<>>
           /\ \A i \in 1 .. Len(e) :
                f[i] = IF e[i] \in A THEN Append(f[i - 1], e[i]) ELSE f[i - 1]
           /\ Only(e, A) = f[Len(e)]
  BY <1>1, OnlyLoop, Zenon
<1>3. Only(e, A) = <<>>
  BY <1>1, <1>2
<1> QED BY <1>3

(* One block more at the end of the list: Only keeps it or skips it, and does *)
(* with the blocks before it what it did without.                          *)
LEMMA OnlyAppend ==
  ASSUME FiniteFacts, NEW t \in Seq(Block), NEW x \in Block, NEW A
  PROVE  /\ Only(t, A) \in Seq(Block)
         /\ Only(Append(t, x), A) = IF x \in A THEN Append(Only(t, A), x) ELSE Only(t, A)
<1> DEFINE s == Append(t, x)
           N == Len(t)
<1> HIDE DEF s, N
<1>1. /\ s \in Seq(Block) /\ Len(s) = N + 1 /\ N \in Nat /\ s[N + 1] = x
      /\ \A i \in 1 .. N : s[i] = t[i]
  BY DEF s, N
<1>2. PICK f \in [0 .. Len(t) -> Seq(Block)] :
           /\ f[0] = <<>>
           /\ \A i \in 1 .. Len(t) :
                f[i] = IF t[i] \in A THEN Append(f[i - 1], t[i]) ELSE f[i - 1]
           /\ Only(t, A) = f[Len(t)]
  BY OnlyLoop, Zenon
<1>3. PICK g \in [0 .. Len(s) -> Seq(Block)] :
           /\ g[0] = <<>>
           /\ \A i \in 1 .. Len(s) :
                g[i] = IF s[i] \in A THEN Append(g[i - 1], s[i]) ELSE g[i - 1]
           /\ Only(s, A) = g[Len(s)]
  BY <1>1, OnlyLoop
<1> DEFINE Bad == {i \in 0 .. N : f[i] # g[i]}
<1> HIDE DEF Bad
<1>4. Bad = {}
  <2>1. SUFFICES ASSUME Bad # {} PROVE FALSE
    BY Zenon
  <2>2. PICK n \in Bad : \A m \in Bad : n <= m
    <3>1. Bad \subseteq Nat
      BY <1>1 DEF Bad
    <3> QED BY <2>1, <3>1, LeastNatural, Zenon
  <2>3. n \in 0 .. N /\ f[n] # g[n] /\ n # 0
    BY <1>2, <1>3, <2>2 DEF Bad
  <2>4. n \in 1 .. N /\ n \in 1 .. Len(s) /\ n - 1 \in 0 .. N /\ ~(n <= n - 1)
    BY <1>1, <2>3
  <2>5. f[n - 1] = g[n - 1]
    BY <2>2, <2>4 DEF Bad
  <2> QED BY <1>1, <1>2, <1>3, <2>3, <2>4, <2>5, Zenon DEF N
<1>5. f[N] = g[N]
  <2>1. N \in 0 .. N
    BY <1>1
  <2> QED BY <1>4, <2>1 DEF Bad
<1>6. N + 1 \in 1 .. Len(s) /\ N + 1 - 1 = N /\ N \in 0 .. N
  BY <1>1
<1>7. Only(t, A) \in Seq(Block)
  BY <1>2, <1>6
<1>8. Only(s, A) = IF x \in A THEN Append(Only(t, A), x) ELSE Only(t, A)
  BY <1>1, <1>2, <1>3, <1>5, <1>6 DEF N
<1> QED BY <1>7, <1>8 DEF s

(* A block put at the end of a list (append): what the list then holds, and *)
(* that no block is in it twice if the new one was not in it.              *)
LEMMA RangeAppend ==
  ASSUME NEW t \in Seq(Block), NEW x \in Block
  PROVE  /\ Range(Append(t, x)) = Range(t) \cup {x}
         /\ IsInjective(Append(t, x)) <=> IsInjective(t) /\ x \notin Range(t)
<1> DEFINE s == Append(t, x)
           N == Len(t)
<1> HIDE DEF s, N
<1>1. /\ s \in Seq(Block) /\ Len(s) = N + 1 /\ N \in Nat /\ s[N + 1] = x
      /\ \A i \in 1 .. N : s[i] = t[i]
      /\ DOMAIN s = 1 .. N + 1 /\ DOMAIN t = 1 .. N
      /\ \A i \in 1 .. N + 1 : i \in 1 .. N \/ i = N + 1
      /\ \A i \in 1 .. N : i \in 1 .. N + 1 /\ i # N + 1
      /\ N + 1 \in 1 .. N + 1
  BY DEF s, N
<1>2. Range(s) = Range(t) \cup {x}
  BY <1>1, Zenon DEF Range
<1>3. IsInjective(s) => IsInjective(t) /\ x \notin Range(t)
  BY <1>1 DEF Range, IsInjective
<1>4. IsInjective(t) /\ x \notin Range(t) => IsInjective(s)
  BY <1>1 DEF Range, IsInjective
<1> QED BY <1>2, <1>3, <1>4 DEF s

(* What is left of a list when blocks are taken out of it (remove): the      *)
(* blocks of it that are in A, none twice if none was, and the list itself  *)
(* if every block of it is in A.                                           *)
LEMMA OnlyFacts ==
  ASSUME FiniteFacts, NEW s \in Seq(Block), NEW A
  PROVE  /\ Only(s, A) \in Seq(Block)
         /\ Range(Only(s, A)) = Range(s) \cap A
         /\ IsInjective(s) => IsInjective(Only(s, A))
         /\ Range(s) \subseteq A => Only(s, A) = s
<1> DEFINE P(t) == /\ Only(t, A) \in Seq(Block)
                   /\ Range(Only(t, A)) = Range(t) \cap A
                   /\ IsInjective(t) => IsInjective(Only(t, A))
                   /\ Range(t) \subseteq A => Only(t, A) = t
           G == {t \in Seq(Block) : P(t)}
<1> HIDE DEF P, G
<1>1. <<>> \in G
  <2>1. Only(<<>>, A) = <<>>
    BY OnlyEmpty
  <2>2. <<>> \in Seq(Block) /\ Range(<<>>) = {}
    BY DEF Range
  <2> DEFINE e == <<>>
  <2> HIDE DEF e
  <2>3. e \in Seq(Block) /\ Range(e) = {} /\ Only(e, A) = e
    BY <2>1, <2>2 DEF e
  <2>4. P(e)
    BY <2>3 DEF P
  <2>5. e \in G
    BY <2>3, <2>4 DEF G
  <2> QED BY <2>5 DEF e
<1>2. ASSUME NEW t \in Seq(Block), NEW x \in Block, t \in G PROVE Append(t, x) \in G
  <2> DEFINE u == Append(t, x)
             o == Only(t, A)
  <2> HIDE DEF u, o
  <2>1. P(t)
    BY <1>2 DEF G
  <2>2. u \in Seq(Block)
    BY DEF u
  <2>3. Only(u, A) = IF x \in A THEN Append(o, x) ELSE o
    BY OnlyAppend DEF u, o
  <2>4. Range(u) = Range(t) \cup {x} /\ (IsInjective(u) <=> IsInjective(t) /\ x \notin Range(t))
    BY RangeAppend DEF u
  <2>5. o \in Seq(Block) /\ Range(o) = Range(t) \cap A
        /\ (IsInjective(t) => IsInjective(o)) /\ (Range(t) \subseteq A => o = t)
    BY <2>1 DEF P, o
  <2>6. /\ Range(Append(o, x)) = Range(o) \cup {x}
        /\ (IsInjective(Append(o, x)) <=> IsInjective(o) /\ x \notin Range(o))
        /\ Append(o, x) \in Seq(Block)
    BY <2>5, RangeAppend
  <2>7. Only(u, A) \in Seq(Block)
    BY <2>3, <2>5, <2>6
  <2>8. Range(Only(u, A)) = Range(u) \cap A
    BY <2>3, <2>4, <2>5, <2>6
  <2>9. IsInjective(u) => IsInjective(Only(u, A))
    BY <2>3, <2>4, <2>5, <2>6
  <2>10. Range(u) \subseteq A => Only(u, A) = u
    <3>1. SUFFICES ASSUME Range(u) \subseteq A PROVE Only(u, A) = u
      OBVIOUS
    <3>2. x \in A /\ o = t
      BY <2>4, <2>5, <3>1
    <3> QED BY <2>3, <3>2 DEF u
  <2>11. P(u)
    BY <2>7, <2>8, <2>9, <2>10 DEF P
  <2>12. u \in G
    BY <2>2, <2>11 DEF G
  <2> QED BY <2>12 DEF u
<1>3. Seq(Block) \subseteq G
  BY <1>1, <1>2, SequenceInduction, Zenon
<1>4. P(s)
  BY <1>3 DEF G
<1> QED BY <1>4 DEF P

(* Filtering twice.                                                        *)
LEMMA OnlyOnly ==
  ASSUME FiniteFacts, NEW s \in Seq(Block), NEW A, NEW B
  PROVE  Only(Only(s, A), B) = Only(s, A \cap B)
<1> DEFINE P(t) == Only(Only(t, A), B) = Only(t, A \cap B)
           G == {t \in Seq(Block) : P(t)}
<1> HIDE DEF P, G
<1>1. <<>> \in G
  <2>1. Only(<<>>, A) = <<>> /\ Only(<<>>, B) = <<>> /\ Only(<<>>, A \cap B) = <<>>
    BY OnlyEmpty
  <2>2. P(<<>>)
    BY <2>1, Zenon DEF P
  <2>3. <<>> \in Seq(Block)
    OBVIOUS
  <2> QED BY <2>2, <2>3 DEF G
<1>2. ASSUME NEW t \in Seq(Block), NEW x \in Block, t \in G PROVE Append(t, x) \in G
  <2> DEFINE u == Append(t, x)
             o == Only(t, A)
             C == A \cap B
  <2> HIDE DEF u, o, C
  <2>1. Only(o, B) = Only(t, C)
    BY <1>2 DEF P, G, o, C
  <2>2. u \in Seq(Block)
    BY DEF u
  <2>3. Only(u, A) = IF x \in A THEN Append(o, x) ELSE o
    BY OnlyAppend DEF u, o
  <2>4. o \in Seq(Block)
    BY OnlyAppend DEF o
  <2>5. Only(u, C) = IF x \in C THEN Append(Only(t, C), x) ELSE Only(t, C)
    BY OnlyAppend DEF u
  <2>6. Only(Append(o, x), B) = IF x \in B THEN Append(Only(o, B), x) ELSE Only(o, B)
    BY <2>4, OnlyAppend
  <2>7. x \in C <=> x \in A /\ x \in B
    BY DEF C
  <2>8. Only(Only(u, A), B) = Only(u, C)
    BY <2>1, <2>3, <2>5, <2>6, <2>7, Zenon
  <2>9. P(u)
    BY <2>8 DEF C, P
  <2>10. u \in G
    BY <2>2, <2>9 DEF G
  <2> QED BY <2>10 DEF u
<1>3. Seq(Block) \subseteq G
  BY <1>1, <1>2, SequenceInduction, Zenon
<1>4. P(s)
  BY <1>3 DEF G
<1> QED BY <1>4 DEF P

(* Taking one block out is filtering it.                                   *)
LEMMA CutIsOnly ==
  ASSUME FiniteFacts, NEW s \in Seq(Block), IsInjective(s), NEW k \in 1 .. Len(s)
  PROVE  Cut(s, k) = Only(s, Block \ {s[k]})
<1> DEFINE P(t) == IsInjective(t) =>
                     \A i \in 1 .. Len(t) : Cut(t, i) = Only(t, Block \ {t[i]})
           G == {t \in Seq(Block) : P(t)}
<1> HIDE DEF P, G
<1>1. <<>> \in G
  <2>1. <<>> \in Seq(Block) /\ 1 .. Len(<<>>) = {}
    OBVIOUS
  <2>2. P(<<>>)
    BY <2>1 DEF P
  <2> QED BY <2>1, <2>2 DEF G
<1>2. ASSUME NEW t \in Seq(Block), NEW x \in Block, t \in G PROVE Append(t, x) \in G
  <2> DEFINE u == Append(t, x)
             N == Len(t)
  <2> HIDE DEF u, N
  <2>1. /\ u \in Seq(Block) /\ Len(u) = N + 1 /\ N \in Nat /\ u[N + 1] = x
        /\ \A i \in 1 .. N : u[i] = t[i] /\ t[i] \in Range(t)
    BY DEF Range, u, N
  <2>2. SUFFICES ASSUME IsInjective(u), NEW i \in 1 .. Len(u)
                 PROVE  Cut(u, i) = Only(u, Block \ {u[i]})
    <3>1. P(u)
      BY <2>2 DEF P
    <3> QED BY <2>1, <3>1 DEF G, u
  <2>3. IsInjective(t) /\ x \notin Range(t) /\ Range(t) \subseteq Block
    <3>1. Range(t) \subseteq Block
      BY DEF Range
    <3> QED BY <2>2, <3>1, RangeAppend DEF u
  <2> DEFINE A == Block \ {u[i]}
  <2> HIDE DEF A
  <2>4. Only(u, A) = IF x \in A THEN Append(Only(t, A), x) ELSE Only(t, A)
    BY OnlyAppend DEF u
  <2>5. CASE i = N + 1
    <3>1. x \notin A /\ Range(t) \subseteq A
      BY <2>1, <2>3, <2>5 DEF A
    <3>2. Only(t, A) = t
      BY <3>1, OnlyFacts
    <3>3. Cut(u, i) = t
      <4>1. Cut(u, i) = [j \in 1 .. N |-> t[j]]
        BY <2>1, <2>5 DEF Cut
      <4>2. t = [j \in 1 .. N |-> t[j]]
        BY DEF N
      <4> QED BY <4>1, <4>2
    <3> QED BY <2>4, <3>1, <3>2, <3>3 DEF A
  <2>6. CASE i \in 1 .. N
    <3>1. u[i] = t[i] /\ x # u[i] /\ x \in A
      BY <2>1, <2>3, <2>6 DEF A
    <3>2. Only(t, A) = Cut(t, i)
      BY <1>2, <2>3, <2>6, <3>1 DEF P, G, N, A
    <3> DEFINE c == Cut(t, i)
    <3> HIDE DEF c
    <3>3. c \in Seq(Block) /\ Len(c) = N - 1
          /\ \A j \in 1 .. N - 1 : c[j] = IF j < i THEN t[j] ELSE t[j + 1]
      BY <2>3, <2>6, CutFacts DEF N, c
    <3>4. Cut(u, i) = Append(c, x)
      <4>1. Append(c, x) \in Seq(Block) /\ Len(Append(c, x)) = N
            /\ DOMAIN Append(c, x) = 1 .. N
        BY <2>1, <2>6, <3>3
      <4>2. Cut(u, i) = [j \in 1 .. N |-> IF j < i THEN u[j] ELSE u[j + 1]]
        BY <2>1 DEF Cut
      <4>3. ASSUME NEW j \in 1 .. N
            PROVE  Append(c, x)[j] = IF j < i THEN u[j] ELSE u[j + 1]
        <5>1. CASE j = N
          <6>1. Append(c, x)[j] = x /\ ~(j < i)
            BY <2>1, <2>6, <3>3, <5>1
          <6> QED BY <2>1, <5>1, <6>1
        <5>2. CASE j \in 1 .. N - 1
          <6>1. Append(c, x)[j] = c[j] /\ j + 1 \in 1 .. N
            BY <2>1, <2>6, <3>3, <5>2
          <6> QED BY <2>1, <3>3, <5>2, <6>1
        <5>3. N \in Nat
          BY DEF N
        <5>4. j = N \/ j \in 1 .. N - 1
          BY <5>3
        <5> QED BY <5>1, <5>2, <5>4, Zenon
      <4>4. Append(c, x) = [j \in 1 .. N |-> Append(c, x)[j]]
        <5> DEFINE a == Append(c, x)
        <5> HIDE DEF a
        <5>1. a \in Seq(Block) /\ Len(a) = N
          BY <4>1 DEF a
        <5>2. a = [j \in 1 .. N |-> a[j]]
          BY <5>1
        <5> QED BY <5>2, Zenon DEF a
      <4> QED BY <4>2, <4>3, <4>4, Zenon
    <3> QED BY <2>4, <3>1, <3>2, <3>4, Zenon DEF A, c
  <2> QED BY <2>1, <2>5, <2>6
<1>3. Seq(Block) \subseteq G
  BY <1>1, <1>2, SequenceInduction, Zenon
<1>4. P(s)
  BY <1>3 DEF G
<1> QED BY <1>4 DEF P

(* RemoveBlocks is the loop over s that touch() makes.                     *)
LEMMA RemoveLoop ==
  ASSUME FiniteFacts, NEW q, NEW s \in Seq(Block)
  PROVE  \E f : /\ f[0] = q
                /\ \A i \in 1 .. Len(s) : f[i] = RemoveBlock(f[i - 1], s[i])
                /\ RemoveBlocks(q, s) = f[Len(s)]
<1> DEFINE N == Len(s)
           Runs(f, n) == /\ f[0] = q
                         /\ \A i \in 1 .. n : f[i] = RemoveBlock(f[i - 1], s[i])
           Bad == {n \in 0 .. N : ~ \E f : Runs(f, n)}
           F(f) == [i \in 0 .. N |-> IF i = 0 THEN q ELSE RemoveBlock(f[i - 1], s[i])]
           list == CHOOSE f : f = F(f)
<1> HIDE DEF N, Runs, Bad, F, list
<1>1. N \in Nat
  BY DEF N
<1>2. Bad = {}
  <2>1. SUFFICES ASSUME Bad # {} PROVE FALSE
    BY Zenon
  <2>2. PICK n \in Bad : \A m \in Bad : n <= m
    <3>1. Bad \subseteq Nat
      BY <1>1 DEF Bad
    <3> QED BY <2>1, <3>1, LeastNatural, Zenon
  <2>3. n # 0
    <3>1. SUFFICES ASSUME n = 0 PROVE FALSE
      BY Zenon
    <3> DEFINE f == [i \in 0 .. 0 |-> q]
    <3> HIDE DEF f
    <3>2. f[0] = q /\ 1 .. n = {}
      BY <3>1 DEF f
    <3> QED BY <2>2, <3>2, Zenon DEF Runs, Bad
  <2>4. n - 1 \in 0 .. N /\ n - 1 \notin Bad /\ n \in 1 .. N
    <3>1. n \in 0 .. N
      BY <2>2, Zenon DEF Bad
    <3>2. n - 1 \in 0 .. N /\ n \in 1 .. N /\ ~(n <= n - 1)
      BY <1>1, <2>3, <3>1
    <3> QED BY <2>2, <3>2, Zenon
  <2>5. PICK f : Runs(f, n - 1)
    BY <2>4, Zenon DEF Bad
  <2> DEFINE g == [i \in 0 .. n |-> IF i = n THEN RemoveBlock(f[n - 1], s[n]) ELSE f[i]]
  <2> HIDE DEF g
  <2>6. g[n] = RemoveBlock(f[n - 1], s[n]) /\ \A i \in 0 .. n - 1 : g[i] = f[i]
    BY <1>1, <2>4 DEF g
  <2>7. Runs(g, n)
    <3>1. g[0] = q
      <4>1. 0 \in 0 .. n - 1
        BY <1>1, <2>4
      <4> QED BY <2>5, <2>6, <4>1 DEF Runs
    <3>2. \A i \in 1 .. n : /\ i = n \/ (i \in 1 .. n - 1 /\ i \in 0 .. n - 1)
                            /\ i - 1 \in 0 .. n - 1
      BY <1>1, <2>4
    <3>3. \A i \in 1 .. n : g[i - 1] = f[i - 1]
      BY <2>6, <3>2
    <3>4. ASSUME NEW i \in 1 .. n PROVE g[i] = RemoveBlock(g[i - 1], s[i])
      <4>1. CASE i = n
        BY <2>6, <3>3, <4>1
      <4>2. CASE i \in 1 .. n - 1
        <5>1. g[i] = f[i] /\ f[i] = RemoveBlock(f[i - 1], s[i])
          BY <2>5, <2>6, <3>2, <4>2 DEF Runs
        <5> QED BY <3>3, <5>1
      <4> QED BY <3>2, <4>1, <4>2
    <3> QED BY <3>1, <3>4 DEF Runs
  <2> QED BY <2>2, <2>7, Zenon DEF Bad
<1>3. PICK f : Runs(f, N)
  <2>1. N \in 0 .. N
    BY <1>1
  <2> QED BY <1>2, <2>1, Zenon DEF Bad
<1> DEFINE h == [i \in 0 .. N |-> f[i]]
<1> HIDE DEF h
<1>4. h = F(h)
  <2>1. ASSUME NEW i \in 0 .. N
        PROVE  f[i] = IF i = 0 THEN q ELSE RemoveBlock(h[i - 1], s[i])
    <3>1. i = 0 \/ (i \in 1 .. N /\ i - 1 \in 0 .. N /\ i # 0)
      BY <1>1
    <3>2. CASE i = 0
      BY <1>3, <3>2 DEF Runs
    <3>3. CASE i \in 1 .. N /\ i - 1 \in 0 .. N /\ i # 0
      <4>1. h[i - 1] = f[i - 1]
        BY <3>3 DEF h
      <4> QED BY <1>3, <3>3, <4>1 DEF Runs
    <3> QED BY <3>1, <3>2, <3>3
  <2>2. F(h) = [i \in 0 .. N |-> f[i]]
    BY <2>1 DEF F
  <2> QED BY <2>2 DEF h
<1>5. list = F(list)
  BY <1>4, Zenon DEF list
<1>6. RemoveBlocks(q, s) = list[N]
  BY DEF RemoveBlocks, N, F, list
<1>7. list[0] = q /\ \A i \in 1 .. N : list[i] = RemoveBlock(list[i - 1], s[i])
  <2>1. \A i \in 0 .. N : list[i] = IF i = 0 THEN q ELSE RemoveBlock(list[i - 1], s[i])
    BY <1>5, Zenon DEF F
  <2>2. 0 \in 0 .. N /\ \A i \in 1 .. N : i \in 0 .. N /\ i # 0
    BY <1>1
  <2> QED BY <2>1, <2>2
<1> QED BY <1>6, <1>7 DEF N

(* touch() removes blocks from anywhere in the list, one after the other;  *)
(* the others keep their order.                                            *)
LEMMA RemoveBlocksLinked ==
  ASSUME FiniteFacts, NEW q, NEW order, Linked(q, order), QueueAssumption,
         NEW s \in Seq(Block), IsInjective(s), Range(s) \subseteq Range(order)
  PROVE  Linked(RemoveBlocks(q, s), Only(order, Block \ Range(s)))
<1> DEFINE N == Len(s)
           gone(n) == {s[i] : i \in 1 .. n}
<1> HIDE DEF N, gone
<1>1. /\ N \in Nat /\ DOMAIN s = 1 .. N
      /\ \A i \in 1 .. N : s[i] \in Range(s) /\ s[i] \in Block
      /\ Range(s) = gone(N)
  BY DEF Range, N, gone
<1>2. PICK f : /\ f[0] = q
               /\ \A i \in 1 .. N : f[i] = RemoveBlock(f[i - 1], s[i])
               /\ RemoveBlocks(q, s) = f[N]
  BY RemoveLoop DEF N
<1>3. order \in Seq(Block) /\ IsInjective(order) /\ Range(order) \subseteq Block
  BY LinkedFacts
<1> DEFINE Bad == {n \in 0 .. N : ~Linked(f[n], Only(order, Block \ gone(n)))}
<1> HIDE DEF Bad
<1>4. Bad = {}
  <2>1. SUFFICES ASSUME Bad # {} PROVE FALSE
    BY Zenon
  <2>2. PICK n \in Bad : \A m \in Bad : n <= m
    <3>1. Bad \subseteq Nat
      BY <1>1 DEF Bad
    <3> QED BY <2>1, <3>1, LeastNatural, Zenon
  <2>3. n \in 0 .. N /\ ~Linked(f[n], Only(order, Block \ gone(n)))
    BY <2>2, Zenon DEF Bad
  <2>4. n # 0
    <3>1. SUFFICES ASSUME n = 0 PROVE FALSE
      BY Zenon
    <3>2. gone(n) = {}
      BY <3>1 DEF gone
    <3>3. Block \ gone(n) = Block
      BY <3>2
    <3>4. Only(order, Block) = order
      BY <1>3, OnlyFacts
    <3> QED BY <1>2, <2>3, <3>1, <3>3, <3>4, Zenon
  <2>5. n \in 1 .. N /\ n - 1 \in 0 .. N /\ ~(n <= n - 1)
    <3>1. N \in Nat
      BY DEF N
    <3> QED BY <2>3, <2>4, <3>1
  <2> DEFINE A == Block \ gone(n - 1)
             o == Only(order, A)
  <2> HIDE DEF A, o
  <2>6. Linked(f[n - 1], o)
    <3>1. n - 1 \notin Bad
      BY <2>2, <2>5, Zenon
    <3> QED BY <2>5, <3>1 DEF Bad, A, o
  <2>7. s[n] \notin gone(n - 1)
    <3>1. SUFFICES ASSUME NEW i \in 1 .. n - 1, s[i] = s[n] PROVE FALSE
      BY DEF gone
    <3>2. i \in 1 .. N /\ n \in 1 .. N /\ i # n
      <4>1. N \in Nat /\ n \in 1 .. N
        BY <1>1, <2>5
      <4> QED BY <4>1
    <3> QED BY <1>1, <3>1, <3>2 DEF IsInjective
  <2>8. gone(n) = gone(n - 1) \cup {s[n]}
    <3>1. \A i : i \in 1 .. n <=> i \in 1 .. n - 1 \/ i = n
      <4>1. N \in Nat /\ n \in 1 .. N
        BY <1>1, <2>5
      <4> QED BY <4>1
    <3> QED BY <3>1 DEF gone
  <2>9. s[n] \in Range(order) /\ s[n] \in A
    BY <1>1, <2>5, <2>7 DEF A
  <2>10. /\ o \in Seq(Block) /\ IsInjective(o) /\ Range(o) = Range(order) \cap A
    BY <1>3, OnlyFacts DEF o
  <2>11. PICK k \in 1 .. Len(o) : o[k] = s[n]
    <3>1. s[n] \in Range(o)
      BY <2>9, <2>10
    <3> QED BY <2>10, <3>1 DEF Range
  <2>12. Linked(RemoveBlock(f[n - 1], o[k]), Cut(o, k))
    BY <2>6, <2>11, RemoveBlockLinked
  <2>13. Cut(o, k) = Only(o, Block \ {o[k]})
    BY <2>10, <2>11, CutIsOnly
  <2>14. Only(o, Block \ {s[n]}) = Only(order, A \cap (Block \ {s[n]}))
    <3> DEFINE B == Block \ {s[n]}
    <3> HIDE DEF B
    <3>1. Only(Only(order, A), B) = Only(order, A \cap B)
      BY <1>3, OnlyOnly
    <3> QED BY <3>1 DEF B, o
  <2>15. A \cap (Block \ {s[n]}) = Block \ gone(n)
    BY <2>8 DEF A
  <2>16. f[n] = RemoveBlock(f[n - 1], s[n])
    BY <1>2, <2>5
  <2> QED BY <2>3, <2>11, <2>12, <2>13, <2>14, <2>15, <2>16, Zenon
<1>5. Linked(f[N], Only(order, Block \ gone(N)))
  <2>1. N \in 0 .. N
    BY <1>1
  <2> QED BY <1>4, <2>1, Zenon DEF Bad
<1> QED BY <1>1, <1>2, <1>5

(* A sequence without repetition is an ordering of its range.              *)
LEMMA OrderingOfRange ==
  ASSUME FiniteFacts, NEW s \in Seq(Block), IsInjective(s)
  PROVE  /\ IsFiniteSet(Range(s)) /\ Cardinality(Range(s)) = Len(s)
         /\ s \in Orderings(Range(s))
<1>1. Len(s) \in Nat /\ DOMAIN s = 1 .. Len(s)
  OBVIOUS
<1>2. s \in Bijection(1 .. Len(s), Range(s))
  BY <1>1 DEF Bijection, Injection, Surjection, Range
<1>3. Cardinality(Range(s)) = Len(s) /\ IsFiniteSet(Range(s))
  BY <1>1, <1>2, Zenon DEF FiniteFacts
<1> QED BY <1>2, <1>3 DEF Orderings

(* An ordering of a set of blocks is a sequence without repetition.        *)
LEMMA OrderingFacts ==
  ASSUME FiniteFacts, NEW S \in SUBSET Block, NEW s \in Orderings(S), QueueAssumption
  PROVE  s \in Seq(Block) /\ IsInjective(s) /\ Range(s) = S
<1>2. Cardinality(S) \in Nat
  BY FiniteSubset
<1>3. /\ s \in [1 .. Cardinality(S) -> S] /\ IsInjective(s)
      /\ \A b \in S : \E i \in 1 .. Cardinality(S) : s[i] = b
  BY DEF Orderings, Bijection, Injection, Surjection
<1>4. s \in [1 .. Cardinality(S) -> Block]
  BY <1>3
<1>5. s \in Seq(Block)
  BY <1>2, <1>4
<1>6. Range(s) = S
  BY <1>3 DEF Range
<1> QED BY <1>3, <1>5, <1>6

(* Every node of a well-linked list is in it or a block without links.     *)
LEMMA NodePlace ==
  ASSUME NEW q, NEW s, Linked(q, s), NEW x \in Node
  PROVE  (\E i \in 0 .. Len(s) + 1 : x = At(s, i)) \/ x \in Block \ Range(s)
<1>1. s \in Seq(Block) /\ Len(s) \in Nat /\ DOMAIN s = 1 .. Len(s)
  BY LinkedFacts
<1>2. 0 \in 0 .. Len(s) + 1 /\ Len(s) + 1 \in 0 .. Len(s) + 1
      /\ \A i \in 1 .. Len(s) : i \in 0 .. Len(s) + 1
  BY <1>1
<1>3. At(s, 0) = FakeHead /\ At(s, Len(s) + 1) = FakeTail
      /\ \A i \in 1 .. Len(s) : At(s, i) = s[i]
  BY <1>1, AtFacts
<1>4. x = FakeHead \/ x = FakeTail \/ x \in Range(s) \/ x \in Block \ Range(s)
  BY DEF Node
<1>5. x \in Range(s) => \E i \in 1 .. Len(s) : x = s[i]
  BY <1>1 DEF Range
<1> QED BY <1>2, <1>3, <1>4, <1>5, Zenon

(* A well-linked list meets what popleft(), remove() and append() check    *)
(* before they follow a link.                                              *)
LEMMA LinkedAgrees ==
  ASSUME FiniteFacts, NEW q, NEW s, Linked(q, s), QueueAssumption
  PROVE  /\ \A x, y \in Node : q.next[x] = y <=> q.prev[y] = x
         /\ q.prev[FakeHead] = None /\ q.next[FakeTail] = None
         /\ \A b \in Block : (q.prev[b] = None) = (q.next[b] = None)
         /\ \A b \in Block : b \in Range(s) <=> q.next[b] # None
         /\ q.num = Cardinality(Range(s))
         /\ q.prev \in [Node -> Node \cup {None}]
         /\ q.next \in [Node -> Node \cup {None}]
         /\ q.num \in 0 .. Cardinality(Block)
<1> DEFINE N == Len(s)
<1> HIDE DEF N
<1>1. s \in Seq(Block) /\ IsInjective(s) /\ N \in Nat /\ DOMAIN s = 1 .. N
      /\ q.num = N /\ Range(s) \subseteq Block
  BY LinkedFacts DEF N
<1>2. /\ q.prev[FakeHead] = None /\ q.next[FakeTail] = None
      /\ \A i \in 0 .. N :
           q.next[At(s, i)] = At(s, i + 1) /\ q.prev[At(s, i + 1)] = At(s, i)
      /\ \A b \in Block \ Range(s) : q.prev[b] = None /\ q.next[b] = None
      /\ q.prev \in [Node -> Node \cup {None}] /\ q.next \in [Node -> Node \cup {None}]
  BY DEF Linked, N
<1>3. /\ At(s, 0) = FakeHead /\ At(s, N + 1) = FakeTail
      /\ \A i \in 1 .. N : At(s, i) = s[i] /\ s[i] \in Block
      /\ \A i \in 0 .. N + 1 : At(s, i) \in Node
  BY <1>1, AtFacts
<1>4. \A i, j \in 0 .. N + 1 : At(s, i) = At(s, j) => i = j
  BY <1>1, AtInjective
<1>5. None \notin Node
  OBVIOUS
<1>6. \A i \in 0 .. N + 1 : i = 0 \/ (i \in 1 .. N + 1 /\ i - 1 \in 0 .. N)
  BY <1>1
<1>7. \A i \in 0 .. N + 1 : i = N + 1 \/ i \in 0 .. N
  BY <1>1
<1>8. ASSUME NEW x \in Node, NEW y \in Node, q.next[x] = y PROVE q.prev[y] = x
  <2>1. PICK i \in 0 .. N + 1 : x = At(s, i)
    BY <1>2, <1>5, <1>8, NodePlace, Zenon DEF N
  <2>2. i \in 0 .. N
    BY <1>2, <1>3, <1>5, <1>7, <1>8, <2>1, Zenon
  <2> QED BY <1>2, <1>8, <2>1, <2>2, Zenon
<1>9. ASSUME NEW x \in Node, NEW y \in Node, q.prev[y] = x PROVE q.next[x] = y
  <2>1. PICK i \in 0 .. N + 1 : y = At(s, i)
    BY <1>2, <1>5, <1>9, NodePlace, Zenon DEF N
  <2>2. i - 1 \in 0 .. N
    BY <1>2, <1>3, <1>5, <1>6, <1>9, <2>1, Zenon
  <2>3. i - 1 + 1 = i
    BY <1>1, <2>1
  <2> QED BY <1>2, <1>9, <2>1, <2>2, <2>3
<1>10. ASSUME NEW b \in Range(s) PROVE q.prev[b] # None /\ q.next[b] # None
  <2>1. PICK i \in 1 .. N : b = At(s, i)
    BY <1>1, <1>3 DEF Range
  <2>2. i \in 0 .. N /\ i - 1 \in 0 .. N /\ i - 1 + 1 = i
        /\ i + 1 \in 0 .. N + 1 /\ i - 1 \in 0 .. N + 1
    BY <1>1, <2>1
  <2>3. q.next[b] = At(s, i + 1) /\ q.prev[b] = At(s, i - 1)
    BY <1>2, <2>1, <2>2
  <2> QED BY <1>3, <1>5, <2>2, <2>3, Zenon
<1>11. \A b \in Block : /\ (q.prev[b] = None) = (q.next[b] = None)
                        /\ b \in Range(s) <=> q.next[b] # None
  BY <1>2, <1>10
<1>12. q.num = Cardinality(Range(s))
  BY <1>1, OrderingOfRange
<1>13. q.num \in 0 .. Cardinality(Block)
  <2>1. Cardinality(Range(s)) <= Cardinality(Block) /\ Cardinality(Block) \in Nat
    BY <1>1, FiniteSubset
  <2> QED BY <1>1, <1>12, <2>1
<1> QED BY <1>2, <1>8, <1>9, <1>11, <1>12, <1>13

(* What is left of a list when its first n blocks are taken.               *)
LEMMA RestRange ==
  ASSUME NEW s \in Seq(Block), IsInjective(s), NEW n \in 1 .. Len(s)
  PROVE  Range(SubSeq(s, n + 1, Len(s))) = Range(s) \ {s[i] : i \in 1 .. n}
<1> DEFINE u == SubSeq(s, n + 1, Len(s))
           N == Len(s)
<1> HIDE DEF u, N
<1>1. u \in Seq(Block) /\ Len(u) = N - n /\ \A i \in 1 .. N - n : u[i] = s[n + i]
  BY RestFacts DEF u, N
<1>2. N \in Nat /\ n \in 1 .. N /\ DOMAIN s = 1 .. N
  BY DEF N
<1>3. DOMAIN u = 1 .. N - n
  BY <1>1
<1>4. \A i \in 1 .. N - n : n + i \in 1 .. N /\ \A j \in 1 .. n : j \in 1 .. N /\ j # n + i
  BY <1>2
<1>5. \A i \in 1 .. N : i \in 1 .. n \/ (i - n \in 1 .. N - n /\ n + (i - n) = i)
  BY <1>2
<1>6. \A i, j \in 1 .. N : s[i] = s[j] => i = j
  BY <1>2 DEF IsInjective
<1>7. Range(u) = {s[n + i] : i \in 1 .. N - n}
  BY <1>1, <1>3, Zenon DEF Range
<1>8. Range(s) = {s[i] : i \in 1 .. N}
  BY <1>2 DEF Range
<1>9. ASSUME NEW i \in 1 .. N - n PROVE s[n + i] \in Range(s) \ {s[j] : j \in 1 .. n}
  BY <1>4, <1>6, <1>8
<1>10. ASSUME NEW i \in 1 .. N, s[i] \notin {s[j] : j \in 1 .. n}
       PROVE  s[i] \in {s[n + j] : j \in 1 .. N - n}
  <2>1. i - n \in 1 .. N - n /\ n + (i - n) = i
    BY <1>5, <1>10
  <2> QED BY <2>1
<1>11. Range(u) = Range(s) \ {s[i] : i \in 1 .. n}
  BY <1>7, <1>8, <1>9, <1>10, Zenon
<1> QED BY <1>11 DEF u

-----------------------------------------------------------------------------
(* The operators of BlockPool: reference counts, indexes and events.       *)

\* The type of the pool's record; its counts and links are in the invariants.
Record ==
  [ref : [Block -> Nat], hash : [Block -> Hash \cup {None}],
   more : [Block -> SUBSET Hash], map : [Hash -> SUBSET Block]]

Unused(ref) == {b \in Block : ref[b] = 0}
Released(ref, S) == {b \in S : ref[b] = 0}

Holders(own, b) == {c \in Client : b \in own[c]}

\* The references own when client c takes, or gives back, those of S.
Taking(own, c, S) == [own EXCEPT ![c] = @ \cup S]
Giving(own, c, S) == [own EXCEPT ![c] = @ \ S]

\* The index map when block b is put under hash h.
Indexed(map, b, h) == [map EXCEPT ![h] = @ \cup {b}]

\* The pool p with the reference counts ref.
WithRef(p, ref) == [p EXCEPT !.ref = ref]

RefsCounted(ref, own) == \A b \in Block : ref[b] = Cardinality(Holders(own, b))

\* HashIndexesAgree of the pool p.
IndexesAgree(p) ==
  /\ \A b \in Block, h \in Hash : b \in p.map[h] <=> h \in HashesOf(p, b)
  /\ \A b \in Block : p.hash[b] = None => p.more[b] = {}

\* EventsMirrorCache of the pool p, the events pub and those among them, rep,
\* that repeat what is cached; the events are a function on the hashes.
EventsMirror(p, pub, rep) ==
  pub = [h \in Hash |-> Cardinality(p.map[h]) + rep[h]]

\* Without caching no block gets a hash.
OnlyWhenCaching(p) == EnableCaching \/ \A h \in Hash : p.map[h] = {}

-----------------------------------------------------------------------------
(* The blocks a call is given are a sequence without repetition.           *)
LEMMA SomeOfFacts ==
  ASSUME FiniteFacts, NEW S \in SUBSET Block, NEW s \in SomeOf(S), QueueAssumption
  PROVE  s \in Seq(Block) /\ IsInjective(s) /\ Range(s) \subseteq S
<1>1. PICK T \in SUBSET S : s \in Orderings(T)
  BY DEF SomeOf
<1>2. T \in SUBSET Block
  BY <1>1
<1> QED BY <1>1, <1>2, OrderingFacts

(* The blocks of a set are finitely many, and so are their clients.        *)
LEMMA Finite ==
  ASSUME FiniteFacts, QueueAssumption, PoolAssumption
  PROVE  /\ \A S \in SUBSET Block : IsFiniteSet(S) /\ Cardinality(S) \in Nat
                                    /\ Cardinality(S) <= Cardinality(Block)
         /\ \A S \in SUBSET Client : IsFiniteSet(S) /\ Cardinality(S) \in Nat
                                     /\ Cardinality(S) <= Cardinality(Client)
  BY FiniteSubset DEF QueueAssumption, PoolAssumption

(* ref_cnt counts the holders when a client takes references.              *)
LEMMA TakingCounts ==
  ASSUME FiniteFacts, QueueAssumption, PoolAssumption,
         NEW ref \in [Block -> Nat], NEW own \in [Client -> SUBSET Block], RefsCounted(ref, own),
         NEW c \in Client, NEW S \in SUBSET Block, S \cap own[c] = {}
  PROVE  /\ RefsCounted(Counted(ref, S, 1), Taking(own, c, S))
         /\ Taking(own, c, S) \in [Client -> SUBSET Block]
         /\ Counted(ref, S, 1) \in [Block -> Nat]
         /\ Unused(Counted(ref, S, 1)) = Unused(ref) \ S
<1> DEFINE now == Counted(ref, S, 1)
           new == [own EXCEPT ![c] = @ \cup S]
<1>1. ref \in [Block -> Nat]
  OBVIOUS
<1>2. \A b \in Block : now[b] = IF b \in S THEN ref[b] + 1 ELSE ref[b]
  BY DEF Counted
<1>3. now \in [Block -> Nat]
  BY <1>1 DEF Counted
<1>4. Unused(now) = Unused(ref) \ S
  BY <1>1, <1>2 DEF Unused
<1>5. new \in [Client -> SUBSET Block]
  OBVIOUS
<1>6. ASSUME NEW b \in Block PROVE now[b] = Cardinality(Holders(new, b))
  <2>1. IsFiniteSet(Holders(own, b))
    BY Finite DEF Holders
  <2>2. CASE b \in S
    <3>1. Holders(new, b) = Holders(own, b) \cup {c} /\ c \notin Holders(own, b)
      BY <2>2 DEF Holders
    <3>2. Cardinality(Holders(own, b) \cup {c}) = Cardinality(Holders(own, b)) + 1
      BY <2>1, <3>1, AddElement, Zenon
    <3> QED BY <1>2, <2>2, <3>1, <3>2, Zenon DEF RefsCounted
  <2>3. CASE b \notin S
    <3>1. Holders(new, b) = Holders(own, b)
      BY <2>3 DEF Holders
    <3> QED BY <1>2, <2>3, <3>1 DEF RefsCounted
  <2> QED BY <2>2, <2>3
<1> HIDE DEF new
<1>7. RefsCounted(now, new)
  BY <1>6 DEF RefsCounted
<1> QED BY <1>3, <1>4, <1>5, <1>7 DEF new, Taking

(* ref_cnt counts the holders when a client gives references back.         *)
LEMMA GivingCounts ==
  ASSUME FiniteFacts, QueueAssumption, PoolAssumption,
         NEW ref \in [Block -> Nat], NEW own \in [Client -> SUBSET Block], RefsCounted(ref, own),
         NEW c \in Client, NEW S \in SUBSET own[c]
  PROVE  /\ RefsCounted(Counted(ref, S, -1), Giving(own, c, S))
         /\ Giving(own, c, S) \in [Client -> SUBSET Block]
         /\ Counted(ref, S, -1) \in [Block -> Nat]
         /\ Unused(Counted(ref, S, -1)) = Unused(ref) \cup Released(Counted(ref, S, -1), S)
         /\ Unused(ref) \cap S = {}
<1> DEFINE now == Counted(ref, S, -1)
           new == [own EXCEPT ![c] = @ \ S]
<1>1. ref \in [Block -> Nat] /\ S \subseteq Block
  OBVIOUS
<1>2. \A b \in Block : now[b] = IF b \in S THEN ref[b] - 1 ELSE ref[b]
  BY <1>1 DEF Counted
<1>3. new \in [Client -> SUBSET Block]
  OBVIOUS
<1>4. ASSUME NEW b \in Block
      PROVE  /\ now[b] = Cardinality(Holders(new, b)) /\ now[b] \in Nat
             /\ b \in S => ref[b] # 0
  <2>1. IsFiniteSet(Holders(own, b)) /\ IsFiniteSet(Holders(new, b))
        /\ Cardinality(Holders(new, b)) \in Nat
    BY Finite DEF Holders
  <2>2. CASE b \in S
    <3>1. Holders(new, b) = Holders(own, b) \ {c} /\ c \in Holders(own, b)
      BY <2>2 DEF Holders
    <3>2. Cardinality(Holders(own, b) \ {c}) = Cardinality(Holders(own, b)) - 1
      BY <2>1, <3>1, RemoveElement, Zenon
    <3>3. ref[b] = Cardinality(Holders(own, b)) /\ ref[b] \in Nat
      BY <1>1 DEF RefsCounted
    <3>4. now[b] = ref[b] - 1
      BY <1>2, <2>2
    <3> HIDE DEF new
    <3>5. Cardinality(Holders(new, b)) = ref[b] - 1
      BY <3>1, <3>2, <3>3
    <3> QED BY <2>1, <3>3, <3>4, <3>5
  <2>3. CASE b \notin S
    <3>1. Holders(new, b) = Holders(own, b)
      BY <2>3 DEF Holders
    <3>2. ref[b] = Cardinality(Holders(own, b)) /\ ref[b] \in Nat
      BY <1>1 DEF RefsCounted
    <3> QED BY <1>2, <2>3, <3>1, <3>2
  <2> QED BY <2>2, <2>3
<1> HIDE DEF new
<1>5. RefsCounted(now, new)
  BY <1>4 DEF RefsCounted
<1>6. now \in [Block -> Nat]
  <2>1. now = [b \in Block |-> now[b]]
    BY DEF Counted
  <2> QED BY <1>4, <2>1
<1>7. Unused(now) = Unused(ref) \cup Released(now, S) /\ Unused(ref) \cap S = {}
  BY <1>1, <1>2, <1>4 DEF Unused, Released
<1> QED BY <1>3, <1>5, <1>6, <1>7 DEF new, Giving

(* Blocks lose their hashes: they leave every entry of the map, and the    *)
(* indexes still agree.                                                    *)
LEMMA DropFacts ==
  ASSUME NEW p \in Record, IndexesAgree(p), NEW S \in SUBSET Block
  PROVE  /\ DropHashes(p, S) \in Record
         /\ DropHashes(p, S).ref = p.ref
         /\ \A h \in Hash : DropHashes(p, S).map[h] = p.map[h] \ S
         /\ \A b \in Block : DropHashes(p, S).hash[b] = IF b \in S THEN None ELSE p.hash[b]
         /\ \A b \in Block : DropHashes(p, S).more[b] = IF b \in S THEN {} ELSE p.more[b]
         /\ IndexesAgree(DropHashes(p, S))
<1> DEFINE d == DropHashes(p, S)
<1>0. p = [ref |-> p.ref, hash |-> p.hash, more |-> p.more, map |-> p.map]
  BY DEF Record
<1> DEFINE H == [b \in Block |-> IF b \in S THEN None ELSE p.hash[b]]
           M == [b \in Block |-> IF b \in S THEN {} ELSE p.more[b]]
           P == [h \in Hash |-> {b \in p.map[h] : b \notin S \/ h \notin HashesOf(p, b)}]
<1>1. d = [ref |-> p.ref, hash |-> H, more |-> M, map |-> P]
  <2>1. d = [p EXCEPT !.hash = H, !.more = M, !.map = P]
    BY DEF DropHashes
  <2> HIDE DEF d, H, M, P
  <2> QED BY <1>0, <2>1, Zenon
<1> HIDE DEF d
<1>2. d.ref = p.ref /\ d.hash = H /\ d.more = M /\ d.map = P
  <2> HIDE DEF H, M, P
  <2> QED BY <1>1
<1>3. /\ p.ref \in [Block -> Nat] /\ p.hash \in [Block -> Hash \cup {None}]
      /\ p.more \in [Block -> SUBSET Hash] /\ p.map \in [Hash -> SUBSET Block]
  BY DEF Record
<1>4. /\ d.hash \in [Block -> Hash \cup {None}] /\ d.more \in [Block -> SUBSET Hash]
      /\ d.map \in [Hash -> SUBSET Block]
  BY <1>2, <1>3
<1>5. d \in Record
  <2>1. d = [ref |-> d.ref, hash |-> d.hash, more |-> d.more, map |-> d.map]
    BY <1>1
  <2> QED BY <1>2, <1>3, <1>4, <2>1 DEF Record
<1>6. ASSUME NEW h \in Hash PROVE d.map[h] = p.map[h] \ S
  <2>1. \A b \in p.map[h] : h \in HashesOf(p, b)
    BY <1>3 DEF IndexesAgree
  <2> QED BY <1>2, <2>1
<1>7. \A b \in Block : /\ d.hash[b] = IF b \in S THEN None ELSE p.hash[b]
                       /\ d.more[b] = IF b \in S THEN {} ELSE p.more[b]
  BY <1>2
<1>8. \A b \in Block : HashesOf(d, b) = IF b \in S THEN {} ELSE HashesOf(p, b)
  BY <1>7 DEF HashesOf
<1>9. IndexesAgree(d)
  <2>1. \A b \in Block, h \in Hash : b \in d.map[h] <=> h \in HashesOf(d, b)
    BY <1>6, <1>8 DEF IndexesAgree
  <2>2. \A b \in Block : d.hash[b] = None => d.more[b] = {}
    BY <1>7 DEF IndexesAgree
  <2> QED BY <2>1, <2>2 DEF IndexesAgree
<1> QED BY <1>2, <1>5, <1>6, <1>7, <1>9 DEF d

(* _remove_cached_block_hashes reports exactly the entries that go.        *)
LEMMA DroppedIs ==
  ASSUME NEW p \in Record, IndexesAgree(p), NEW b \in Block
  PROVE  DroppedBy(p, b) = {h \in Hash : b \in p.map[h]}
<1>1. HashesOf(p, b) \subseteq Hash
  <2>1. p.hash[b] \in Hash \cup {None} /\ p.more[b] \subseteq Hash
    BY DEF Record
  <2> QED BY <2>1 DEF HashesOf
<1> QED BY <1>1 DEF DroppedBy, IndexesAgree

(* Blocks lose their hashes and a BlockRemoved event is sent for each.     *)
LEMMA DropMirrored ==
  ASSUME FiniteFacts, QueueAssumption, PoolAssumption, NEW p \in Record, IndexesAgree(p),
         NEW rep \in [Hash -> Nat], NEW pub, EventsMirror(p, pub, rep), NEW S \in SUBSET Block
  PROVE  EventsMirror(DropHashes(p, S),
           [h \in Hash |-> pub[h] - Cardinality({b \in S : h \in DroppedBy(p, b)})], rep)
<1> DEFINE d == DropHashes(p, S)
<1>1. ASSUME NEW h \in Hash
      PROVE  pub[h] - Cardinality({b \in S : h \in DroppedBy(p, b)})
               = Cardinality(d.map[h]) + rep[h]
  <2>1. {b \in S : h \in DroppedBy(p, b)} = p.map[h] \cap S
    BY DroppedIs
  <2>2. d.map[h] = p.map[h] \ S
    BY DropFacts
  <2>3. p.map[h] \in SUBSET Block
    BY DEF Record
  <2>4. IsFiniteSet(p.map[h])
    BY <2>3, Finite
  <2>5. Cardinality(p.map[h] \ S) = Cardinality(p.map[h]) - Cardinality(p.map[h] \cap S)
    BY <2>4, RemoveElements, Zenon
  <2>6. pub[h] = Cardinality(p.map[h]) + rep[h] /\ rep[h] \in Nat
    BY DEF EventsMirror
  <2>7. Cardinality(p.map[h]) \in Nat /\ Cardinality(p.map[h] \cap S) \in Nat
    <3>1. p.map[h] \cap S \in SUBSET Block
      BY <2>3
    <3> QED BY <2>3, <3>1, Finite
  <2> DEFINE all == Cardinality(p.map[h])
             gone == Cardinality(p.map[h] \cap S)
             dropped == Cardinality({b \in S : h \in DroppedBy(p, b)})
             stay == Cardinality(d.map[h])
  <2>8. dropped = gone /\ stay = all - gone
    BY <2>1, <2>2, <2>5, Zenon
  <2>9. pub[h] = all + rep[h] /\ rep[h] \in Nat /\ all \in Nat /\ gone \in Nat
    BY <2>6, <2>7, Zenon
  <2> HIDE DEF all, gone, dropped, stay
  <2>10. pub[h] - dropped = stay + rep[h]
    BY <2>8, <2>9
  <2> QED BY <2>10, Zenon DEF dropped, stay
<1> HIDE DEF d
<1> QED BY <1>1 DEF EventsMirror, d

(* _insert_block_hash adds one entry to both indexes.                      *)
LEMMA InsertFacts ==
  ASSUME PoolAssumption, NEW p \in Record, IndexesAgree(p), NEW b \in Block, NEW h \in Hash
  PROVE  /\ InsertHash(p, b, h) \in Record
         /\ InsertHash(p, b, h).ref = p.ref
         /\ InsertHash(p, b, h).map = Indexed(p.map, b, h)
         /\ IndexesAgree(InsertHash(p, b, h))
<1> DEFINE d == InsertHash(p, b, h)
<1>1. /\ p.ref \in [Block -> Nat] /\ p.hash \in [Block -> Hash \cup {None}]
      /\ p.more \in [Block -> SUBSET Hash] /\ p.map \in [Hash -> SUBSET Block]
      /\ p = [ref |-> p.ref, hash |-> p.hash, more |-> p.more, map |-> p.map]
  BY DEF Record
<1>2. h # None
  BY DEF PoolAssumption
<1>3. b \in p.map[h] <=> h \in p.more[b] \/ h = p.hash[b]
  BY <1>2 DEF IndexesAgree, HashesOf
<1>7. \A a \in Block, g \in Hash : a \in p.map[g] <=> g \in HashesOf(p, a)
  BY DEF IndexesAgree
<1>4. CASE b \in p.map[h]
  <2>1. d = p
    BY <1>4 DEF InsertHash
  <2>2. p.map = Indexed(p.map, b, h)
    <3>1. p.map[h] = p.map[h] \cup {b}
      BY <1>4
    <3> QED BY <1>1, <3>1 DEF Indexed
  <2> HIDE DEF d
  <2> QED BY <2>1, <2>2 DEF d
<1>5. CASE b \notin p.map[h] /\ p.hash[b] = None
  <2>1. d = [p EXCEPT !.hash[b] = h, !.map[h] = @ \cup {b}]
    BY <1>2, <1>5 DEF InsertHash
  <2>2. d = [ref |-> p.ref, hash |-> [p.hash EXCEPT ![b] = h], more |-> p.more,
             map |-> [p.map EXCEPT ![h] = @ \cup {b}]]
    BY <1>1, <2>1, Zenon
  <2> HIDE DEF d
  <2>3. d.ref = p.ref /\ d.more = p.more /\ d.hash = [p.hash EXCEPT ![b] = h]
        /\ d.map = [p.map EXCEPT ![h] = @ \cup {b}]
    BY <2>2
  <2>4. d \in Record
    <3>1. d.hash \in [Block -> Hash \cup {None}] /\ d.map \in [Hash -> SUBSET Block]
      BY <1>1, <2>3
    <3>2. d = [ref |-> d.ref, hash |-> d.hash, more |-> d.more, map |-> d.map]
      BY <2>2
    <3> QED BY <1>1, <2>3, <3>1, <3>2 DEF Record
  <2>5. \A g \in Hash : d.map[g] = IF g = h THEN p.map[g] \cup {b} ELSE p.map[g]
    BY <1>1, <2>3, Zenon
  <2>6. \A a \in Block : d.hash[a] = IF a = b THEN h ELSE p.hash[a]
    BY <1>1, <2>3
  <2>7. p.more[b] = {}
    BY <1>5 DEF IndexesAgree
  <2>8. \A a \in Block : HashesOf(d, a) = IF a = b THEN {h} ELSE HashesOf(p, a)
    BY <1>2, <2>3, <2>6, <2>7 DEF HashesOf
  <2>9. HashesOf(p, b) = {}
    BY <1>5, <2>7 DEF HashesOf
  <2>10. \A a \in Block, g \in Hash : a \in d.map[g] <=> g \in HashesOf(d, a)
    BY <1>7, <2>5, <2>8, <2>9, Zenon
  <2>11. \A a \in Block : d.hash[a] = None => d.more[a] = {}
    BY <1>2, <2>3, <2>6 DEF IndexesAgree
  <2>12. IndexesAgree(d)
    BY <2>10, <2>11 DEF IndexesAgree
  <2> QED BY <2>3, <2>4, <2>12 DEF d, Indexed
<1>6. CASE b \notin p.map[h] /\ p.hash[b] # None
  <2>1. d = [p EXCEPT !.more[b] = @ \cup {h}, !.map[h] = @ \cup {b}]
    BY <1>3, <1>6 DEF InsertHash
  <2>2. d = [ref |-> p.ref, hash |-> p.hash, more |-> [p.more EXCEPT ![b] = @ \cup {h}],
             map |-> [p.map EXCEPT ![h] = @ \cup {b}]]
    BY <1>1, <2>1, Zenon
  <2> HIDE DEF d
  <2>3. d.ref = p.ref /\ d.hash = p.hash /\ d.more = [p.more EXCEPT ![b] = @ \cup {h}]
        /\ d.map = [p.map EXCEPT ![h] = @ \cup {b}]
    BY <2>2
  <2>4. d \in Record
    <3>1. d.more \in [Block -> SUBSET Hash] /\ d.map \in [Hash -> SUBSET Block]
      BY <1>1, <2>3
    <3>2. d = [ref |-> d.ref, hash |-> d.hash, more |-> d.more, map |-> d.map]
      BY <2>2
    <3> QED BY <1>1, <2>3, <3>1, <3>2 DEF Record
  <2>5. \A g \in Hash : d.map[g] = IF g = h THEN p.map[g] \cup {b} ELSE p.map[g]
    BY <1>1, <2>3, Zenon
  <2>6. \A a \in Block : d.more[a] = IF a = b THEN p.more[a] \cup {h} ELSE p.more[a]
    BY <1>1, <2>3, Zenon
  <2>8. \A a \in Block : HashesOf(d, a) = IF a = b THEN HashesOf(p, a) \cup {h}
                                          ELSE HashesOf(p, a)
    BY <2>3, <2>6 DEF HashesOf
  <2>10. \A a \in Block, g \in Hash : a \in d.map[g] <=> g \in HashesOf(d, a)
    BY <1>7, <2>5, <2>8, Zenon
  <2>11. \A a \in Block : d.hash[a] = None => d.more[a] = {}
    BY <1>6, <2>3, <2>6 DEF IndexesAgree
  <2>12. IndexesAgree(d)
    BY <2>10, <2>11 DEF IndexesAgree
  <2> QED BY <2>3, <2>4, <2>12 DEF d, Indexed
<1> QED BY <1>4, <1>5, <1>6

(* The part of it that the invariant needs.                                *)
LEMMA InsertKeeps ==
  ASSUME PoolAssumption, NEW p \in Record, IndexesAgree(p), NEW b \in Block, NEW h \in Hash
  PROVE  /\ InsertHash(p, b, h) \in Record
         /\ InsertHash(p, b, h).ref = p.ref
         /\ IndexesAgree(InsertHash(p, b, h))
<1>1. InsertHash(p, b, h) \in Record
  BY InsertFacts, Zenon
<1>2. InsertHash(p, b, h).ref = p.ref
  BY InsertFacts, Zenon
<1>3. IndexesAgree(InsertHash(p, b, h))
  BY InsertFacts, Zenon
<1> QED BY <1>1, <1>2, <1>3

(* A hash given to a block that did not have it, with its BlockStored.     *)
LEMMA InsertMirrored ==
  ASSUME FiniteFacts, QueueAssumption, PoolAssumption, NEW p \in Record, IndexesAgree(p),
         NEW rep \in [Hash -> Nat], NEW pub, EventsMirror(p, pub, rep),
         NEW b \in Block, NEW h \in Hash, b \notin p.map[h]
  PROVE  EventsMirror(InsertHash(p, b, h), Published(pub, {}, {h}), rep)
<1> DEFINE d == InsertHash(p, b, h)
<1>1. ASSUME NEW g \in Hash
      PROVE  pub[g] - (IF g \in {} THEN 1 ELSE 0) + (IF g \in {h} THEN 1 ELSE 0)
               = Cardinality(d.map[g]) + rep[g]
  <2>1. d.map[g] = IF g = h THEN p.map[g] \cup {b} ELSE p.map[g]
    <3>1. d.map = Indexed(p.map, b, h)
      BY InsertFacts, Zenon
    <3>2. p.map \in [Hash -> SUBSET Block]
      BY DEF Record
    <3> HIDE DEF d
    <3> QED BY <3>1, <3>2, Zenon DEF Indexed
  <2>2. p.map[g] \in SUBSET Block
    BY DEF Record
  <2>3. IsFiniteSet(p.map[g]) /\ Cardinality(p.map[g]) \in Nat
    BY <2>2, Finite
  <2>4. b \notin p.map[g] => Cardinality(p.map[g] \cup {b}) = Cardinality(p.map[g]) + 1
    BY <2>3, AddElement, Zenon
  <2>5. pub[g] = Cardinality(p.map[g]) + rep[g] /\ rep[g] \in Nat
    BY DEF EventsMirror
  <2> HIDE DEF d
  <2> QED BY <2>1, <2>3, <2>4, <2>5
<1> HIDE DEF d
<1> QED BY <1>1 DEF EventsMirror, Published, d

(* A block that loses its hashes and gets a new one, with the BlockRemoved *)
(* and BlockStored events of both: a promotion.                            *)
LEMMA PromoteMirrored ==
  ASSUME FiniteFacts, QueueAssumption, PoolAssumption, NEW p \in Record, IndexesAgree(p),
         NEW rep \in [Hash -> Nat], NEW pub, EventsMirror(p, pub, rep),
         NEW b \in Block, NEW h \in Hash
  PROVE  EventsMirror(InsertHash(DropHashes(p, {b}), b, h),
                      Published(pub, DroppedBy(p, b), {h}), rep)
<1> DEFINE e == DropHashes(p, {b})
           d == InsertHash(e, b, h)
<1>0. e \in Record /\ IndexesAgree(e) /\ \A g \in Hash : e.map[g] = p.map[g] \ {b}
  BY DropFacts
<1>1. ASSUME NEW g \in Hash
      PROVE  pub[g] - (IF g \in DroppedBy(p, b) THEN 1 ELSE 0) + (IF g \in {h} THEN 1 ELSE 0)
               = Cardinality(d.map[g]) + rep[g]
  <2>1. d.map[g] = IF g = h THEN e.map[g] \cup {b} ELSE e.map[g]
    <3> HIDE DEF e
    <3>1. d.map = Indexed(e.map, b, h)
      BY <1>0, InsertFacts, Zenon
    <3>2. e.map \in [Hash -> SUBSET Block]
      BY <1>0 DEF Record
    <3> HIDE DEF d
    <3> QED BY <3>1, <3>2, Zenon DEF Indexed
  <2>2. p.map[g] \in SUBSET Block
    BY DEF Record
  <2>3. IsFiniteSet(p.map[g]) /\ Cardinality(p.map[g]) \in Nat
    BY <2>2, Finite
  <2> DEFINE m == p.map[g] \ {b}
  <2>4. IsFiniteSet(m)
        /\ Cardinality(m) = Cardinality(p.map[g]) - (IF b \in p.map[g] THEN 1 ELSE 0)
    <3>1. /\ IsFiniteSet(p.map[g] \ {b})
          /\ Cardinality(p.map[g] \ {b}) = Cardinality(p.map[g]) - IF b \in p.map[g] THEN 1 ELSE 0
      BY <2>3, RemoveElement, Zenon
    <3> QED BY <3>1, Zenon DEF m
  <2>5. b \notin m
    OBVIOUS
  <2> HIDE DEF m
  <2>6. Cardinality(m \cup {b}) = Cardinality(m) + 1
    BY <2>4, <2>5, AddElement, Zenon
  <2>7. pub[g] = Cardinality(p.map[g]) + rep[g] /\ rep[g] \in Nat
    BY DEF EventsMirror
  <2>8. g \in DroppedBy(p, b) <=> b \in p.map[g]
    BY DroppedIs
  <2>9. e.map[g] = m
    BY <1>0, Zenon DEF m
  <2> HIDE DEF d, e
  <2> DEFINE all == Cardinality(p.map[g])
             rest == Cardinality(m)
  <2>10. rest \in Nat
    <3>1. m \in SUBSET Block
      BY <2>2 DEF m
    <3> QED BY <3>1, Finite
  <2>11. Cardinality(d.map[g]) = IF g = h THEN rest + 1 ELSE rest
    BY <2>1, <2>6, <2>9
  <2>12. rest = all - (IF b \in p.map[g] THEN 1 ELSE 0) /\ all \in Nat
         /\ pub[g] = all + rep[g] /\ rep[g] \in Nat
    BY <2>3, <2>4, <2>7, Zenon
  <2>13. pub[g] - (IF g \in DroppedBy(p, b) THEN 1 ELSE 0)
           = pub[g] - (IF b \in p.map[g] THEN 1 ELSE 0)
    BY <2>8
  <2> HIDE DEF all, rest
  <2>14. pub[g] - (IF b \in p.map[g] THEN 1 ELSE 0) = rest + rep[g]
    <3>1. CASE b \in p.map[g]
      BY <2>12, <3>1
    <3>2. CASE b \notin p.map[g]
      BY <2>12, <3>2
    <3> QED BY <3>1, <3>2
  <2>15. CASE g = h
    BY <2>10, <2>11, <2>12, <2>13, <2>14, <2>15
  <2>16. CASE g # h
    BY <2>10, <2>11, <2>12, <2>13, <2>14, <2>16
  <2> QED BY <2>15, <2>16
<1> HIDE DEF d
<1> QED BY <1>1, Zenon DEF EventsMirror, Published, d

(* What get_new_blocks does to the list: its first n blocks leave.         *)
LEMMA GetNewList ==
  ASSUME FiniteFacts, QueueAssumption, NEW s, Linked(queue, s), NEW n \in 1 .. queue.num,
         queue' = PopleftN(queue, n)
  PROVE  /\ n \in 1 .. Len(s)
         /\ Linked(queue', SubSeq(s, n + 1, Len(s)))
         /\ Range(Walk(queue, n)) \subseteq Range(s)
         /\ Range(SubSeq(s, n + 1, Len(s))) = Range(s) \ Range(Walk(queue, n))
<1>1. s \in Seq(Block) /\ IsInjective(s) /\ Len(s) \in Nat /\ queue.num = Len(s)
      /\ DOMAIN s = 1 .. Len(s)
  BY LinkedFacts
<1>2. n \in 1 .. Len(s) /\ n \in 0 .. Len(s)
  BY <1>1
<1>3. Linked(queue', SubSeq(s, n + 1, Len(s)))
  BY <1>2, PopleftNLinked
<1>4. Walk(queue, n) = [i \in 1 .. n |-> s[i]]
  BY <1>2, WalkIs
<1>5. Range(Walk(queue, n)) = {s[i] : i \in 1 .. n}
  BY <1>4 DEF Range
<1>6. {s[i] : i \in 1 .. n} \subseteq Range(s)
  <2>1. \A i \in 1 .. n : i \in 1 .. Len(s)
    BY <1>1, <1>2
  <2> QED BY <1>1, <2>1 DEF Range
<1>7. Range(SubSeq(s, n + 1, Len(s))) = Range(s) \ {s[i] : i \in 1 .. n}
  BY <1>1, <1>2, RestRange
<1> QED BY <1>2, <1>3, <1>5, <1>6, <1>7

(* A change of the reference counts leaves the prefix cache alone.         *)
LEMMA RefOnly ==
  ASSUME NEW p \in Record, NEW r \in [Block -> Nat]
  PROVE  /\ WithRef(p, r) \in Record /\ WithRef(p, r).ref = r
         /\ WithRef(p, r).map = p.map
         /\ IndexesAgree(p) => IndexesAgree(WithRef(p, r))
         /\ \A pub, rep : EventsMirror(p, pub, rep) => EventsMirror(WithRef(p, r), pub, rep)
         /\ OnlyWhenCaching(p) => OnlyWhenCaching(WithRef(p, r))
<1> DEFINE d == WithRef(p, r)
<1>1. p = [ref |-> p.ref, hash |-> p.hash, more |-> p.more, map |-> p.map]
  BY DEF Record
<1>2. d = [ref |-> r, hash |-> p.hash, more |-> p.more, map |-> p.map]
  BY <1>1 DEF WithRef
<1> HIDE DEF d
<1>3. d.ref = r /\ d.hash = p.hash /\ d.more = p.more /\ d.map = p.map
  BY <1>2
<1>4. d \in Record
  BY <1>2 DEF Record
<1>5. IndexesAgree(p) => IndexesAgree(d)
  BY <1>3 DEF IndexesAgree, HashesOf
<1>6. (\A pub, rep : EventsMirror(p, pub, rep) => EventsMirror(d, pub, rep))
      /\ (OnlyWhenCaching(p) => OnlyWhenCaching(d))
  BY <1>3 DEF EventsMirror, OnlyWhenCaching
<1> QED BY <1>3, <1>4, <1>5, <1>6 DEF d

(* What touch() does to the list: the blocks it finds there leave it.      *)
LEMMA TouchList ==
  ASSUME FiniteFacts, QueueAssumption, NEW s, Linked(queue, s),
         NEW t \in Seq(Block), IsInjective(t), queue' = RemoveBlocks(queue, Only(t, Range(s)))
  PROVE  /\ Linked(queue', Only(s, Block \ Range(Only(t, Range(s)))))
         /\ Range(Only(t, Range(s))) = Range(t) \cap Range(s)
         /\ Range(Only(s, Block \ Range(Only(t, Range(s))))) = Range(s) \ Range(t)
<1> DEFINE o == Only(t, Range(s))
<1>1. o \in Seq(Block) /\ IsInjective(o) /\ Range(o) = Range(t) \cap Range(s)
  BY OnlyFacts
<1> HIDE DEF o
<1>2. Range(o) \subseteq Range(s)
  BY <1>1
<1>3. queue' = RemoveBlocks(queue, o)
  BY DEF o
<1>4. Linked(queue', Only(s, Block \ Range(o)))
  BY <1>1, <1>2, <1>3, RemoveBlocksLinked
<1>5. Range(Only(s, Block \ Range(o))) = Range(s) \cap (Block \ Range(o))
  <2>1. s \in Seq(Block)
    BY LinkedFacts
  <2> DEFINE A == Block \ Range(o)
  <2> HIDE DEF A
  <2>2. Range(Only(s, A)) = Range(s) \cap A
    BY <2>1, OnlyFacts
  <2> QED BY <2>2, Zenon DEF A
<1>6. Range(s) \cap (Block \ Range(o)) = Range(s) \ Range(t)
  <2>1. Range(s) \subseteq Block
    BY LinkedFacts
  <2> QED BY <1>1, <2>1
<1>7. Range(Only(s, Block \ Range(o))) = Range(s) \ Range(t)
  BY <1>5, <1>6, Zenon
<1> QED BY <1>1, <1>4, <1>7, Zenon DEF o

(* What free_blocks does to the list: the blocks to be evicted first are   *)
(* put at its front, the others at its end.                                *)
LEMMA PutBackList ==
  ASSUME QueueAssumption, NEW s, Linked(queue, s),
         NEW f \in Seq(Block), NEW l \in Seq(Block), IsInjective(f), IsInjective(l),
         Range(f) \cap Range(l) = {}, Range(f) \cap Range(s) = {}, Range(l) \cap Range(s) = {},
         queue' = AppendN(PrependN(queue, f), l)
  PROVE  /\ Linked(queue', (f \o s) \o l)
         /\ Range((f \o s) \o l) = Range(f) \cup Range(s) \cup Range(l)
<1>1. s \in Seq(Block)
  BY LinkedFacts
<1> DEFINE u == f \o s
           q == PrependN(queue, f)
<1>2. u \in Seq(Block)
  BY <1>1
<1>3. Range(u) = Range(f) \cup Range(s)
  BY <1>1, RangeConcat
<1>4. Linked(q, u)
  BY PrependNLinked
<1> HIDE DEF u, q
<1>5. Range(l) \cap Range(u) = {}
  BY <1>3
<1>6. Linked(AppendN(q, l), u \o l)
  BY <1>4, <1>5, AppendNLinked
<1>7. Range(u \o l) = Range(u) \cup Range(l)
  BY <1>2, RangeConcat
<1> QED BY <1>3, <1>6, <1>7 DEF u, q

=============================================================================
