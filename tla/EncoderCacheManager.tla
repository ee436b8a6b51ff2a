------------------------ MODULE EncoderCacheManager ------------------------
(***************************************************************************)
(* EncoderCacheManager: which encoder outputs (of images, audio...) the    *)
(* workers hold, which requests refer to them, and which may be evicted.   *)
(* The manager is a record m, its methods are functions of it:             *)
(*   m.size[h]  num_embeds_by_hash, 0 when h is not cached                 *)
(*   m.refs[h]  cached[h], the requests that refer to h                    *)
(*   m.ids[r]   request_cached_ids[r], the inputs of r that are cached     *)
(*   m.freeable the cached, unreferenced hashes, oldest first              *)
(*   m.freed    the hashes evicted since the last scheduler output         *)
(*   m.num_free_slots, m.num_freeable_slots                                *)
(***************************************************************************)
EXTENDS Integers, Sequences, FiniteSets, SequencesExt, FiniteSetsExt

CONSTANTS
  Req, Hash,
  Inputs,     \* Inputs[r]: sequence of [hash, start, embeds], by position
  CacheSize

ASSUME EncoderAssumption ==
  /\ CacheSize \in Nat
  /\ \A r \in Req : \A i \in DOMAIN Inputs[r] :
       /\ Inputs[r][i].hash \in Hash
       /\ Inputs[r][i].embeds \in 1 .. CacheSize /\ Inputs[r][i].start \in Nat

HashOf(r, i) == Inputs[r][i].hash
EmbedsOf(r, i) == Inputs[r][i].embeds
SumOf(r, ids) == MapThenSumSet(LAMBDA i : EmbedsOf(r, i), ids)

NewManager ==
  [size |-> [h \in Hash |-> 0], refs |-> [h \in Hash |-> {}], ids |-> [r \in Req |-> {}],
   freeable |-> <<>>, freed |-> {},
   num_free_slots |-> CacheSize, num_freeable_slots |-> CacheSize]

InCache(m, h) == m.size[h] # 0

\* check_and_update_cache of an input that is cached: refer to it.
Refer(m, r, i) ==
  LET h == HashOf(r, i) IN
  [m EXCEPT !.refs[h] = @ \cup {r},
            !.ids[r] = @ \cup {i},
            !.freeable = SelectSeq(@, LAMBDA x : x # h),
            !.num_freeable_slots = IF m.refs[h] = {} THEN @ - m.size[h] ELSE @]

\* can_allocate: within the budget, and in slots that are free or can be.
CanAllocate(m, r, i, budget, scheduled) ==
  /\ EmbedsOf(r, i) <= budget
  /\ EmbedsOf(r, i) + scheduled <= m.num_freeable_slots

\* What can_allocate evicts to have n free slots: the oldest entries that do.
Evict(m, n) ==
  LET SlotsOf(k) == FoldLeft(LAMBDA a, h : a + m.size[h], 0, SubSeq(m.freeable, 1, k))
      k == Min({j \in 0 .. Len(m.freeable) : n <= m.num_free_slots + SlotsOf(j)})
      gone == ToSet(SubSeq(m.freeable, 1, k))
  IN [m EXCEPT !.size = [h \in Hash |-> IF h \in gone THEN 0 ELSE @[h]],
               !.freeable = SubSeq(@, k + 1, Len(@)),
               !.freed = @ \cup gone,
               !.num_free_slots = @ + SlotsOf(k)]

Allocate(m, r, i) ==
  LET h == HashOf(r, i) IN
  [m EXCEPT !.size[h] = EmbedsOf(r, i),
            !.refs[h] = @ \cup {r},
            !.ids[r] = @ \cup {i},
            !.num_free_slots = @ - EmbedsOf(r, i),
            !.num_freeable_slots = @ - EmbedsOf(r, i)]

\* Mutant: the reference goes with the first occurrence of the item.
FreeEncoderInputFirst(m, r, i) ==
  LET h == HashOf(r, i) IN
  IF m.refs[h] = {} THEN [m EXCEPT !.ids[r] = @ \ {i}]
  ELSE LET last == m.refs[h] \ {r} = {} IN
       [m EXCEPT !.ids[r] = @ \ {i},
                 !.refs[h] = @ \ {r},
                 !.freeable = IF last THEN Append(@, h) ELSE @,
                 !.num_freeable_slots = IF last THEN @ + m.size[h] ELSE @]

\* free_encoder_input: the request gives up input i, and the item with the
\* last of the inputs that repeat it.
FreeEncoderInput(m, r, i) ==
  LET h      == HashOf(r, i)
      repeat == \E j \in m.ids[r] \ {i} : HashOf(r, j) = h
      last   == m.refs[h] \ {r} = {}
  IN IF m.refs[h] = {} \/ repeat THEN [m EXCEPT !.ids[r] = @ \ {i}]
     ELSE [m EXCEPT !.ids[r] = @ \ {i},
                    !.refs[h] = @ \ {r},
                    !.freeable = IF last THEN Append(@, h) ELSE @,
                    !.num_freeable_slots = IF last THEN @ + m.size[h] ELSE @]

\* free_encoder_input for some inputs; free for all of them.
FreeInputs(m, r, ids) ==
  FoldLeft(LAMBDA a, i : FreeEncoderInput(a, r, i), m, SetToSortSeq(ids, <))
Free(m, r) == FreeInputs(m, r, m.ids[r])

\* get_freed_mm_hashes: what the workers may drop, unless cached again.
FreedHashes(m) == {h \in m.freed : ~InCache(m, h)}
=============================================================================
