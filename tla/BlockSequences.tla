--------------------------- MODULE BlockSequences ---------------------------
(***************************************************************************)
(* Sequences of blocks without repetition: what the free list promises and *)
(* what its users hand to it.                                              *)
(***************************************************************************)
EXTENDS Integers, Sequences, FiniteSets, Functions

\* The elements of S in some order.
Orderings(S) == Bijection(1 .. Cardinality(S), S)

\* The elements of s that are in A, in their order.
Only(s, A) ==
  LET only[i \in 0 .. Len(s)] ==
        IF i = 0 THEN <<>>
        ELSE IF s[i] \in A THEN Append(only[i - 1], s[i]) ELSE only[i - 1]
  IN  only[Len(s)]
=============================================================================
