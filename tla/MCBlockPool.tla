---------------------------- MODULE MCBlockPool ----------------------------
EXTENDS BlockPool, TLC

MCHashTokens == [h \in Hash |-> IF h \in FullHash THEN 2 ELSE 1]

\* Nothing tells two clients, two blocks or two full hashes apart: the CHOOSEs
\* of the model have one value at most where HashIndexesAgree and LinksAgree
\* hold.
Symmetry == Permutations(Client) \cup Permutations(Block) \cup Permutations(FullHash)
=============================================================================
