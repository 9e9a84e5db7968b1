------------------------- MODULE MCReviewedEvidence -------------------------
EXTENDS ReviewedEvidence, TLC
CONSTANT ask

\* One question, put twice, to one table or to two.
SameQuestion == [r \in Receipt |-> ask]

Symmetry ==
  Permutations(Receipt) \union Permutations(Table) \union Permutations(Pack)
=============================================================================
