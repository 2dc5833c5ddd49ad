------------------------------ MODULE MCReview ------------------------------
EXTENDS Review, TLC

Symmetry == Permutations(Bugs) \cup Permutations(Sources)
            \cup Permutations(Sessions)
=============================================================================
