----------------------------- MODULE MCReviews -----------------------------
EXTENDS Reviews, TLC

CONSTANTS r1, r2, r3, w1, w2

\* The reviews an undo opens are alike.
MCSymmetry == Permutations(Workers) \cup Permutations(Reviews \ Proposed)
=============================================================================
