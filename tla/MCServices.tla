----------------------------- MODULE MCServices -----------------------------
\* The services around the pipeline, for TLC.
EXTENDS Services, TLC

CONSTANTS r1, r2, r3

MCSymmetry == Permutations({r1, r2, r3})
=============================================================================
