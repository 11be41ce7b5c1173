----------------------------- MODULE MCCapture -----------------------------
\* Items of two feeds that lead to one document, whose page changes.
EXTENDS Capture, TLC

CONSTANTS i1, i2, u1, c1, c2, f1, f2, p1, p2

MCUrlOf == [i \in Items |-> u1]
MCSymmetry == Permutations({i1, i2}) \cup Permutations({c1, c2})
              \cup Permutations({f1, f2}) \cup Permutations({p1, p2})
============================================================================
