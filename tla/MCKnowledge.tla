---------------------------- MODULE MCKnowledge ----------------------------
\* Claims, events and merges, for TLC: runs that race around one merge and its
\* undo, and merges and undos that race over what runs have left.
EXTENDS Knowledge, TLC

CONSTANTS x1, x2, k1, w1, w2, o1, o2

MCSymmetry == Permutations({w1, w2}) \cup Permutations({x1, x2}) \cup Permutations({o1, o2})

Running == {w \in Workers : run[w].pc # "idle"}
Undoing == {o \in Owners : act[o].pc \in {"look", "undo"}}
Merging == {o \in Owners : act[o].pc # "idle"} \ Undoing

\* Bound of the first side: one merge, and an undo of it.
RunsRace == Len(merges) + Cardinality(Merging) <= 1 /\ Cardinality(Undoing) <= 1

\* Bounds of the second side: two events, a claim at most, and no run between them.
MergesRace ==
    /\ Len(events) <= 2 /\ Running = {}
    /\ families = 1 /\ Cardinality(claims) <= 1

MCBounds == RunsRace \/ MergesRace
============================================================================
