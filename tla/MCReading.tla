----------------------------- MODULE MCReading ------------------------------
\* What a reader is served, for TLC.
EXTENDS Reading

Draft(f, t, r) == [from |-> f, to |-> t, relation |-> r, basis |-> "explicit",
                   evidence |-> TRUE]

\* Edges of every kind among three nodes, and two that a gate refuses.
Drafts ==
    {Draft(f, t, "updates") : f \in Nodes, t \in Nodes}
      \cup {Draft(1, 2, "parallel"), Draft(2, 1, "parallel"), Draft(3, 1, "replaces"),
            [Draft(1, 3, "refutes") EXCEPT !.basis = "inferred", !.evidence = FALSE],
            [Draft(2, 3, "extends") EXCEPT !.basis = "guessed"]}

MCProposals == UNION {[1..n -> Drafts] : n \in 0..4}
=============================================================================
