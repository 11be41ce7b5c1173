----------------------------- MODULE Evolution -----------------------------
(***************************************************************************)
(* The graph contract of services/evolution.py: the gates on the edges a   *)
(* model proposes, and the search for a cycle in the chain of updates,     *)
(* replaces and extends.  The search is the code's: node states, a stack,  *)
(* one neighbour at a time.                                                *)
(***************************************************************************)
EXTENDS Naturals, Sequences

CONSTANTS Nodes,      \* numbers: sorted() orders the ends of a parallel edge
          Proposals   \* sequences of edge drafts

EdgeDrafts == [from : Nodes, to : Nodes, relation : STRING, basis : STRING,
               evidence : BOOLEAN]

\* Of the constants (assumed where the module is instantiated).
EvolutionAssumption == Proposals \subseteq Seq(EdgeDrafts)

CYCLE_RELATIONS == {"updates", "replaces", "extends"}
EvidenceRequired == {"validates", "refutes", "applies"}

VARIABLES
    drafts,     \* the proposal: [from, to, relation, basis, evidence]
    checked,    \* drafts the gates have seen
    edges,      \* the edges kept
    state,      \* of a node: unvisited, in the stack, done
    stack,      \* the path of the search
    waiting,    \* edges of the nodes in the stack not yet looked at
    verdict,    \* "none", "accepted" or "cycle"
    cycle       \* the path of the cycle found

vars == <<drafts, checked, edges, state, stack, waiting, verdict, cycle>>

Init ==
    /\ drafts \in Proposals
    /\ checked = 0
    /\ edges = <<>>
    /\ state = [n \in Nodes |-> "unvisited"]
    /\ stack = <<>>
    /\ waiting = {}
    /\ verdict = "none"
    /\ cycle = <<>>

----------------------------------------------------------------------------
(* validate_edges.                                                          *)

\* parallel is undirected: its ends are sorted.
Normalized(e) ==
    IF e.relation = "parallel" /\ e.to < e.from
    THEN <<e.to, e.from, e.relation>> ELSE <<e.from, e.to, e.relation>>

Kept(e, kept) ==
    /\ e.from # e.to
    /\ e.basis \in {"explicit", "inferred"}
    /\ e.basis = "inferred" /\ e.relation \in EvidenceRequired => e.evidence
    /\ \A i \in DOMAIN kept : Normalized(kept[i]) # Normalized(e)

CheckEdge ==
    /\ checked < Len(drafts)
    /\ checked' = checked + 1
    /\ edges' = IF Kept(drafts[checked + 1], edges)
                THEN Append(edges, drafts[checked + 1]) ELSE edges
    /\ UNCHANGED <<drafts, state, stack, waiting, verdict, cycle>>

----------------------------------------------------------------------------
(* detect_cycles.                                                           *)

\* The pairs that edges of some relations join.
Joined(kept, relations) ==
    {<<kept[i].from, kept[i].to>> : i \in {j \in DOMAIN kept : kept[j].relation \in relations}}

\* Mutant: parallel edges count as directed ones.
ChainWithParallel(kept) == Joined(kept, CYCLE_RELATIONS \cup {"parallel"})

Chain(kept) == Joined(kept, CYCLE_RELATIONS)

\* The node the search is at.
Top == stack[Len(stack)]

Searching == checked = Len(drafts) /\ verdict = "none"

Enter(n, left) ==
    /\ state' = [state EXCEPT ![n] = "in_stack"]
    /\ stack' = Append(stack, n)
    /\ waiting' = left \cup {e \in Chain(edges) : e[1] = n}

VisitRoot ==
    /\ Searching /\ stack = <<>>
    /\ \E n \in Nodes :
         /\ state[n] = "unvisited"
         /\ \E e \in Chain(edges) : e[1] = n
         /\ Enter(n, waiting)
    /\ UNCHANGED <<drafts, checked, edges, verdict, cycle>>

Position(n) == CHOOSE i \in DOMAIN stack : stack[i] = n

Closes(n) == state[n] = "in_stack"

\* The next neighbour of the node on top of the stack.
LookAt ==
    /\ Searching /\ stack # <<>>
    /\ \E e \in waiting :
         /\ e[1] = Top
         /\ IF Closes(e[2])
            THEN /\ verdict' = "cycle"
                 /\ cycle' = Append(SubSeq(stack, Position(e[2]), Len(stack)), e[2])
                 /\ UNCHANGED <<state, stack, waiting>>
            ELSE /\ UNCHANGED <<verdict, cycle>>
                 /\ IF state[e[2]] = "unvisited"
                    THEN Enter(e[2], waiting \ {e})
                    ELSE /\ waiting' = waiting \ {e}
                         /\ UNCHANGED <<state, stack>>
    /\ UNCHANGED <<drafts, checked, edges>>

Leave ==
    /\ Searching /\ stack # <<>>
    /\ \A e \in waiting : e[1] # Top
    /\ state' = [state EXCEPT ![Top] = "done"]
    /\ stack' = SubSeq(stack, 1, Len(stack) - 1)
    /\ UNCHANGED <<drafts, checked, edges, waiting, verdict, cycle>>

Accept ==
    /\ Searching /\ stack = <<>>
    /\ \A e \in Chain(edges) : state[e[1]] = "done"
    /\ verdict' = "accepted"
    /\ UNCHANGED <<drafts, checked, edges, state, stack, waiting, cycle>>

Next == CheckEdge \/ VisitRoot \/ LookAt \/ Leave \/ Accept

Spec == Init /\ [][Next]_vars

----------------------------------------------------------------------------
(* Properties.                                                              *)

\* The edges a cycle may run along, read off the edges that were kept.
Proposed == Joined(edges, CYCLE_RELATIONS)

\* EVO-02: an accepted chain has no cycle, that is, every set of nodes has one
\* with no successor in it, and a rejection shows a cycle that is there.
VerdictIsTrue ==
    /\ verdict = "accepted" =>
         \A S \in (SUBSET Nodes) \ {{}} :
            \E n \in S : \A m \in S : <<n, m>> \notin Proposed
    /\ verdict = "cycle" =>
         /\ Len(cycle) > 1 /\ cycle[1] = cycle[Len(cycle)]
         /\ \A i \in 1..(Len(cycle) - 1) : <<cycle[i], cycle[i + 1]>> \in Proposed
=============================================================================
