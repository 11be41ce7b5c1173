------------------------------- MODULE Recall -------------------------------
(***************************************************************************)
(* Topic recall in batches: RecallService of retrieval/recall.py.  Every   *)
(* batch ranks the whole pool anew and resumes at an offset into that      *)
(* ranking, skipping the documents delivered before; documents that are    *)
(* indexed between two batches come in at any rank and move the others.    *)
(***************************************************************************)
EXTENDS Naturals, FiniteSets

CONSTANTS Documents,    \* documents that match the topic, sooner or later
          batch_size,   \* RECALL_BATCH_SIZE
          MaxShifts     \* bound: times the ranking changes

\* Of the constants (assumed where the module is instantiated).
RecallAssumption ==
    /\ IsFiniteSet(Documents)
    /\ batch_size \in Nat \ {0}
    /\ MaxShifts \in Nat

VARIABLES
    ordered,    \* the ranking rank_hits gives now: no document twice
    cursor,     \* RecallCursor: [offset, seen]
    delivered,  \* documents handed out
    again,      \* ... and handed out once more
    ended,      \* the last page had no next_cursor
    jumped,     \* documents a shift moved from behind the offset to before it
    shifts

vars == <<ordered, cursor, delivered, again, ended, jumped, shifts>>

Rankings(S) == {r \in [1..Cardinality(S) -> S] : \A i, j \in DOMAIN r : r[i] = r[j] => i = j}

\* The documents of a ranking.
Ranked(ranking) == {ranking[i] : i \in DOMAIN ranking}

Init ==
    /\ \E S \in SUBSET Documents : ordered \in Rankings(S)
    /\ cursor = [offset |-> 0, seen |-> {}]
    /\ delivered = {}
    /\ again = {}
    /\ ended = FALSE
    /\ jumped = {}
    /\ shifts = 0

\* Documents before the offset in a ranking.
Before(ranking) == {ranking[i] : i \in {j \in DOMAIN ranking : j <= cursor.offset}}

\* New chunks change the scores: the pool grows and the ranks move.
Shift ==
    /\ ~ended /\ shifts < MaxShifts
    /\ \E S \in {T \in SUBSET Documents : Ranked(ordered) \subseteq T} :
         ordered' \in Rankings(S)
    /\ jumped' = jumped \cup (Before(ordered') \ Before(ordered))
    /\ shifts' = shifts + 1
    /\ UNCHANGED <<cursor, delivered, again, ended>>

\* Mutant: the offset is counted in documents not seen yet.
EligibleUnseen(ranking, c) ==
    LET unseen == {i \in DOMAIN ranking : ranking[i] \notin c.seen}
    IN  {i \in unseen : Cardinality({j \in unseen : j <= i}) > c.offset}

\* offset addresses the full ranking; seen only guards against repetition.
Eligible(ranking, c) == {i \in DOMAIN ranking : i > c.offset /\ ranking[i] \notin c.seen}

\* The first of them.
Taken(eligible) == {i \in eligible : Cardinality({j \in eligible : j < i}) < batch_size}

RecallPage ==
    /\ ~ended
    /\ LET taken == Taken(Eligible(ordered, cursor))
           page == {ordered[i] : i \in taken}
           offset == IF taken = {} THEN cursor.offset
                     ELSE CHOOSE i \in taken : \A j \in taken : j <= i
           rest == {i \in DOMAIN ordered : i > offset /\ ordered[i] \notin cursor.seen}
       IN  /\ delivered' = delivered \cup page
           /\ again' = again \cup (delivered \cap page)
           /\ ended' = (rest = {})
           /\ cursor' = [offset |-> offset, seen |-> cursor.seen \cup page]
    /\ UNCHANGED <<ordered, jumped, shifts>>

Next == Shift \/ RecallPage

Spec == Init /\ [][Next]_vars

----------------------------------------------------------------------------
(* Properties.                                                              *)

\* However the ranking shifts between two batches, no document is delivered
\* twice, and one that is passed over is one the shift moved before the offset.
PassedOverOnlyByJump ==
    /\ again = {}
    /\ ended => Ranked(ordered) \subseteq delivered \cup jumped
=============================================================================
