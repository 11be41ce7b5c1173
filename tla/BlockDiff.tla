----------------------------- MODULE BlockDiff -----------------------------
(***************************************************************************)
(* The diff of two parses of a document (parsing/blocksdiff.py): a walk    *)
(* over the opcodes of difflib's SequenceMatcher lists the blocks that are *)
(* off the common spine, and the whole text decides the kind, wherever the *)
(* two parsers have cut it into blocks.                                    *)
(***************************************************************************)
EXTENDS Naturals, Sequences, FiniteSets, SequencesExt

CONSTANTS Texts,        \* what a block may say: sequences of words
          MaxBlocks,    \* bound: blocks of a parse
          None

VARIABLES old, new,     \* the block texts of the two parses
          upgraded,     \* the parsers differ
          fields,       \* title, author or date differ
          i1, j1,         \* the blocks that have been walked
          changed,      \* changed_blocks: from and to are 0 where there is none
          kind

vars == <<old, new, upgraded, fields, i1, j1, changed, kind>>

Init ==
    /\ old \in SeqOf(Texts, MaxBlocks) /\ new \in SeqOf(Texts, MaxBlocks)
    /\ upgraded \in BOOLEAN /\ fields \in BOOLEAN
    /\ i1 = 0 /\ j1 = 0 /\ changed = {} /\ kind = None

\* Opcode equal, one block of it.
Equal ==
    /\ i1 < Len(old) /\ j1 < Len(new) /\ old[i1 + 1] = new[j1 + 1]
    /\ i1' = i1 + 1 /\ j1' = j1 + 1
    /\ UNCHANGED <<old, new, upgraded, fields, changed, kind>>

\* SequenceMatcher leaves no block between two matches that it could still
\* match, and ends a gap at a match or at the end of both.
Gap(m, n) ==
    /\ m > i1 \/ n > j1
    /\ ToSet(SubSeq(old, i1 + 1, m)) \cap ToSet(SubSeq(new, j1 + 1, n)) = {}
    /\ IF m < Len(old) /\ n < Len(new) THEN old[m + 1] = new[n + 1]
       ELSE m = Len(old) /\ n = Len(new)

\* Mutant: the longer side of a replacement is cut off.
OffsetsPaired(gone, come) == 1 .. (IF gone < come THEN gone ELSE come)

Offsets(gone, come) == 1 .. (IF gone > come THEN gone ELSE come)

\* Opcodes delete, insert and replace: blocks at the same offset that read
\* alike (a ratio of characters, left open here) are one edited block.
Entries(gone, come, alike) ==
    LET offsets == Offsets(gone, come) IN
    {[from |-> i1 + k, to |-> j1 + k] : k \in alike}
      \cup {[from |-> i1 + k, to |-> 0] : k \in {k \in offsets \ alike : k <= gone}}
      \cup {[from |-> 0, to |-> j1 + k] : k \in {k \in offsets \ alike : k <= come}}

Differ ==
    \E m \in i1 .. Len(old), n \in j1 .. Len(new) :
        /\ Gap(m, n)
        /\ \E alike \in SUBSET ((1 .. m - i1) \cap (1 .. n - j1)) :
              changed' = changed \cup Entries(m - i1, n - j1, alike)
        \* The match that closes the gap is walked with it.
        /\ i1' = IF m < Len(old) THEN m + 1 ELSE m
        /\ j1' = IF m < Len(old) THEN n + 1 ELSE n
        /\ UNCHANGED <<old, new, upgraded, fields, kind>>

\* canonical_document_text: the words, whatever block they are in.
SameText == FlattenSeq(old) = FlattenSeq(new)

_classify ==
    IF SameText
    THEN IF fields /\ ~upgraded THEN "content_change" ELSE "parser_change"
    ELSE IF fields THEN "mixed" ELSE "content_change"

Classify ==
    /\ kind = None /\ i1 = Len(old) /\ j1 = Len(new)
    /\ kind' = _classify
    /\ UNCHANGED <<old, new, upgraded, fields, i1, j1, changed>>

Next == Equal \/ Differ \/ Classify

Spec == Init /\ [][Next]_vars

----------------------------------------------------------------------------
Rank(k, S) == Cardinality({i \in S : i <= k})

\* The n-th of the one reads like the n-th of the other.
SameInOrder(S, T) ==
    /\ Cardinality(S) = Cardinality(T)
    /\ \A i \in S, j \in T : Rank(i, S) = Rank(j, T) => old[i] = new[j]

\* What the diff does not mention reads the same, in the same order, in both
\* parses; no block is mentioned twice; and a change of the content has
\* something to show for it, although the kind is decided on the whole text
\* and the entries on the blocks.
DiffAccounts ==
    kind # None =>
        /\ SameInOrder(DOMAIN old \ {e.from : e \in changed},
                       DOMAIN new \ {e.to : e \in changed})
        /\ \A d, e \in changed :
              (d.from = e.from /\ d.from # 0) \/ (d.to = e.to /\ d.to # 0) => d = e
        /\ kind # "parser_change" => fields \/ changed # {}
=============================================================================
