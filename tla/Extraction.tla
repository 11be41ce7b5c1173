----------------------------- MODULE Extraction -----------------------------
(***************************************************************************)
(* From a model's proposal to evidence rows: the claims are validated      *)
(* against the blocks of the parse (domain/validation.py), a judge may     *)
(* look at those that passed, and one transaction stores them with the     *)
(* place of each quote (commit_extraction).  Texts are sequences of words, *)
(* some of which are numbers.                                              *)
(***************************************************************************)
EXTENDS Naturals, Sequences

CONSTANTS Words,
          Numbers,      \* the words that are numbers
          Blocks,       \* text of each block of the parse
          Proposals,    \* sequences of claims the model may answer with
          MIN_QUOTE     \* MIN_QUOTE_CHARS

Quotes == [block : Nat, quote : Seq(Words)]
Claims == [evidence : Seq(Quotes), numbers : SUBSET Numbers]

\* Of the constants (assumed where the module is instantiated).
ExtractionAssumption ==
    /\ Numbers \subseteq Words
    /\ Blocks \in Seq(Seq(Words))
    /\ Proposals \subseteq Seq(Claims)
    /\ MIN_QUOTE \in Nat \ {0}

VARIABLES proposal,
          done,         \* claims validated
          accepted,     \* claims that passed: index and start of each quote
          rejected,     \* the others: index and code
          judged,       \* the judge's verdict on each accepted claim, or none
          verdicts,     \* the same by claim (history)
          rows,         \* evidence rows
          committed

vars == <<proposal, done, accepted, rejected, judged, verdicts, rows, committed>>

----------------------------------------------------------------------------
\* The places a quote stands at in a text ...
Occurrences(text, quote) ==
    {s \in 1 .. Len(text) : /\ s + Len(quote) - 1 <= Len(text)
                           /\ SubSeq(text, s, s + Len(quote) - 1) = quote}

\* ... of which the first one is found, and the next that does not overlap it.
locate_quote(text, quote) ==
    CHOOSE s \in Occurrences(text, quote) : \A t \in Occurrences(text, quote) : s <= t

Again(text, quote) ==
    \E s \in Occurrences(text, quote) : s >= locate_quote(text, quote) + Len(quote)

CodeOf(e) ==
    IF e.block \notin DOMAIN Blocks THEN "block_missing"
    ELSE IF Len(e.quote) < MIN_QUOTE THEN "quote_too_short"
    ELSE IF Occurrences(Blocks[e.block], e.quote) = {} THEN "quote_not_found"
    ELSE IF Again(Blocks[e.block], e.quote) THEN "quote_ambiguous"
    ELSE "ok"

WordsOf(quote) == {quote[i] : i \in DOMAIN quote}

_numeric_support(claim) ==
    \A number \in claim.numbers :
        \E n \in DOMAIN claim.evidence : number \in WordsOf(claim.evidence[n].quote)

\* The first reason counts.
validate_claim(claim) ==
    LET bad == {n \in DOMAIN claim.evidence : CodeOf(claim.evidence[n]) # "ok"} IN
    IF claim.evidence = <<>> THEN "no_evidence"
    ELSE IF bad # {}
         THEN CodeOf(claim.evidence[CHOOSE n \in bad : \A m \in bad : n <= m])
    ELSE IF ~_numeric_support(claim) THEN "numeric_unsupported"
    ELSE "ok"

----------------------------------------------------------------------------
Init ==
    /\ proposal \in Proposals
    /\ done = 0
    /\ accepted = <<>> /\ rejected = <<>>
    /\ judged = <<>> /\ verdicts = <<>>
    /\ rows = {} /\ committed = FALSE

Evidence(c) == proposal[c].evidence

\* Where each quote of a claim stands.
Located(c) ==
    [n \in DOMAIN Evidence(c) |-> locate_quote(Blocks[Evidence(c)[n].block], Evidence(c)[n].quote)]

\* validate_proposal, one claim.
Validate ==
    /\ done < Len(proposal)
    /\ done' = done + 1
    /\ LET c == done + 1
           code == validate_claim(proposal[c])
       IN  IF code = "ok"
           THEN /\ accepted' = Append(accepted, [claim |-> c, starts |-> Located(c)])
                /\ rejected' = rejected
           ELSE /\ rejected' = Append(rejected, [claim |-> c, code |-> code])
                /\ accepted' = accepted
    /\ UNCHANGED <<proposal, judged, verdicts, rows, committed>>

\* The judge's words are not all known ones.
Judge ==
    /\ done = Len(proposal) /\ judged = <<>> /\ accepted # <<>> /\ ~committed
    /\ \E said \in [DOMAIN accepted -> {"supports", "refutes", "maybe"}] :
          /\ judged' = said
          /\ verdicts' = [c \in {accepted[k].claim : k \in DOMAIN accepted} |->
                             said[CHOOSE k \in DOMAIN accepted : accepted[k].claim = c]]
    /\ UNCHANGED <<proposal, done, accepted, rejected, rows, committed>>

\* Mutant: the verdict is looked up under the claim's place in the proposal.
StatusByProposal(k) ==
    IF accepted[k].claim \notin DOMAIN judged THEN "pending"
    ELSE IF judged[accepted[k].claim] = "maybe" THEN "uncertain"
    ELSE judged[accepted[k].claim]

\* semantic_status_by_index: no verdict is pending, an unknown one uncertain.
Status(k) ==
    IF k \notin DOMAIN judged THEN "pending"
    ELSE IF judged[k] = "maybe" THEN "uncertain"
    ELSE judged[k]

Row(k, n) ==
    LET e == Evidence(accepted[k].claim)[n] IN
    [claim |-> accepted[k].claim, nth |-> n, block |-> e.block,
     start |-> accepted[k].starts[n], quote |-> e.quote, status |-> Status(k)]

\* commit_extraction: a row for each quote of each accepted claim.
Commit ==
    /\ done = Len(proposal) /\ ~committed
    /\ committed' = TRUE
    /\ rows' = UNION {{Row(k, n) : n \in DOMAIN Evidence(accepted[k].claim)} :
                         k \in DOMAIN accepted}
    /\ UNCHANGED <<proposal, done, accepted, rejected, judged, verdicts>>

Next == Validate \/ Judge \/ Commit

Spec == Init /\ [][Next]_vars

----------------------------------------------------------------------------
Stored == {r.claim : r \in rows}
Refused == {rejected[k].claim : k \in DOMAIN rejected}

Verdict(c) ==
    IF verdicts = <<>> THEN "pending"
    ELSE IF verdicts[c] = "maybe" THEN "uncertain" ELSE verdicts[c]

\* Whatever the model makes up: an evidence row stands in its block word for
\* word at the place it names; a stored claim has a row for each of its quotes
\* and no number that none of them has; it carries the verdict on itself, also
\* when claims before it were rejected; and what is not stored is listed with
\* the claims that were refused.
EvidenceIsQuoted ==
    committed =>
        /\ \A r \in rows :
              /\ r.block \in DOMAIN Blocks
              /\ SubSeq(Blocks[r.block], r.start, r.start + Len(r.quote) - 1) = r.quote
              /\ r.status = Verdict(r.claim)
        /\ \A c \in Stored :
              /\ \A n \in DOMAIN Evidence(c) :
                    \E r \in rows : r.claim = c /\ r.nth = n /\ r.quote = Evidence(c)[n].quote
              /\ \A r \in rows : r.claim = c =>
                    r.nth \in DOMAIN Evidence(c) /\ r.quote = Evidence(c)[r.nth].quote
              /\ \A number \in proposal[c].numbers :
                    \E r \in rows : r.claim = c /\ number \in WordsOf(r.quote)
        /\ Stored \cup Refused = DOMAIN proposal /\ Stored \cap Refused = {}
=============================================================================
