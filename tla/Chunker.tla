------------------------------ MODULE Chunker ------------------------------
(***************************************************************************)
(* retrieval/chunker.py: the blocks of a parse cut into units, the units   *)
(* assembled into chunks.  A text is the sequence of its words; joining    *)
(* them with a space or a newline costs one character either way.  The     *)
(* lines of a table are its words.  A word has its length, the block and   *)
(* the place it comes from, and the blocks the part it is in cites.        *)
(***************************************************************************)
EXTENDS Integers, Sequences, SequencesExt

CONSTANTS Documents,      \* the block sequences to cut
          TARGET_TOKENS, MAX_TOKENS, OVERLAP_TOKENS, TOKEN_CHARS

\* Of the constants (assumed where the module is instantiated): a word of a
\* document knows where it comes from.
ChunkerAssumption ==
    /\ TARGET_TOKENS \in Nat /\ TOKEN_CHARS \in Nat \ {0}
    /\ Documents \subseteq
         Seq([kind : STRING,
              words : Seq([len : Nat, block : Nat, at : Nat, cites : SUBSET Nat])])
    /\ \A doc \in Documents : \A b \in DOMAIN doc : \A i \in DOMAIN doc[b].words :
          LET w == doc[b].words[i] IN w.block = b /\ w.at = i /\ w.cites = {b}

VARIABLES
    blocks,    \* the document: [kind, words]
    next,      \* the next block to cut
    start,     \* where in that block the next window or row group starts
    units,     \* units not yet assembled: [words, section, table]
    acc,       \* words of the chunk under construction
    content,   \* saw_content
    overlap,   \* pending_overlap: words repeated at the start of the next chunk
    chunks     \* chunks made: [words, ids]

vars == <<blocks, next, start, units, acc, content, overlap, chunks>>

Init ==
    /\ blocks \in Documents
    /\ next = 1 /\ start = 1
    /\ units = <<>>
    /\ acc = <<>>
    /\ content = FALSE
    /\ overlap = <<>>
    /\ chunks = <<>>

----------------------------------------------------------------------------
(* Measures.                                                                *)

\* Characters of the words, each with the separator after it.
Chars(words) == FoldSeq(LAMBDA w, sum : w.len + 1 + sum, 0, words)

TokensOf(chars) == Max({1, chars \div TOKEN_CHARS})

estimate_tokens(words) == IF words = <<>> THEN 0 ELSE TokensOf(Chars(words) - 1)

IdsOf(words) == UNION {words[i].cites : i \in DOMAIN words}

----------------------------------------------------------------------------
(* Cutting a block.                                                         *)

Unit(words, section, table) == [words |-> words, section |-> section, table |-> table]

\* The end of the window that starts at s: all the words that fit the target,
\* and at least one.
WindowEnd(words, s) ==
    Max({e \in s..Len(words) :
           e = s \/ Chars(SubSeq(words, s, e)) <= TARGET_TOKENS * TOKEN_CHARS})

\* The next window starts so many words before the end of this one that they
\* make up the overlap, but never where this one started.
StepBack(words, s, e) ==
    LET enough == {k \in 0..(e - s) :
                     Chars(SubSeq(words, e - k + 1, e)) >= OVERLAP_TOKENS * TOKEN_CHARS}
    IN  IF enough = {} THEN e - s ELSE Min(enough)

\* Mutant: the next window starts after the overlap's last word.
NextStartSkips(words, s, e) == e + 1 + StepBack(words, s, e)

NextStart(words, s, e) == e + 1 - StepBack(words, s, e)

\* The loops over a block go on, or with the next block.
GoOn(s, n) == IF s > n THEN next' = next + 1 /\ start' = 1
              ELSE start' = s /\ UNCHANGED next

Prose(block) == block.kind # "table" /\ block.words # <<>>

Oversized(block) == estimate_tokens(block.words) > MAX_TOKENS

\* A block without words makes no unit, a small one makes one.
CutWhole ==
    /\ next <= Len(blocks)
    /\ LET block == blocks[next]
       IN  \/ block.words = <<>> /\ UNCHANGED units
           \/ /\ Prose(block) /\ ~Oversized(block)
              /\ units' = Append(units, Unit(block.words, block.kind = "heading", FALSE))
    /\ next' = next + 1
    /\ UNCHANGED <<blocks, start, acc, content, overlap, chunks>>

\* An iteration of _split_oversized.
CutWindow ==
    /\ next <= Len(blocks)
    /\ LET block == blocks[next]
           end == WindowEnd(block.words, start)
       IN  /\ Prose(block) /\ Oversized(block)
           /\ units' = Append(units, Unit(SubSeq(block.words, start, end),
                                          block.kind = "heading" /\ start = 1, FALSE))
           /\ GoOn(NextStart(block.words, start, end), Len(block.words))
    /\ UNCHANGED <<blocks, acc, content, overlap, chunks>>

\* A table of one line has it for its body too.
Body(block) == IF Len(block.words) = 1 THEN block.words ELSE Tail(block.words)

\* As many rows as fit when all cost what the dearest does.
group_rows(block) ==
    LET row_cost == Max({TokensOf(row.len) : row \in ToSet(Body(block))})
    IN  Max({1, (TARGET_TOKENS - (TokensOf(Head(block.words).len) + 1)) \div row_cost})

\* An iteration of _split_tables: a group of rows, under the header.
CutRows ==
    /\ next <= Len(blocks)
    /\ LET block == blocks[next]
           body == Body(block)
           end == Min({start + group_rows(block) - 1, Len(body)})
       IN  /\ block.kind = "table" /\ block.words # <<>>
           /\ units' = Append(units, Unit(<<Head(block.words)>> \o SubSeq(body, start, end),
                                          FALSE, TRUE))
           /\ GoOn(end + 1, Len(body))
    /\ UNCHANGED <<blocks, acc, content, overlap, chunks>>

----------------------------------------------------------------------------
(* Assembling the chunks.                                                   *)

Chunk(words) == [words |-> words, ids |-> IdsOf(words)]

Flushed == IF acc = <<>> THEN chunks ELSE Append(chunks, Chunk(acc))

\* The last words of the chunk that make up the overlap: one part, which cites
\* what any of them cites.
_overlap_tail(words) ==
    LET n == Len(words)
        enough == {k \in 0..n :
                     Chars(SubSeq(words, n - k + 1, n)) >= OVERLAP_TOKENS * TOKEN_CHARS}
        tail == SubSeq(words, n - (IF enough = {} THEN n ELSE Min(enough)) + 1, n)
    IN  [i \in DOMAIN tail |-> [tail[i] EXCEPT !.cites = IdsOf(tail)]]

\* A row group is a chunk of its own.
PlaceTable ==
    /\ next > Len(blocks) /\ units # <<>>
    /\ Head(units).table
    /\ chunks' = Append(Flushed, Chunk(Head(units).words))
    /\ acc' = <<>> /\ content' = FALSE /\ overlap' = <<>>
    /\ units' = Tail(units)
    /\ UNCHANGED <<blocks, next, start>>

\* The chunk there is goes out before the unit is added: at a heading, or when
\* the target would be passed.
PassesTarget(unit) ==
    /\ ~unit.section
    /\ acc # <<>> /\ content
    /\ estimate_tokens(acc) + estimate_tokens(unit.words) + 1 > TARGET_TOKENS

\* What the unit is added to: the overlap, nothing, or the chunk there is.
Base(unit) ==
    IF acc = <<>> THEN overlap
    ELSE IF unit.section THEN <<>>
    ELSE IF PassesTarget(unit) THEN _overlap_tail(acc)
    ELSE acc

PlaceUnit ==
    /\ next > Len(blocks) /\ units # <<>>
    /\ ~Head(units).table
    /\ LET unit == Head(units)
           words == Base(unit) \o unit.words
           before == IF unit.section \/ PassesTarget(unit) THEN Flushed ELSE chunks
       IN  IF estimate_tokens(words) > MAX_TOKENS
           THEN /\ chunks' = Append(before, Chunk(words))
                /\ acc' = <<>> /\ content' = FALSE
                /\ overlap' = _overlap_tail(words)
           ELSE /\ chunks' = before
                /\ acc' = words /\ content' = ~unit.section
                /\ overlap' = <<>>
    /\ units' = Tail(units)
    /\ UNCHANGED <<blocks, next, start>>

\* The last flush.
LastChunk ==
    /\ next > Len(blocks) /\ units = <<>> /\ acc # <<>>
    /\ chunks' = Flushed
    /\ acc' = <<>> /\ content' = FALSE /\ overlap' = <<>>
    /\ UNCHANGED <<blocks, next, start, units>>

Next == CutWhole \/ CutWindow \/ CutRows \/ PlaceTable \/ PlaceUnit \/ LastChunk

Spec == Init /\ [][Next]_vars

----------------------------------------------------------------------------
(* Properties.                                                              *)

Cut == next > Len(blocks) /\ units = <<>> /\ acc = <<>>

Same(w, v) == w.block = v.block /\ w.at = v.at

\* Every word of the document can be found, and traced back: it is in some
\* chunk, and every chunk it is in cites the block it comes from.
CoversBlocks ==
    /\ Cut => \A b \in DOMAIN blocks : \A w \in ToSet(blocks[b].words) :
                     \E c \in ToSet(chunks) : \E v \in ToSet(c.words) : Same(w, v)
    /\ \A c \in ToSet(chunks) : \A v \in ToSet(c.words) : v.block \in c.ids

\* 表格按行组保留 header: a row is read under its table's header and beside
\* nothing else, however the table is cut.
RowsUnderHeader ==
    \A c \in ToSet(chunks) : \A v \in ToSet(c.words) :
        blocks[v.block].kind = "table"
        => /\ Same(Head(c.words), Head(blocks[v.block].words))
           /\ \A w \in ToSet(c.words) : w.block = v.block

=============================================================================
