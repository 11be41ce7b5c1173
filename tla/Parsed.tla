------------------------------- MODULE Parsed -------------------------------
(***************************************************************************)
(* What follows a committed parse: the diff with the parse before it, the  *)
(* route job, the index job and, inside it, the chunker, and the           *)
(* validation of what is extracted.  They share nothing but the parse,     *)
(* which none of them writes, so a behaviour follows one of them.          *)
(***************************************************************************)
EXTENDS Routing, Sequences

CONSTANTS Versions, Ordinals, ChunkTexts, MaxDeliveries,                        \* Indexing
          Documents, TARGET_TOKENS, MAX_TOKENS, OVERLAP_TOKENS, TOKEN_CHARS,    \* Chunker
          BlockTexts, MaxBlocks,                                                \* BlockDiff
          Words, Numbers, Blocks, Proposals, MIN_QUOTE                          \* Extraction

VARIABLES part,
          rows, jobs, done, runs,
          blocks, next, start, units, acc, content, overlap, chunks,
          old, new, upgraded, fields, i1, j1, changed, kind,
          proposal, validated, accepted, rejected, judged, verdicts, evidence, committed

indexing == <<rows, jobs, done, runs>>
chunking == <<blocks, next, start, units, acc, content, overlap, chunks>>
comparing == <<old, new, upgraded, fields, i1, j1, changed, kind>>
extracting == <<proposal, validated, accepted, rejected, judged, verdicts, evidence,
                committed>>

Index == INSTANCE Indexing WITH Texts <- ChunkTexts
Chunk == INSTANCE Chunker
Diff == INSTANCE BlockDiff WITH Texts <- BlockTexts
Extract == INSTANCE Extraction WITH done <- validated, rows <- evidence

ASSUME ParsedAssumption ==
    /\ Index!IndexingAssumption /\ Extract!ExtractionAssumption
    /\ Chunk!ChunkerAssumption /\ MaxBlocks \in Nat

ParsedInit ==
    /\ part \in {"route", "index", "chunk", "diff", "extract"}
    /\ Init /\ Index!Init
    /\ Chunk!Init /\ (part = "chunk" \/ blocks = <<>>)
    /\ Diff!Init /\ (part = "diff" \/ (old = <<>> /\ new = <<>> /\ ~upgraded /\ ~fields))
    /\ Extract!Init /\ (part = "extract" \/ proposal = <<>>)

RouteStep == Next /\ UNCHANGED <<indexing, chunking, comparing, extracting>>
IndexStep == Index!Next /\ UNCHANGED <<vars, chunking, comparing, extracting>>
ChunkStep == Chunk!Next /\ UNCHANGED <<vars, indexing, comparing, extracting>>
DiffStep == Diff!Next /\ UNCHANGED <<vars, indexing, chunking, extracting>>
ExtractStep == Extract!Next /\ UNCHANGED <<vars, indexing, chunking, comparing>>

ParsedNext ==
    /\ UNCHANGED part
    /\ \/ part = "route" /\ RouteStep
       \/ part = "index" /\ IndexStep
       \/ part = "chunk" /\ ChunkStep
       \/ part = "diff" /\ DiffStep
       \/ part = "extract" /\ ExtractStep

parsedVars == <<part, vars, indexing, chunking, comparing, extracting>>

ParsedSpec == ParsedInit /\ [][ParsedNext]_parsedVars

----------------------------------------------------------------------------
\* Indexing: a job that succeeded has a row for each of its chunks, and rows
\* that another chunker wrote are never taken for one's own.
IndexIsWhole == [](Index!SucceededIsWhole /\ Index!NothingInPart) /\ Index!DriftIsRefused

\* Nothing of a text is lost on the way: every word is in a chunk and cited by
\* every chunk it is in, a table's rows are read under its header, and the diff
\* accounts for every block that is not the same in both parses.
TextAccountedFor == Chunk!CoversBlocks /\ Chunk!RowsUnderHeader /\ Diff!DiffAccounts

\* Extraction: what is stored is quoted, place by place.
EvidenceIsQuoted == Extract!EvidenceIsQuoted
=============================================================================
