----------------------------- MODULE MCDiscovery ----------------------------
(***************************************************************************)
(* Discovery over two sources, for TLC: a list of several pages, and a     *)
(* feed of one page in which an entry may arrive late, with an older date. *)
(* The documents rest.                                                     *)
(***************************************************************************)
EXTENDS Ingest

VARIABLE source

\* Entries in the order of their dates, four days apart.
MCDate == [i \in 1 .. MaxEntries |-> 4 * i]

\* The second entry arrives late, with a date before the first one's.
LateDate == [i \in 1 .. MaxEntries |-> IF i = 2 THEN 2 ELSE 4 * i]

MCUrlOf == [i \in Items |-> CHOOSE u \in Urls : TRUE]

Feed == INSTANCE Discovery WITH
    Adapter <- "syndication", PageSize <- MaxEntries, Date <- LateDate

SourceInit == Init /\ Listing!Init /\ source \in {"list", "feed"}

ListStep(A) == source = "list" /\ A /\ UNCHANGED <<source, vars>>
FeedStep(A) == source = "feed" /\ A /\ UNCHANGED <<source, vars>>

SourceNext == ListStep(Listing!Next) \/ FeedStep(Feed!Next)

\* Discovery's fairness, for either source.
SourceFairness ==
    \A r \in Runs :
        /\ WF_<<listing, source>>(Listing!Begin(r) /\ UNCHANGED <<source, vars>>)
        /\ SF_<<listing, source>>(ListStep(Listing!Request(r)) \/ FeedStep(Feed!Request(r)))
        /\ SF_<<listing, source>>(Listing!Commit(r) /\ UNCHANGED <<source, vars>>)

SourceSpec ==
    SourceInit /\ [][SourceNext]_<<listing, source, vars>> /\ SourceFairness
=============================================================================
