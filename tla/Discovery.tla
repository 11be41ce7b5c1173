----------------------------- MODULE Discovery ------------------------------
(***************************************************************************)
(* The discover handler (workflows/ingest.py) over one feed whose listing  *)
(* grows while it is being walked, with the cursors of the paginating      *)
(* adapters (sources/adapters/html_list.py and feed.py).                   *)
(*                                                                         *)
(* Entries are numbered as they are published; the listing shows the       *)
(* newest first, PageSize to a page, so every new entry pushes the others  *)
(* down.  A page is requested outside any transaction; one transaction     *)
(* then records its items, each with its fetch job, and saves the cursor.  *)
(* A run is one execution of a discover or source_poll job; nothing keeps  *)
(* two runs of a feed apart, and a run may die anywhere.                   *)
(***************************************************************************)
EXTENDS Naturals, FiniteSets, FiniteSetsExt

CONSTANTS
    Adapter,     \* "next_link" or "page_param" (html_list), or "syndication"
    Runs,        \* runs that may overlap
    PageSize,    \* entries per page of the source
    FrontSize,   \* _BOUNDARY_SIZE
    MaxEntries,  \* bound: entries ever published
    Date,        \* Date[i]: the date the feed gives entry i
    Overlap,     \* FeedPlan.overlap_hours
    NoDate       \* no boundary_date in the cursor

\* Of the constants (assumed where the module is instantiated).
DiscoveryAssumption ==
    /\ Adapter \in {"next_link", "page_param", "syndication"}
    /\ PageSize \in Nat \ {0}
    /\ FrontSize \in Nat \ {0}
    /\ MaxEntries \in Nat
    /\ Date \in [1 .. MaxEntries -> Nat]
    /\ Overlap \in Nat
    /\ NoDate \notin Nat

VARIABLES
    published,   \* the source: entries 1 .. published exist
    found,       \* discovery_items; each was committed with its fetch job
    stored,      \* owner_feeds.discovery_cursor
    pc,          \* run: "idle", "reading" or "committing"
    at,          \* run: the cursor it continues from
    page         \* run: the DiscoveryPage it received

vars == <<published, found, stored, pc, at, page>>

Entries == 1 .. MaxEntries

\* Pages past the end of the listing are all alike.
PageCap == MaxEntries \div PageSize + 2

\* A decoded cursor: page is the position inside a walk, 0 at the seed; stop
\* the boundary URLs of the last walk and top those of this one (html_list);
\* since the boundary_date (syndication).
Cursor(p, stop, top, since) ==
    [page |-> p, stop |-> stop, top |-> top, since |-> since]

Start == Cursor(0, {}, {}, NoDate)

NoPage == [items |-> {}, dropped |-> {}, next |-> Start, exhausted |-> TRUE]

Position(c) == IF c.page = 0 THEN 1 ELSE c.page

\* The entries on page p of a listing of n.
Listed(p, n) == {i \in Entries : /\ i <= n
                                 /\ (p - 1) * PageSize <= n - i
                                 /\ n - i < p * PageSize}

HasNext(p, n) == p * PageSize < n

\* page_urls[:_BOUNDARY_SIZE]
Front(S) == {i \in S : Cardinality({k \in S : k > i}) < FrontSize}

-----------------------------------------------------------------------------
(* The adapters' discover.                                                  *)

\* HtmlListAdapter: walk until a page shows a URL of the last walk's front
\* page; that page is emitted as a whole.
ListPage(n, c) ==
    LET p      == Position(c)
        listed == Listed(p, n)
        top    == IF c.page = 0 \/ c.top = {} THEN Front(listed) ELSE c.top
        more   == /\ listed \cap c.stop = {}
                  /\ Adapter = "page_param" \/ HasNext(p, n)
    IN  [items |-> listed,
         dropped |-> {},
         next |-> IF more
                  THEN Cursor(IF p < PageCap THEN p + 1 ELSE p, c.stop, top, NoDate)
                  ELSE Cursor(0, top, {}, NoDate),
         exhausted |-> ~more]

\* SyndicationAdapter: entries older than the boundary date less the overlap
\* are dropped as walked before; the boundary is the oldest date kept.
FeedPage(n, c) ==
    LET p      == Position(c)
        listed == Listed(p, n)
        old    == {i \in listed : c.since # NoDate /\ Date[i] + Overlap < c.since}
        dates  == {Date[i] : i \in listed \ old} \cup ({c.since} \ {NoDate})
        since  == IF dates = {} THEN NoDate ELSE Min(dates)
    IN  [items |-> listed \ old,
         dropped |-> old,
         next |-> Cursor(IF HasNext(p, n) THEN p + 1 ELSE 0, {}, {}, since),
         exhausted |-> ~HasNext(p, n)]

Page(n, c) == IF Adapter = "syndication" THEN FeedPage(n, c) ELSE ListPage(n, c)

-----------------------------------------------------------------------------
Init ==
    /\ published = 0
    /\ found = {}
    /\ stored = Start
    /\ pc = [r \in Runs |-> "idle"]
    /\ at = [r \in Runs |-> Start]
    /\ page = [r \in Runs |-> NoPage]

\* The source publishes an entry on top of its listing.
Publish ==
    /\ published < MaxEntries
    /\ published' = published + 1
    /\ UNCHANGED <<found, stored, pc, at, page>>

\* A run loads the feed's state.
Begin(r) ==
    /\ pc[r] = "idle"
    /\ pc' = [pc EXCEPT ![r] = "reading"]
    /\ at' = [at EXCEPT ![r] = stored]
    /\ UNCHANGED <<published, found, stored, page>>

\* adapter.discover, outside any transaction.
Request(r) ==
    /\ pc[r] = "reading"
    /\ page' = [page EXCEPT ![r] = Page(published, at[r])]
    /\ pc' = [pc EXCEPT ![r] = "committing"]
    /\ UNCHANGED <<published, found, stored, at>>

\* The run is over: finished, failed, timed out or dead.
Leave(r) ==
    /\ pc' = [pc EXCEPT ![r] = "idle"]
    /\ at' = [at EXCEPT ![r] = Start]
    /\ page' = [page EXCEPT ![r] = NoPage]

\* ... or it goes on behind the page.
GoOn(r) ==
    /\ pc' = [pc EXCEPT ![r] = "reading"]
    /\ at' = [at EXCEPT ![r] = page[r].next]
    /\ page' = [page EXCEPT ![r] = NoPage]

\* upsert_discovery_item: a URL the feed has shown before keeps its row.  A new
\* row is committed with its fetch job.
Upsert(items) == found' = found \cup items

\* save_cursor: whoever writes last.
SaveCursor(c) == stored' = c

\* Mutant: a run that stops at its budget saves the cursor of a finished walk.
CommitEndsWalk(r) ==
    /\ pc[r] = "committing"
    /\ Upsert(page[r].items)
    /\ \/ ~page[r].exhausted /\ SaveCursor(page[r].next) /\ GoOn(r)
       \/ /\ SaveCursor(Cursor(0, page[r].next.top \cup page[r].next.stop, {}, NoDate))
          /\ Leave(r)
    /\ UNCHANGED published

\* Mutant: a run saves its cursor at the end of a walk only, so one that is cut
\* short starts again at the seed.
CommitAtEnd(r) ==
    /\ pc[r] = "committing"
    /\ Upsert(page[r].items)
    /\ \/ page[r].exhausted /\ SaveCursor(page[r].next) /\ Leave(r)
       \/ ~page[r].exhausted /\ (GoOn(r) \/ Leave(r)) /\ UNCHANGED stored
    /\ UNCHANGED published

\* The page's transaction.  The walk goes on unless it is exhausted; the
\* budget (max_pages, max_items) may end it after any page.
Commit(r) ==
    /\ pc[r] = "committing"
    /\ Upsert(page[r].items)
    /\ SaveCursor(page[r].next)
    /\ \/ ~page[r].exhausted /\ GoOn(r)
       \/ Leave(r)
    /\ UNCHANGED published

\* The page or the transaction fails, or the worker dies.
Fail(r) ==
    /\ pc[r] # "idle"
    /\ Leave(r)
    /\ UNCHANGED <<published, found, stored>>

Next ==
    \/ Publish
    \/ \E r \in Runs : Begin(r) \/ Request(r) \/ Commit(r) \/ Fail(r)

Spec == Init /\ [][Next]_vars

\* The feed is polled again and again, and requests and transactions do not
\* fail for ever.
Fairness ==
    \A r \in Runs :
        /\ WF_vars(Begin(r))
        /\ SF_vars(Request(r))
        /\ SF_vars(Commit(r))

FairSpec == Spec /\ Fairness

-----------------------------------------------------------------------------
(* Properties.                                                              *)

Cursors == [page : 0 .. PageCap, stop : SUBSET Entries, top : SUBSET Entries,
            since : Nat \cup {NoDate}]
Pages == [items : SUBSET Entries, dropped : SUBSET Entries, next : Cursors,
          exhausted : BOOLEAN]

\* Every variable has the type its column or field has.
TypeOK ==
    /\ published \in 0 .. MaxEntries
    /\ found \subseteq 1 .. published
    /\ stored \in Cursors
    /\ pc \in [Runs -> {"idle", "reading", "committing"}]
    /\ at \in [Runs -> Cursors]
    /\ page \in [Runs -> Pages]

\* What a cursor lets later walks skip is known: everything up to the newest
\* boundary URL, and everything between the front page of the walk and the
\* page it continues on, however far the listing has moved since.
Covers(c, known) ==
    /\ \A i \in c.stop : 1 .. i \subseteq known
    /\ \A i \in c.top, k \in Entries :
          k <= i /\ published - k < (Position(c) - 1) * PageSize => k \in known

\* Neither overlapping runs, nor a run that dies or stops at its budget, nor
\* entries that arrive during a walk leave a cursor behind which an entry is
\* hidden (docs/design/ingest.md:4, complete incremental collection).
CursorCovers == Covers(stored, found)

\* The same for the runs' own cursors: what makes CursorCovers inductive.
RunsCover ==
    \A r \in Runs :
        /\ Covers(at[r], found)
        /\ Covers(page[r].next, found \cup page[r].items)

\* No cursor, stored or in use, hides an entry.
CursorsCover == CursorCovers /\ RunsCover

\* Every entry is discovered in the end, although walks are cut short and
\* overtake each other.
PublishedIsFound == \A i \in Entries : published >= i ~> i \in found

=============================================================================
