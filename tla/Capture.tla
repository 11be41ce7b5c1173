------------------------------ MODULE Capture ------------------------------
(***************************************************************************)
(* Fetching and parsing one source's documents: workflows/ingest.py behind *)
(* the discovery items, repositories/pool.py below it.                     *)
(*                                                                         *)
(* A fetch run reads the item's newest capture, asks the source without a  *)
(* transaction, and records the answer in one.  A parse run reads the      *)
(* stored bytes, parses them without a transaction, and records parse,     *)
(* diffs and follow-up jobs in one.  Jobs are delivered at least once and  *)
(* a run that lost its lease goes on, so any number of runs of one item or *)
(* capture may overlap, and each may die between two steps.                *)
(*                                                                         *)
(* A capture is named by its document and its content, which is what       *)
(* uq_captures_content makes of it; a document by its URL.                 *)
(***************************************************************************)
EXTENDS Naturals, FiniteSets

CONSTANTS Items,        \* discovery items
          Urls,         \* canonical URLs, one document each
          UrlOf,        \* the URL of an item; several items may share it
          Contents,     \* what a source may serve
          Unreadable,   \* contents the parser turns into a failed parse
          Refusals,     \* the ways a fetch fails
          Fetchers,     \* fetch runs at a time
          Parsers,      \* parse runs at a time
          MaxFetches,   \* bound: answers a source gives
          MaxParses,    \* bound: instants given to parses
          None

Failures == {"error", "access_denied", "browser_unavailable", "ssrf_blocked"}

ASSUME CaptureAssumption ==
    /\ UrlOf \in [Items -> Urls]
    /\ Unreadable \subseteq Contents
    /\ Refusals \subseteq Failures
    /\ MaxFetches \in Nat
    /\ MaxParses \in Nat
    /\ None \notin Contents
    /\ None \notin Items
    /\ None \notin Urls \X Contents

VARIABLES
    state,      \* discovery_items.state
    origins,    \* items with a row in document_origins
    captures,   \* captures: fetched_at, 0 while there is no such row
    current,    \* documents.current_capture_id; None: no document
    blobs,      \* rows of blobs
    objects,    \* files of the object store
    seen,       \* fetch_observations
    jobs,       \* jobs spawned: <<kind, capture>>
    parses,     \* parsed_artifacts: parsed_at (0: none) and whether it is readable
    diffs,      \* document_diffs: <<from, to>>
    scope,      \* retrieval_scope of a capture; None: as the fetch left it
    lost,       \* items with a fetch that ended in internal_error
    clock,      \* the newest fetched_at given out
    fetch,      \* the fetch runs
    parse       \* the parse runs

pool == <<state, origins, captures, current, blobs, seen>>
parsed == <<parses, diffs, scope>>
vars == <<pool, parsed, objects, jobs, lost, clock, fetch, parse>>

----------------------------------------------------------------------------
(* What the rows and the runs look like.                                    *)

Captures == Urls \X Contents
Outcomes == {"captured", "no_change"} \cup Failures
ItemStates == {"discovered", "captured", "failed", "access_denied", "pending_js"}
JobKinds == {"parse", "index", "route"}

Observation ==
    [item : Items, outcome : Outcomes,
     served : Contents \cup {None}, capture : Captures \cup {None}]

NoFetch == [pc |-> "idle", item |-> None, prior |-> None, outcome |-> None,
            served |-> None, at |-> 0, hasBlob |-> FALSE, hasDoc |-> FALSE]
NoParse == [pc |-> "idle", capture |-> None, ok |-> FALSE,
            created |-> FALSE, prior |-> None, at |-> 0]

Init ==
    /\ state = [i \in Items |-> "discovered"]
    /\ origins = {}
    /\ captures = [c \in Captures |-> 0]
    /\ current = [u \in Urls |-> None]
    /\ blobs = {}
    /\ objects = [c \in Contents |-> "absent"]
    /\ seen = {}
    /\ jobs = {}
    /\ parses = [c \in Captures |-> [at |-> 0, ok |-> FALSE]]
    /\ diffs = {}
    /\ scope = [c \in Captures |-> None]
    /\ lost = {}
    /\ clock = 0
    /\ fetch = [f \in Fetchers |-> NoFetch]
    /\ parse = [p \in Parsers |-> NoParse]

----------------------------------------------------------------------------
(* Fetch.                                                                   *)

Exists(c) == captures[c] # 0

\* The newest capture of the item's document, by fetched_at: nothing before
\* the item has an origin.
LatestCapture(i) ==
    LET own == {c \in Captures : c[1] = UrlOf[i] /\ Exists(c)}
    IN  IF i \notin origins \/ own = {} THEN None
        ELSE CHOOSE c \in own : \A d \in own : captures[d] <= captures[c]

\* The first transaction of the handler; the item's row is never deleted.
BeginFetch(f, i) ==
    /\ fetch[f].pc = "idle"
    /\ fetch' = [fetch EXCEPT ![f] =
                   [pc |-> "asked", item |-> i, prior |-> LatestCapture(i),
                    outcome |-> None, served |-> None, at |-> 0,
                    hasBlob |-> FALSE, hasDoc |-> FALSE]]
    /\ UNCHANGED <<pool, parsed, objects, jobs, lost, clock, parse>>

\* The source answers with whatever it shows now.
AnswerOf(f, served, outcome) ==
    /\ fetch[f].pc = "asked"
    /\ clock < MaxFetches
    /\ clock' = clock + 1
    /\ fetch' = [fetch EXCEPT ![f] =
                   [pc |-> "answered", item |-> fetch[f].item, prior |-> fetch[f].prior,
                    outcome |-> outcome, served |-> served, at |-> clock + 1,
                    hasBlob |-> FALSE, hasDoc |-> FALSE]]
    /\ UNCHANGED <<pool, parsed, objects, jobs, lost, parse>>

\* A source that is sent the prior capture's validators may answer 304 while it
\* still shows that content.  One that answers 304 unasked serves nothing.
Answer(f) ==
    \/ \E c \in Contents : AnswerOf(f, c, "captured")
    \/ /\ fetch[f].prior # None
       /\ AnswerOf(f, fetch[f].prior[2], "no_change")
    \/ /\ fetch[f].prior = None
       /\ AnswerOf(f, None, "no_change")
    \/ \E o \in Refusals : AnswerOf(f, None, o)

\* The observation of a run's answer, bound to a capture or to none.
Observed(r, outcome, c) ==
    [item |-> r.item, outcome |-> outcome, served |-> r.served, capture |-> c]

\* 304, or a 200 with the bytes of the prior capture.
Unchanged(r) ==
    \/ r.outcome = "no_change"
    \/ r.outcome = "captured" /\ r.prior # None /\ r.prior[2] = r.served

\* Mutant: the observation is bound to the capture that is newest by now.
BoundLate(r) == LatestCapture(r.item)

\* What an unchanged page is bound to: the capture read before the request.
Bound(r) == r.prior

RecordUnchanged(f) ==
    LET r == fetch[f] IN
    /\ r.pc = "answered"
    /\ Unchanged(r)
    /\ seen' = seen \cup {Observed(r, "no_change", Bound(r))}
    /\ fetch' = [fetch EXCEPT ![f] = NoFetch]
    /\ UNCHANGED <<state, origins, captures, current, blobs, parsed, objects,
                   jobs, lost, clock, parse>>

StateAfter(outcome) ==
    IF outcome = "access_denied" THEN "access_denied"
    ELSE IF outcome = "browser_unavailable" THEN "pending_js"
    ELSE "failed"

\* A refused URL is observed as an error; every other failure as itself.
RecordFailure(f) ==
    LET r == fetch[f]
        shown == IF r.outcome = "ssrf_blocked" THEN "error" ELSE r.outcome
    IN
    /\ r.pc = "answered"
    /\ r.outcome \in Failures
    /\ seen' = seen \cup {Observed(r, shown, None)}
    /\ state' = [state EXCEPT ![r.item] = StateAfter(r.outcome)]
    /\ fetch' = [fetch EXCEPT ![f] = NoFetch]
    /\ UNCHANGED <<origins, captures, current, blobs, parsed, objects, jobs,
                   lost, clock, parse>>

\* A run further on, with what it has read of the blob and of the document.
Moved(r, pc, hasBlob, hasDoc) ==
    [pc |-> pc, item |-> r.item, prior |-> r.prior, outcome |-> r.outcome,
     served |-> r.served, at |-> r.at, hasBlob |-> hasBlob, hasDoc |-> hasDoc]

\* Without a row of that digest the object is written, unless a file of that
\* name is there already.  Writing a file takes time.
StoreObject(f) ==
    LET r == fetch[f]
        writes == r.served \notin blobs /\ objects[r.served] = "absent"
    IN
    /\ r.pc = "answered"
    /\ r.outcome = "captured"
    /\ ~Unchanged(r)
    /\ fetch' = [fetch EXCEPT ![f] = Moved(r, IF writes THEN "writing" ELSE "stored",
                                           r.served \in blobs, FALSE)]
    /\ objects' = IF writes THEN [objects EXCEPT ![r.served] = "torn"] ELSE objects
    /\ UNCHANGED <<pool, parsed, jobs, lost, clock, parse>>

\* A write is over; the document is looked up.
FindDocument(f) ==
    LET r == fetch[f] IN
    /\ r.pc \in {"writing", "stored"}
    /\ fetch' = [fetch EXCEPT ![f] = Moved(r, "found", r.hasBlob,
                                           current[UrlOf[r.item]] # None)]
    /\ objects' = IF r.pc = "writing" THEN [objects EXCEPT ![r.served] = "whole"]
                  ELSE objects
    /\ UNCHANGED <<pool, parsed, jobs, lost, clock, parse>>

\* uq_blobs_dedup, uq_documents_identity and uq_captures_content: one of the
\* plain inserts meets a row that is there.
Conflict(r) ==
    \/ ~r.hasBlob /\ r.served \in blobs
    \/ ~r.hasDoc /\ current[UrlOf[r.item]] # None
    \/ Exists(<<UrlOf[r.item], r.served>>)

RecordCapture(f) ==
    LET r == fetch[f]
        c == <<UrlOf[r.item], r.served>>
    IN
    /\ r.pc = "found"
    /\ ~Conflict(r)
    /\ blobs' = blobs \cup {r.served}
    /\ origins' = origins \cup {r.item}
    /\ captures' = [captures EXCEPT ![c] = r.at]
    /\ current' = [current EXCEPT ![c[1]] = c[2]]
    /\ seen' = seen \cup {Observed(r, "captured", c)}
    /\ state' = [state EXCEPT ![r.item] = "captured"]
    /\ jobs' = jobs \cup {<<"parse", c>>}
    /\ fetch' = [fetch EXCEPT ![f] = NoFetch]
    /\ UNCHANGED <<parsed, objects, lost, clock, parse>>

\* The violated constraint rolls everything back but the file, and the
\* supervisor ends the job with internal_error.
RefuseCapture(f) ==
    LET r == fetch[f] IN
    /\ r.pc = "found"
    /\ Conflict(r)
    /\ lost' = lost \cup {r.item}
    /\ fetch' = [fetch EXCEPT ![f] = NoFetch]
    /\ UNCHANGED <<pool, parsed, objects, jobs, clock, parse>>

CrashFetch(f) ==
    /\ fetch[f].pc # "idle"
    /\ fetch' = [fetch EXCEPT ![f] = NoFetch]
    /\ UNCHANGED <<pool, parsed, objects, jobs, lost, clock, parse>>

----------------------------------------------------------------------------
(* Parse.  The row of the normalised bytes shares the fate of the parse and *)
(* is not kept apart.                                                       *)

Parsed(c) == parses[c].at # 0
Readable(c) == Parsed(c) /\ parses[c].ok

\* get_capture, get_blob, the file and the parser.  What the parser makes of a
\* file that is not whole is anybody's guess.
BeginParse(p, c) ==
    /\ parse[p].pc = "idle"
    /\ <<"parse", c>> \in jobs
    /\ \E ok \in IF objects[c[2]] = "whole" THEN {c[2] \notin Unreadable} ELSE BOOLEAN :
          parse' = [parse EXCEPT ![p] =
                      [pc |-> "read", capture |-> c, ok |-> ok,
                       created |-> FALSE, prior |-> None, at |-> 0]]
    /\ UNCHANGED <<pool, parsed, objects, jobs, lost, clock, fetch>>

\* Instants given to parses; a parse in progress already has its own.
ParseTimes ==
    {parses[c].at : c \in Captures} \cup {parse[p].at : p \in Parsers}
NextParseTime == 1 + CHOOSE n \in ParseTimes : \A m \in ParseTimes : m <= n

\* The newest readable parse of another capture of the document.
LatestParse(c) ==
    LET others == {d \in Captures : d[1] = c[1] /\ d # c /\ Readable(d)}
    IN  IF others = {} THEN None
        ELSE CHOOSE d \in others : \A e \in others : parses[e].at <= parses[d].at

\* A run that holds an uncommitted insert of this parse makes others wait.
Waits(p) ==
    \E q \in Parsers \ {p} : parse[q].pc = "paired" /\ parse[q].created
                             /\ parse[q].capture = parse[p].capture

\* The insert and the reads of the transaction.  Under READ COMMITTED the
\* newest parse is the newest committed one.
PairParse(p) ==
    LET r == parse[p]
        created == ~Parsed(r.capture)
    IN
    /\ r.pc = "read"
    /\ ~Waits(p)
    /\ NextParseTime <= MaxParses
    /\ parse' = [parse EXCEPT ![p] =
                   [pc |-> "paired", capture |-> r.capture, ok |-> r.ok,
                    created |-> created,
                    prior |-> IF created /\ r.ok THEN LatestParse(r.capture) ELSE None,
                    at |-> IF created THEN NextParseTime ELSE 0]]
    /\ UNCHANGED <<pool, parsed, objects, jobs, lost, clock, fetch>>

\* Mutant: from the parse that was there to the parse that has just been made.
DiffOfRunOrder(c, prior) == <<prior, c>>

\* Direction follows the captures' fetched_at, not the order of the parses.
DiffOf(c, prior) ==
    IF captures[prior] <= captures[c] THEN <<prior, c>> ELSE <<c, prior>>

\* Mutant: a repeated parse replaces the row.
ParseRowOver(r) == [at |-> IF r.created THEN r.at ELSE parses[r.capture].at, ok |-> r.ok]

\* The row of the parse: a conflict binds the one that is there.
ParseRow(r) ==
    IF r.created THEN [at |-> r.at, ok |-> r.ok] ELSE parses[r.capture]

\* Mutant: the jobs are spawned outside the test of created.
FollowUpsAlways(r) ==
    IF r.ok THEN {<<"index", r.capture>>, <<"route", r.capture>>} ELSE {}

\* Index and route are siblings, spawned by the commit of a readable parse.
FollowUps(r) ==
    IF r.created /\ r.ok THEN {<<"index", r.capture>>, <<"route", r.capture>>} ELSE {}

\* A repeated parse changes nothing but the capture's retrieval_scope.
CommitParse(p) ==
    LET r == parse[p] IN
    /\ r.pc = "paired"
    /\ parses' = [parses EXCEPT ![r.capture] = ParseRow(r)]
    /\ diffs' = IF r.prior = None THEN diffs ELSE diffs \cup {DiffOf(r.capture, r.prior)}
    /\ jobs' = jobs \cup FollowUps(r)
    /\ scope' = [scope EXCEPT ![r.capture] = IF r.ok THEN "fulltext" ELSE "metadata"]
    /\ parse' = [parse EXCEPT ![p] = NoParse]
    /\ UNCHANGED <<pool, objects, lost, clock, fetch>>

\* A worker dies, the file cannot be read, or the insert of the normalised
\* bytes that another run has inserted meanwhile is refused: nothing stays.
CrashParse(p) ==
    /\ parse[p].pc # "idle"
    /\ parse' = [parse EXCEPT ![p] = NoParse]
    /\ UNCHANGED <<pool, parsed, objects, jobs, lost, clock, fetch>>

----------------------------------------------------------------------------
FetchStep(f) ==
    \/ \E i \in Items : BeginFetch(f, i)
    \/ Answer(f)
    \/ RecordUnchanged(f)
    \/ RecordFailure(f)
    \/ StoreObject(f)
    \/ FindDocument(f)
    \/ RecordCapture(f)
    \/ RefuseCapture(f)
    \/ CrashFetch(f)

ParseStep(p) ==
    \/ \E c \in Captures : BeginParse(p, c)
    \/ PairParse(p)
    \/ CommitParse(p)
    \/ CrashParse(p)

Next ==
    \/ \E f \in Fetchers : FetchStep(f)
    \/ \E p \in Parsers : ParseStep(p)

Spec == Init /\ [][Next]_vars

----------------------------------------------------------------------------
(* Properties.                                                              *)

\* An observation that says a page was captured or had not changed points to
\* the capture of exactly what the source served to that run, whatever other
\* runs captured between its read of the prior capture and its commit.  It
\* points to none if nothing was served: a failure, or a 304 nobody asked for.
ObservationsTrue ==
    \A o \in seen :
        IF o.outcome \in {"captured", "no_change"} /\ o.served # None
        THEN o.capture = <<UrlOf[o.item], o.served>> /\ Exists(o.capture)
        ELSE o.capture = None

\* A diff leads from the older capture of a document to the newer one, and both
\* have a readable parse, in whatever order the parses run.
DiffsForward ==
    \A d \in diffs :
        /\ d[1][1] = d[2][1]
        /\ captures[d[1]] < captures[d[2]]
        /\ Readable(d[1]) /\ Readable(d[2])

\* Nothing falls out of the chain: a capture has its blob, file, document and
\* parse job; a parse has index and route jobs exactly if it is readable.
ChainUnbroken ==
    \A c \in Captures :
        /\ Exists(c) <=> <<"parse", c>> \in jobs
        /\ Exists(c) => /\ c[2] \in blobs
                        /\ objects[c[2]] # "absent"
                        /\ current[c[1]] # None
        /\ Parsed(c) => Exists(c)
        /\ \A kind \in {"index", "route"} : Readable(c) <=> <<kind, c>> \in jobs

\* What a step leaves of the history.
History ==
    /\ \A c \in Captures : /\ Exists(c) => captures'[c] = captures[c]
                           /\ Parsed(c) => parses'[c] = parses[c]
    /\ seen \subseteq seen'
    /\ origins \subseteq origins'
    /\ diffs \subseteq diffs'

\* Captures and parses are never rewritten, and no observation, origin or diff
\* disappears, although fetches and parses are repeated and overlap.
HistoryKept == [][History]_vars

\* FetchObservation: every visit is recorded.  No fetch loses the answer the
\* source gave.
NoAnswerLost == lost = {}
============================================================================
