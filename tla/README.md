# TLA+ models of semiconductor-intel

The repository is a Python service that collects industry sources, turns them
into evidence-backed claims and events, and answers questions and writes
reports over them. Its processes — an API (FastAPI), schedulers and workers
in the roles `pipeline`, `fetch` and `research` — share one PostgreSQL database
and a directory of object files. The `jobs` table is the queue; row locks,
fenced leases, unique keys and READ COMMITTED transactions are the only
coordination. That coordination, and the algorithms whose result depends on it,
is what these modules describe, check with TLC and, where it matters most, prove
with TLAPS.

## 1. Inventory

| Part | State it keeps | Operations | What is hard | What makes it correct |
|---|---|---|---|---|
| Job queue and service (`services/jobs.py`, `repositories/jobs.py`) | `jobs`, `job_steps`, `job_events` | enqueue, claim, heartbeat, finish, fail, request cancel, requeue due, reap expired | stale leases, two reapers, two limits on attempts, retries | one owner, bounded attempts, closed is closed, one verdict |
| Runner and loops (`workers/runner.py`, `workers/main.py`) | the claimed record, the handler task, the heartbeat task | run_once, supervise, finalize, upkeep | a run that outlives its lease, hung handlers, crashes | a late run changes nothing |
| Scheduler (`workers/scheduler.py`) | none of its own | tick: due feeds, report hour, watches | several ticks, an owner who pauses meanwhile | nothing new after a pause |
| Conversations (`repositories/conversations.py`, `workers/stores.py`, `workflows/answer.py`, `investigate.py`) | `messages`, `conversations.last_committed_message_id` | begin turn, insert answer, retry | answer and finish in two transactions, repeated posts, late runs | serial turns, append-only history |
| Idempotency guard (`api/idempotency.py`) | `api_idempotency`, 24 h | lookup, store, expire | repetition while the first request runs | no second effect |
| Event stream (`api/sse.py`) | a cursor per connection | read batch, read activity, yield, end | two reads in one poll, broken connections | no gap, no early end |
| Ingest (`workflows/ingest.py`, `sources/adapters/`, `repositories/pool.py`) | feed cursors, items, captures, observations, blobs, parses, diffs | discover, fetch, parse | listings that move, overlapping runs of one document, replays | no entry is skipped, history is kept, the chain of jobs neither breaks nor forks |
| Parsing and retrieval (`parsing/blocksdiff.py`, `retrieval/`) | chunks, coverage batches, recall cursor | diff, chunk, index, recall | cutting at boundaries, two chunker versions, rankings that move | no word is lost, an index is whole, a batch repeats nothing |
| Routing and extraction (`workflows/route.py`, `extract.py`, `domain/validation.py`) | processing decisions, claims, evidence | route, validate, judge, commit | a run that dies half way, what a model makes up | finished means everyone judged; evidence is quoted |
| Knowledge (`services/knowledge.py`, `repositories/knowledge.py`, `workflows/event_build.py`) | source families, claims, events, links, merges | commit extraction, resolve event, merge, undo | find-then-insert races, undo after edits | one event per identity, an undo takes back its own merge |
| Reviews (`services/reviews.py`, `workflows/review.py`) | `review_tasks`, `audit_logs` | request, decide, apply, undo | decisions delivered twice or together | the log accounts for every status |
| Evolution, timeline (`services/`) | drafts of edges; a page cursor | gate, search for cycles; page | order of a search; events committed between pages | no cycle is accepted, no page repeats or omits |
| Reports (`services/reports.py`, `workflows/report.py`) | reports, revisions, citations, stale marks | packet, draft, coverage gate, persist | a run that dies after storing | a snapshot shows what it rests on |
| Fetching (`sources/fetcher.py`, `politeness.py`, `pageclient.py`) | a gate per host and process | ask, wait, follow redirects, classify | cancelled and failed requests, login pages | bursts are bounded |
| Workspace, sources (`services/workspace.py`, `repositories/workspace.py`, `sources.py`) | industries, topics, feeds, subscriptions, revisions | edit under an expected version, move the status | a version checked in one statement and used in others | an edit sees its base, moves are legal |
| Identity (`services/identity.py`) | sessions, password version | login, logout, reset, check | a login that commits after a reset | what has ended is refused |
| Model adapter, HTTP plumbing, schema, web client | budgets, configuration | – | – | – |

Each hop of the pipeline enqueues the next in its own transaction: discover →
fetch → parse → index and route → extract → event build → review or report. A
job is delivered at least once, and a run whose lease is gone goes on until it
notices; so every module below the queue lets runs of one job overlap, die
between any two transactions, and be repeated.

`PROJECT.json` lists the parts with the modules that cover them, and under
`hazards` the places in the code where an order of steps can go wrong that a
test would hardly produce.

## 2. Modules

| Module | Models | Checked by |
|---|---|---|
| `JobOwnership` | what the queue promises: a job is waiting, owned or closed, is handed out at most `Budget` times, and never again once closed | as `OwnershipSpec` |
| `JobQueue`, `JobQueueProofs` | the queue, the workers and the upkeep pass; refines `JobOwnership` | `queue` |
| `Conversation`, `ConversationProofs` | one conversation, its posts and answer jobs; its queue is `JobOwnership` | `conversation` |
| `EventStream` | one client following one job | `reading` |
| `Timeline`, `Recall`, `Evolution` | pages, batches and the search for cycles | `reading` |
| `Reading`, `ReadingProofs` | what a reader is served: the stream, pages, batches and verdicts on chains | `reading` |
| `Discovery` | the discover handler over one growing listing | `discovery` |
| `Capture` | fetches and parses of one source's documents | `capture`, `capture_reverts` |
| `Ingest`, `IngestProofs` | `workflows/ingest.py` as a whole: the listing and the documents behind it | `discovery`, `capture` |
| `Chunker`, `BlockDiff`, `Extraction`, `Routing`, `Indexing` | what follows a parse, part by part | `parsed` |
| `Parsed`, `ParsedProofs` | what follows a parse | `parsed` |
| `Knowledge`, `KnowledgeProofs` | claims, events and merges of one industry | `knowledge` |
| `Reviews`, `ReviewsProofs` | proposals about one event | `reviews`, `reviews_replay` |
| `Workspace`, `Scheduler`, `Fetching`, `Reports`, `Sessions` | the services around the pipeline, part by part | `services`, `workspace_lost` |
| `Services`, `ServicesProofs` | the services around the pipeline | `services` |
| `MC...` | constants and symmetries | |

`Reading`, `Parsed` and `Services` put components side by side that share no row
which two of them write. A behaviour of theirs follows one component, chosen in
its initial state (`part`), while the others rest: the product of the parts has
nothing in it that one of them does not show. In `Ingest` the two sides meet in
one transaction, the one that commits an item with its fetch job. `Capture`
starts with the items that are there, however many, so each side is followed by
itself.

### JobQueue

One row per `(owner, kind, idempotency_key)`; variables are the columns. Each
action is one committed transaction or one step of a worker between two:

| Action | Code |
|---|---|
| `Enqueue`, `RequestCancel` | `JobService.enqueue`, `request_job_cancel` (only the inserting call and the first request change anything) |
| `Claim` | `JobRunner.run_once`: `FOR UPDATE SKIP LOCKED` and the update in one transaction |
| `Heartbeat`, `HeartbeatLost` | `_keep_lease` |
| `ObserveCancel`, `DeadlineFires`, `Raise`, `Crash` | how a handler ends: `RunContext.boundary`, `asyncio.timeout`, `JobFailure`, death of the process |
| `Finish` | a handler's own fenced `finish`, whose acknowledgement may be lost |
| `Settle` | the `except` branches of `_execute` with `_finalize` and `_service_fail` |
| `Upkeep`, `Reap`, `UpkeepFails` | `_reap`: `requeue_due` and the select of expired rows, then one conditional update per row; another process may act in between |
| `Tick` | time: leases and delays are kept relative to the present |

`_finalize` reads the row and writes it in one transaction with two statements;
it is one action because the write is fenced with the token of the row that was
read, and the run's token on that row cannot come back once it is gone.
Tokens are random in the code; here a claim takes any token nobody remembers.
A handler that a lost heartbeat cancels takes its place as `HeartbeatLost`.

### Conversation

`messages` in `turn_index` order, the client's draft and repetitions, the
requests between the guard's lookup and the row lock (`admitted`), the stored
keys, and every run of an answer job, numbered by its claim. Who owns the job is
`JobOwnership`; a run whose number is not the current claim has lost its lease
and may still commit an answer, as in the code, where `insert_answer_message` is
a transaction of its own without a fence. `last` is
`last_committed_message_id`. Failing, partial and successful answers all commit
a message; the model does not tell the wording apart.

### EventStream

The two reads of a poll are two actions, because PostgreSQL's READ COMMITTED
gives each statement its own snapshot. The yields of a batch are one step:
whether they are in flight or not yet yielded makes no difference to a client,
and a broken connection loses them either way. `CursorExpired` is the guard of
the code; nothing prunes `job_events` in this repository, so it never fires.

### Discovery

One feed and the source behind it. The source is external: entries are numbered
as they appear, the listing shows the newest first, and every new entry moves
the others down a page while somebody reads. A run is one execution of a
`discover` or `source_poll` job; the slot key does not keep two of them apart,
because a manual poll has a key of its own and a run that lost its lease goes
on. The request of a page and the transaction that records it are two actions
(`Request`, `Commit`), a run may end after any page (the budget `max_pages`,
`max_items`) and may die anywhere (`Fail`, which also stands for every refused
page). `found` is the table of discovery items; an item and its fetch job are
one transaction, so they are one set.

A cursor is the decoded blob: `page` inside a walk, `stop` the boundary URLs of
the walk before, `top` the front page of this one (`boundary_top`), `since` the
boundary date of a syndication feed. `next_link` and `page_param` differ only in
what ends a walk: a page without a next link, or nothing.

### Capture

A capture is named by its document and its content, which is what the unique key
`uq_captures_content` makes of it. A fetch run is `BeginFetch` (the first
transaction: item and newest capture), `Answer` (the source, without a
transaction; a 304 needs no prior capture, and then the observation is bound to
none), then `RecordUnchanged`, `RecordFailure`, or `StoreObject`,
`FindDocument` and `RecordCapture`/`RefuseCapture`: the file is written outside
the transaction and may stay torn, and the last step meets three unique keys. A
parse run is `BeginParse` (bytes and parser), `PairParse` (insert, or the row
that is there, and the newest other parse) and `CommitParse`.

### Chunker, BlockDiff, Extraction

Pure algorithms as machines whose inputs are chosen in `Init`. A text is the
sequence of its words: what is joined with a space or a newline costs one
character either way, so measures count characters of words. The chunker
follows `chunk_blocks`: cut into units, assembled with an overlap, tables by
groups of rows. Its loops are actions: `CutWindow` is one turn of the loop in
`_split_oversized` and `CutRows` one of that in `_split_tables`, with `start`
for the loop's variable. `BlockDiff` takes any walk that `SequenceMatcher` may produce
(no block left in a gap that both sides of the gap have) instead of its
heuristics, so the property holds for all of them. `Extraction` follows a
proposal through `validate_proposal`, the judge and `commit_extraction`.

### Routing, Indexing

`Judge` is the transaction of one industry, with the decision and, for a direct
one, the extract job; `JudgeAgain` is the plain insert that meets
`uq_processing_decisions_parse_revision`. Industries are switched and revised
between any two steps. In `Indexing` the comparison with the rows that are
there and the insert are two statements. All its workers embed with one version,
so the comparison of embedding versions (`retrieval/indexer.py:402-412`) always
agrees and is left out.

### Knowledge, Reviews

A run takes one proposal at a time, and looks for the event in one action and
links or inserts in the next. Merges and undos lock nothing that they only
read, so each of their reads is an action: a merge is `Expect` (what the client
has seen), `CheckVersion` for each of `expected_row_versions`, `NoteTarget` and
`NoteSource` (the second reading, which `save_merge` stores) and `ApplyMerge`, the
statements that write; an undo is `LookTarget` and `LookSource`, the comparisons
of `post_merge_modifications`, and `UndoMerge`. Several `Owners`, transactions of
the one owner, interleave between these steps. `Expect` carries the bound
`MaxMerges`. No route or handler calls `apply_event_merge` or `undo_event_merge`
yet: the module describes the service as it stands.

In `Reviews` the request, the read of the review, the read of the event's version
and the save are four actions; `save_review` writes every column from the record
that was read. The log is kept in the order of commits, while the code lists it
by `created_at`, the start of the transaction (`db/base.py:85`,
`repositories/reviews.py:185`). `AuditAccounts` is about which entries there are
and does not depend on either order.

### Timeline, Recall, Evolution

A walk over pages, between which events begin, commit and the clock moves;
batches over a ranking that shifts; the depth-first search of `detect_cycles`
over every proposal of up to four drafts.

### Workspace, Scheduler, Fetching, Reports, Sessions

`Workspace` has one row of any of the four kinds, one action per SQL statement,
and the row lock an UPDATE takes. `Scheduler` reads due feeds, reports and
watches in three statements and commits once. `Fetching` is the gate of one host
in one process and the walk over redirects. The gate counts the first GET of each
fetch job: the hops of a redirect (`sources/fetcher.py:167`) and the pages that
`discover` reads (`workflows/ingest.py:240`, `:258`) are sent outside it, and
`BurstBounded` does not speak of them. `Reports` keeps the packet and the
draft of each snapshot next to what it shows. `Sessions` has the two statements
of the check of a cookie, the three of a reset and the two of a login; resets
are the operator's, one at a time.

## 3. Runs

| Run | Question | Bounds | Result |
|---|---|---|---|
| `queue` | Do fence, budget and reaper keep one owner, is the queue `JobOwnership`, and is every job settled in the end? | 1 job, 2 workers, 2 reapers, 3 tokens, 3 attempts, lease of 2 ticks, deadline 2, scan up to 1 tick | holds under `FairSpec` |
| `conversation` | Are turns serial, the history append-only, and is every turn decided? | 2 keys, 2 attempts, each POST sent twice | holds under `FairSpec` |
| `discovery` | Does a cursor ever hide an entry that is not recorded, and is every entry found? | 2 runs, 5 entries; a list of 2 to a page with a boundary of 1, or a feed of one page with an overlap of 3 and a late entry | holds under `SourceSpec`, with fairness |
| `capture` | Do overlapping fetches and parses keep history, observations and the chain of jobs? | 2 items of 1 document, 2 contents, 2 fetch and 2 parse runs, 3 answers, 3 parses | holds |
| `parsed` | Is no word lost, is evidence quoted, is a finished route or index job whole? | documents of 3 blocks out of 5 lengths, parses of up to 3 blocks, proposals of up to 3 claims of 9 shapes; 3 industries, 2 runs, 2 attempts; 2 chunker versions | holds |
| `knowledge` | What can races and repetitions do to events and links, and does an undo take back only its own merge? | two sides of one state space (`MCBounds`): 2 extractions of 1 commit, 1 key, 2 runs, 3 events around 1 merge and its undo; and 2 transactions of merge and undo, 2 events, 3 merges over what runs have left | holds |
| `reviews` | Does the log account for every status and every job that succeeded, who decides twice? | 1 proposal and 2 that undos open, 2 runs, 3 requests delivered twice, 1 move of the event | holds |
| `reading` | Does a client miss or repeat an event, stop too early or never? Do pages and batches repeat or omit, is a verdict on a chain right? | 5 events, batches of 2, 3 connections; 3 events, pages of 1, 3 instants; 4 documents, batches of 1, 2 shifts; 3 nodes, up to 4 of 14 drafts | holds under `FairReadingSpec` |
| `services` | Lost edits, illegal moves, jobs after a pause, bursts, login pages, unsupported snapshots, ended sessions | 2 clients and 3 edits; 2 schedulers and 1 switch; 3 requests over 2 slots, up to 3 redirects, answers 200, 302 without a location and 500; 2 report jobs of 2 attempts; 1 login, 2 requests, 2 resets | holds |
| `capture_reverts` | Is every visit recorded? | as `capture` | violated |
| `reviews_replay` | Is a job that is delivered again after its writes harmless? | as `reviews` | violated |
| `workspace_lost` | Is an edit of a version that is gone refused, for every kind of row? | 2 clients, 3 edits | violated |

Why the bounds are enough. Jobs share no state but workers and reapers, and a
worker's run of one job is independent of the others, so one job with two
workers covers a stale owner against a new one; the third attempt lets a stale
run overlap with a claim, a retry and a last attempt, and two reapers race on
one scan. Three tokens are one more than the runs that can be remembered at
once, so a fresh one always exists. In the conversation a second key is a
second turn, a repetition under a new key or a retry of the first job. Five
events with batches of two give full, partial and empty batches. Five entries
with two to a page make a walk of three pages that can shift by a whole page
under a run. In `capture` three answers are one more than the contents, so a page
goes back to what it was, and two runs of each kind overlap at every step. A
third industry exceeds `MaxVerdicts` and arrives during a run. Three events
are what a race of two runs plus one more needs to break `OnlyRacesDuplicate`.
Two transactions and three merges let one write between any two statements of the
other, with a merge before that is undone out of turn.
The answer 302 stands for all that are neither 200 nor an error, which
`Terminal` treats alike; the proof is for every status from 200 to 599.
Chunker documents hold an empty block, one over the maximum and a word that is
over it alone, in all orders of heading, paragraph and table; target, maximum
and overlap are scaled down with the words. Three requests at a gate of two slots
are one more than a burst. Two resets are what tells `password_version` from a
flag.

Each property has a mutant in `PROJECT.json`: a plausible slip in one
definition, kept beside it in the module and named there, under which TLC finds
the property violated in the same run.

### What the violations show

`capture_reverts`: `insert_capture` is a plain INSERT, and `captures` is unique
in document, content and access policy. The handler compares a new answer with
the newest capture only. A page that returns to an earlier content, and two
items of one document that are fetched together, meet the key; nothing handles
the error, and the fetch ends in `internal_error` without an observation, an
origin or a state, although an observation is said to record each visit.

`reviews_replay`: the writes of an undo are committed before its job is closed. A
worker that dies in between leaves a job whose next delivery finds the review
undone, raises (`services/reviews.py:160`) and ends as failed, although
docs/design/qa.md:75 calls the replay safe. `decide` returns the recorded outcome
in the same place.

`workspace_lost`: topics, feeds and subscriptions take the success of an update
from a row read back, whose version another edit of the same base may have made
"expected plus one". Both clients are told that their edit was made; one was
not. Industries use RETURNING and are not affected (`EditsSeeTheirBase`).

### Other disagreements met while modelling

They have no run of their own: the models do what the code does, and the
properties above are about what it keeps all the same.

* A run that dies between committing its answer and finishing its job is
  replayed and answers again, and a late answer settles whatever question is
  open (`workflows/answer.py:206`, `workers/stores.py:369`, against
  docs/design/jobs.md:36 and qa.md:12). A failed answer job keeps the
  conversation's slot until it is retried by hand.
* A job that finishes between the two reads of a poll gets `stream_end` without
  its last event (`api/sse.py:149`).
* A first walk over a list with numbered pages never ends, since only a boundary
  URL ends one (`sources/adapters/html_list.py:167`); the second page of a feed's
  first walk may be dropped as history that nobody has walked (`feed.py:85`).
* `reap_expired` writes no `job_events` row, which docs/design/jobs.md says every
  change of state does.
* A repeated route run meets its own decisions and is closed with
  `internal_error` (plain INSERT against db/models/pool.py:478-483); the
  industries behind are not judged.
* The payload of a scheduled report has no `input_manifest_hash`, so the run
  fails with a KeyError after the model was asked (`workflows/report.py:97`,
  against the comment at `workers/scheduler.py:342`). `report_citations` is
  never written, so `mark_derived_stale` finds nothing to mark. A run that dies
  after it has stored its report stores a second one.
* Nothing sets `next_poll_at` of a feed or `last_checked_at` of a watch after
  the insertion: no feed is ever due, and a watch is due at every tick. A day
  whose report hour falls into downtime or a clock change has no daily report.
* A timeline walk whose cursor lies in the group of known dates never lists the
  group of unknown ones (`repositories/knowledge.py:250-259`, against its
  docstring); `WalkIsComplete` is about events with a date.
* A recall batch passes over documents that a shift moves in front of the
  offset, and reports the end, while docs/design/retrieval.md:61-62 allows no row
  to be skipped. `PassedOverOnlyByJump` is what remains: nothing is handed out
  twice, and only such a shift passes anything over.
* `undo_event_merge` compares versions and then updates the events by their ids
  alone (`services/knowledge.py:463-475`), without a lock or a version in the
  UPDATE. What another transaction writes to the merged event in between is
  overwritten, against the docstring at lines 456-461; `apply_event_merge` has the
  same gap between its check and its writes. `UndoOnlyOwnOrRaced` says that this
  race is the only way an undo takes back what is not its own.
* Merging A into B and B into A leaves a cycle; undoing a merge after its key
  came back leaves two active events of one key; the compensation of a refused
  undo is rolled back with the exception that reports it.
* `save_review` empties `expected_versions`, an approval and a rejection that
  both read a pending review are both applied. The log lists entries by the start
  of their transactions, so of two that race the newest entry need not be the
  one whose status the row has.
* A 3xx answer without a location is neither followed nor an error, reaches the
  branch that the comment at `sources/fetcher.py:242` calls 2xx and is captured.
  The check for login pages asks for status 200 (line 221), so behind a login
  any other answer below 400 is captured as well; `LoginIsNoCapture` is about 200.
* The gate keeps a distance to the last release, not between two requests: two
  that wait for one release leave together. The deadline runs while a request
  waits for the gate.
* A write of an object file is not atomic, and a torn file is never repaired;
  two parses that overlap miss the diff between them; the current capture may
  go back to an older one.
* A login whose password was checked before a reset and whose session is issued
  after it keeps that session.
* A quote that overlaps its own second occurrence counts as unique.
* No statement inserts `industry_documents`, and the URL import enqueues a fetch
  for an item it does not insert.
* The SQL adapters of pool, knowledge and sources select ORM entities over a
  Core connection and read attributes of the first column, and the timeline takes
  the `len` of a result it has read (`repositories/knowledge.py:266-267`). The
  models describe
  the statements and constraints these adapters and their in-memory
  counterparts state, not that mapping.

### Fairness

* Queue: workers poll, the clock runs, a deadline and the supervisor's branches
  are taken, the upkeep loop runs (weak fairness), and a row that is found
  expired again and again is written in the end although passes may fail (strong
  fairness of `Reap`: the loops run forever and their transactions do not fail
  for ever). Nothing is assumed of handlers, heartbeats, crashes or users.
* Conversation: claims, the steps of a run, and the reclaim of a row whose runs
  are all gone. Nothing is assumed of clients.
* Stream: the generator and the connection; not that connections stay up.
* Discovery: the feed is polled again and again (weak fairness of `Begin`), and
  requests and transactions that are tried again and again succeed in the end
  (strong fairness). The budget may cut every run after one page.

The other modules state no fairness: their jobs are `JobQueue`'s, which settles
them, and what they promise is safety. A replay may be refused, an owner may
pause for ever, and a host need not answer, so "in the end" would not be true.


## 4. Proofs

TLC answers for the instances above; TLAPS answers for every value of the
constants: any number of jobs, workers, tokens, entries, documents, industries,
documents to cut and compare, claims, events, proposals, clients, requests and
edits. Every safety property and every action property of a passing run is proved.

| Theorem | Property | Why it holds |
|---|---|---|
| `JobQueueProofs!TypeCorrect` | `TypeOK` | the columns stay in their domains |
| `JobQueueProofs!Fencing` | `OneOwner`, `OwnerSnapshotFresh` | tokens a claim hands out are remembered by nobody, so a token identifies the run it was given to; a run that is believed to own the row holds its token |
| `JobQueueProofs!Snapshots` | `SnapshotsFresh` | the same token is on the row that was read and on the row that is written |
| `JobQueueProofs!Budget` | `AttemptBudget`, `ScanFresh` | a row is claimable only below its budget, and only a claim counts |
| `JobQueueProofs!Verdict` | `OneVerdict` | the last event of the log and the state are written in one transaction, and a closed row is written no more |
| `JobQueueProofs!Closed`, `StaleHarmless` | `TerminalForever`, `LiveLeaseNotReaped`, `StaleWorkerHarmless` | every write of a run carries the fence, the reaper asks again that the lease is over, and while a lease lives its token is held by one run |
| `JobQueueProofs!Refinement` | `OwnershipSpec` | each step of the queue is a step of `JobOwnership` or a stutter |
| `ConversationProofs!SerialTurns`, `TurnsMatchJobs` | `PendingIsLast`, `TurnsMatch` | a question is admitted only onto an answered one, under the row lock, and its job in the same transaction |
| `ConversationProofs!HistoryAppendOnly` | `HistoryKept` | messages are only appended |
| `ReadingProofs!Delivery` | `Delivered` | what is received is a prefix of the log up to the cursor, and the end comes after a terminal state was read |
| `ReadingProofs!WalksAreComplete` | `WalkIsComplete` | a page is a lower part of what is visible, and what was visible at the start stays so, with the same place in the order |
| `ReadingProofs!RecallPassesOverOnlyByJump` | `PassedOverOnlyByJump` | the offset has passed what was delivered and what a shift put in front of it |
| `ReadingProofs!VerdictsAreTrue` | `VerdictIsTrue` | see below |
| `IngestProofs!CursorsCoverTheorem` | `CursorsCover` | a cursor that a run holds, and the stored one, hide only entries that are found or in the run's own page; entries only move down a listing |
| `IngestProofs!ObservationsAreTrue` | `ObservationsTrue` | a run that answers "no change" compared with a capture that exists, and captures are never deleted |
| `IngestProofs!DiffsLeadForward` | `DiffsForward` | see below |
| `IngestProofs!ChainHolds` | `ChainUnbroken` | the jobs are in the transaction of the row they follow, and the file is whole before that row is inserted |
| `IngestProofs!HistoryIsKept` | `HistoryKept` | rows are inserted; a unique key keeps the one that is there |
| `ParsedProofs!RoutingIsWhole` | `RoutedWhole` | what is off a run's list has its decision; a decision and its extract job are one transaction |
| `ParsedProofs!IndexingIsWhole` | `IndexIsWhole` | see below |
| `ParsedProofs!TextIsAccountedFor` | `TextAccountedFor` | see below |
| `ParsedProofs!EvidenceStandsInTheText` | `EvidenceIsQuoted` | see below |
| `KnowledgeProofs!UndoIsExact` | `UndoOnlyOwnOrRaced` | see below |
| `KnowledgeProofs!LinksStayHome` | `LinksOwnClaims` | a run keeps no claim that its extraction has not committed |
| `KnowledgeProofs!OnlyARaceDuplicates` | `OnlyRacesDuplicate` | see below |
| `ReviewsProofs!AuditAccountsFor` | `AuditAccounts` | entry and status are one save, also where that save overwrites a newer one; no entry is removed; a job succeeds after a save of its own, or on the recorded decision |
| `ReviewsProofs!DecidedAgain` | `DecidedAgainOnlyUnseen` | a run decides on the status it read, and a closed review is never opened again |
| `ServicesProofs!EditsAreOrdered`, `MovesAreLegal` | `EditsSeeTheirBase`, `LegalMovesOnly` | see below |
| `ServicesProofs!PauseStopsJobs` | `PausedIsQuiet` | a tick takes its keys from what is on and due at its own time, which is not later than the last time on |
| `ServicesProofs!BurstsAreBounded` | `BurstBounded` | see below |
| `ServicesProofs!NoLoginIsCaptured` | `LoginIsNoCapture` | `login_hop` is set exactly if a login page was on the path, for any set of statuses from 200 to 599 |
| `ServicesProofs!ReportsAreSupported` | `SnapshotsAreSupported` | a run's packet is committed evidence, and one transaction stores packet, draft and what passed the gate |
| `ServicesProofs!EndedStaysEnded` | `EndedIsRefused` | see below |

**The invariants.** Hardly any of these properties is inductive alone.

* Fencing needs that every token a worker or the row remembers is older than
  any token still free, and that what a worker believes of the row (`OneOwner`)
  is tied to the token and not to the worker's name.
* `CursorsCover` speaks of stored cursors, but a cursor is computed by a run
  from a page it read some time ago. The invariant extends it to every cursor,
  boundary and front page a run holds.
* `ObservationsTrue`, `DiffsForward` and `ChainUnbroken` share an invariant of
  rows and runs (`CaptureInv`): a fetch knows only captures that exist, and no
  two fetches or captures have an instant in common; past the file's write the
  object is there; a parse run that holds its insert is the only one of its
  capture. A diff leads forward because the pair is chosen after the new row's
  time is taken, and a parse that is not yet visible is later than any that is.
* `IndexIsWhole` (`IndexInv`): rows come and never change, so what a run has
  read of them is still there when it inserts, and after the insert all its
  ordinals are. A second chunker's run then finds a row that is not its own.
* `TextAccountedFor` is about what is there when a text has been cut and when a
  diff has been walked. In between (`ChunkInv`), a word that has been cut is in
  a unit, in the chunk under construction or in a chunk, where "has been cut" is
  read off `next` and `start`: the words before the window, a table's lines up
  to its row group, since the header is a line too. That no word falls between
  two windows takes that `NextStart` is at most one past the window's end; that
  the loop moves on, that it is past its start; that row groups are not empty.
  A unit is prose or rows of one table under its header, and the assembler mixes
  no rows with anything. `DiffInv` is about the blocks that have been walked:
  those the diff does not mention are equally many on both sides and the n-th
  reads like the n-th. A gap adds only blocks that it mentions, so the ranks of
  the blocks before it stay.
* `EvidenceIsQuoted` (`ExtractInv`) relates verdicts to claims, but the judge
  answers by the place in the list of accepted claims, from which the refused
  ones are missing. The invariant: each claim that was looked at is in exactly
  one list, each accepted claim at one place, and the verdict at that place is
  the claim's. `validate_proposal` stops at the first quote that fails; that a
  claim which passes has none takes the least element of a set of places.
* `WalkIsComplete` (`TimelineInv`): what a walk has shown lies up to its cursor
  in the order of keys, what it saw at the start and has not shown lies behind
  it, and an event's key is its own. A page takes the first `Limit` of a finite
  set, so a short page leaves nothing behind it.
* `VerdictIsTrue` (`SearchInv`): the stack is a path, a node that is done
  reaches only nodes that are done, and every set of done nodes has a sink, a
  node without a successor in the set; a cycle is a set without one. `Leave`
  keeps this: a set with the new node has the sink of the rest, or that node.
* `UndoOnlyOwnOrRaced` speaks of an undo, whose guard compared versions some
  statements ago. The invariant says what versions mean, for the rows and for
  every transaction under way: an applied merge's source is past the version the
  merge noted, and if it is past it by exactly one, nothing but that merge has
  written it and it still points to the merge's target; what a transaction noted
  or compared is not ahead of the row, and an undo about to write found the
  source at most one past its merge's note. So an undo that writes the version it
  compared writes a source that is in place.
* `OnlyRacesDuplicate` (`RaceInv`) counts what may still happen with what has:
  the events of a key and the runs that looked for one and found none are
  together at most the workers. A run finds none only if there is none, unless
  a merge has taken one away, and an event inactive means that one did.
* `EditsSeeTheirBase` has a version that is checked in one statement and a
  revision that is read, inserted and made current in three later ones. The
  invariant (`WorkspaceInv`): the client with the lock has an image of the row or
  of its next version, reached by a legal move; a client without it has
  seen nothing newer than the row; an industry's transaction is past its UPDATE
  only with the lock; and at most one transaction has an uncommitted revision,
  numbered one past the committed ones. From this the commit of an industry
  replaces what the client saw. For topics the same invariant gives the pointer
  and the moves, and no more: that is what `workspace_lost` shows.
* `BurstBounded` counts the requests of each window of `MinInterval`. The
  invariant (`WindowInv`), for the window from any instant: either all who sent
  in it, or are asleep and will, still hold a slot, and slots are few; or one of
  them has released its slot in it, and who acquires after that sleeps until the
  window is over.
* `EndedIsRefused` (`AccountInv`): a session's version says how many resets were
  done when it was issued, so one that is older than a reset never has the
  user's version again; what a request has found ended it does not accept.

Where a definition takes the least or greatest of a set of numbers, the proofs
need that there is one. The modules prove it from the library's well-founded
order of the finite subsets (`GreatestExists`, `MinExists`). The characters of a
text (`Chars`) are a fold, about which nothing can be proved here; the proof of
`TextAccountedFor` needs nothing of them, so it holds for any measure.

**Assumptions.** Only those the modules declare: that actors and the value of
an empty field (`None`, `NoToken`) differ, that budgets and bounds are natural
numbers, that a page, a boundary, a batch and a lease are at least one, that
requests, workers and events are finitely many where they are counted, and
which adapters, verdicts and failures there are (`SetsAssumption`,
`TimesAssumption`, `BudgetAssumption`, `CaptureAssumption`, `RoutingAssumption`
and so on). What an instantiated module needs is a definition there
(`TimelineAssumption`, `IndexingAssumption` and so on), which `Ingest`, `Parsed`
and `Reading` assume; `ChunkerAssumption` says that a word of a document carries
the block and the place it is in. TLC evaluates each of them in the runs. The symmetric sets
and small numbers of the configurations are not assumed anywhere.

**Only model-checked.** Liveness under fairness (`EventuallySettled`,
`TurnDecided`, `StreamEnds`, `PublishedIsFound`): out of the prover's reach.

## 5. Not modelled, and what is left

* **Model adapter** (`nooa_adapter/`): prompts, budgets of tokens and parsing of answers; a
  model's answer is an arbitrary choice wherever it enters. Schema validation of
  what it returns is modelled in `Extraction`.
* **HTTP plumbing** (`api/routes/`, `api/app.py`): translation of requests and errors
  without state of its own, apart from the guard, the stream and the cookie.
* **Schema and row-level security** (`migrations/`, `db/`): unique keys, checks
  and defaults appear where a module depends on them. Policies per owner do
  not: every module is about one owner.
* **Web client** (`web/`): outside the Python program.
* **Steps of a job** (`start_step`, `complete_step`): no handler calls them. A
  repeated `start_step` would write running over a succeeded step.
* **The idempotency guard over several routes**: `Conversation` covers the one
  route where the guard and the job's own key meet.
* **URL import, manual polls, API and sitemap adapters, the monitor**: the import
  is incomplete in the code (see above); the adapters page with
  an offset or have one page, and go through the same `discover` handler.
* **Parsers and scores**: what a parser returns is any sequence of blocks; scores are
  ranks.
* **Topic decisions, creation and search in the workspace, the counter of failed
  logins**: single statements or single transactions without a second actor
  on the same row.

Left of the plan: a bound on the size of a chunk, which takes facts about the
fold `Chars`; a model of two conversations under one key of the guard; the
monitor's observations.
