------------------------------ MODULE Reports ------------------------------
(***************************************************************************)
(* Report jobs: a daily report enqueued by the scheduler or a report asked *)
(* for through the API.  A run reads the latest evidence of the industry,  *)
(* has a draft written over it, keeps the statements that cite only what   *)
(* it was given, stores a snapshot and then ends its job; it may die       *)
(* between any two of these.  Extraction and merges go on meanwhile.       *)
(***************************************************************************)
EXTENDS Naturals, Sequences

CONSTANTS Jobs,
          Drafts,       \* the drafts the model may write: sets of sets of citations
          PacketLimit,  \* evidence rows in a packet
          MaxAttempts,  \* attempts of a job
          MaxEvidence   \* evidence rows in one behaviour (bound)

VARIABLES evidence,     \* evidence rows committed so far: 1..evidence, oldest first
          job,          \* origin, state and attempt of each job
          run,          \* where the run of each job is, and what it holds
          reports,      \* reports with their one revision, in order of insertion
          report_citations,  \* the table that links revisions to evidence
          stale         \* revisions with a derived_status row

vars == <<evidence, job, run, reports, report_citations, stale>>

RunAt(at, packet, draft, report) ==
    [at |-> at, packet |-> packet, draft |-> draft, report |-> report]

NoRun == RunAt("none", {}, {}, 0)

Init ==
    /\ evidence = 0
    /\ job = [j \in Jobs |-> [origin |-> "none", state |-> "none", attempt |-> 0]]
    /\ run = [j \in Jobs |-> NoRun]
    /\ reports = <<>>
    /\ report_citations = {}
    /\ stale = {}

\* An extraction commits a claim with its evidence.
Extract ==
    /\ evidence < MaxEvidence
    /\ evidence' = evidence + 1
    /\ UNCHANGED <<job, run, reports, report_citations, stale>>

\* The tick's payload names type and period; the API's also the hash of the
\* request.
Enqueue(j) ==
    /\ job[j].state = "none"
    /\ \E origin \in {"tick", "api"} :
          job' = [job EXCEPT ![j] = [origin |-> origin, state |-> "queued", attempt |-> 0]]
    /\ UNCHANGED <<evidence, run, reports, report_citations, stale>>

Claim(j) ==
    /\ job[j].state = "queued"
    /\ job' = [job EXCEPT ![j] = [origin |-> job[j].origin, state |-> "running",
                                   attempt |-> job[j].attempt + 1]]
    /\ run' = [run EXCEPT ![j] = RunAt("read", {}, {}, 0)]
    /\ UNCHANGED <<evidence, reports, report_citations, stale>>

\* archive_packet_source: the latest rows, and their ids are what may be cited.
ReadPacket(j) ==
    /\ run[j].at = "read"
    /\ run' = [run EXCEPT ![j] =
                  RunAt("compose", {e \in 1..evidence : e + PacketLimit > evidence}, {}, 0)]
    /\ UNCHANGED <<evidence, job, reports, report_citations, stale>>

\* The model answers with statements and whatever citations it makes up.
Compose(j) ==
    /\ run[j].at = "compose"
    /\ \E draft \in Drafts :
          run' = [run EXCEPT ![j] = RunAt("persist", run[j].packet, draft, 0)]
    /\ UNCHANGED <<evidence, job, reports, report_citations, stale>>

\* Mutant: one known citation is enough.
SupportedInPart(statement, allowed) == statement \cap allowed # {}

\* validate_citation_coverage: some citation, and none from outside the packet.
Supported(statement, allowed) == statement # {} /\ statement \subseteq allowed

\* The coverage is 1 exactly when nothing is unsupported; an empty draft is
\* covered as well.
Composition(j) ==
    LET kept == {s \in run[j].draft : Supported(s, run[j].packet)} IN
    [sections |-> kept, unsupported |-> run[j].draft \ kept,
     status |-> IF kept = run[j].draft THEN "ready" ELSE "partial",
     job |-> j, packet |-> run[j].packet, draft |-> run[j].draft]

\* One transaction: the report, its revision and the pointer.  No row of
\* report_citations is written.
Persist(j) ==
    /\ run[j].at = "persist" /\ job[j].origin = "api"
    /\ reports' = Append(reports, Composition(j))
    /\ run' = [run EXCEPT ![j] = RunAt("finish", {}, {}, Len(reports) + 1)]
    /\ UNCHANGED <<evidence, job, report_citations, stale>>

\* The manifest takes input_manifest_hash from the payload; the tick has put
\* it into the key only, so the run ends with a KeyError.
NoManifestHash(j) ==
    /\ run[j].at = "persist" /\ job[j].origin = "tick"
    /\ job' = [job EXCEPT ![j].state = "failed"]
    /\ run' = [run EXCEPT ![j] = NoRun]
    /\ UNCHANGED <<evidence, reports, report_citations, stale>>

\* The job ends; its progress names the report and repeats its status.
Finish(j) ==
    /\ run[j].at = "finish"
    /\ job' = [job EXCEPT ![j].state = "succeeded"]
    /\ run' = [run EXCEPT ![j].at = "done"]
    /\ UNCHANGED <<evidence, reports, report_citations, stale>>

\* The process dies or loses its lease: the job is queued again while it has
\* attempts left.
Stop(j) ==
    /\ job[j].state = "running"
    /\ job' = [job EXCEPT ![j].state =
                   IF job[j].attempt < MaxAttempts THEN "queued" ELSE "failed"]
    /\ run' = [run EXCEPT ![j] = NoRun]
    /\ UNCHANGED <<evidence, reports, report_citations, stale>>

\* mark_derived_stale after a merge: the revisions that cite the evidence of
\* the merged events gain a mark, once.
MarkStale ==
    /\ \E cited \in SUBSET (1..evidence) :
          stale' = stale \cup {link.revision : link \in
                                  {l \in report_citations : l.evidence \in cited}}
    /\ UNCHANGED <<evidence, job, run, reports, report_citations>>

Next ==
    \/ Extract \/ MarkStale
    \/ \E j \in Jobs : \/ Enqueue(j) \/ Claim(j) \/ ReadPacket(j) \/ Compose(j)
                       \/ Persist(j) \/ NoManifestHash(j) \/ Finish(j) \/ Stop(j)

Spec == Init /\ [][Next]_vars

----------------------------------------------------------------------------
\* A snapshot says what it rests on: each statement it shows cites evidence
\* that was in the packet of its own run, each statement of the draft is
\* either shown or listed as unsupported, and only a report that hides
\* nothing is ready; a job that succeeded has such a report, also when an
\* earlier run of it stored one and died.
SnapshotsAreSupported ==
    /\ \A i \in 1..Len(reports) : LET r == reports[i] IN
          /\ \A s \in r.sections : s # {} /\ s \subseteq r.packet
          /\ r.packet \subseteq 1..evidence
          /\ r.sections \cup r.unsupported = r.draft
          /\ r.status = "ready" <=> r.unsupported = {}
    /\ \A j \in Jobs : job[j].state = "succeeded" =>
          run[j].report \in 1..Len(reports) /\ reports[run[j].report].job = j

=============================================================================
