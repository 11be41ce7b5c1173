------------------------------ MODULE Routing ------------------------------
(***************************************************************************)
(* Judging parses: workflows/route.py over workers/stores.py.              *)
(*                                                                         *)
(* A route job judges a parse against every industry that is active when   *)
(* the run starts, one transaction per industry: the decision and, for a   *)
(* direct one, the extract job.  The job is closed in a transaction of its *)
(* own.  A worker may die between any two of them, or go on after its      *)
(* lease is gone; the queue then hands the job out again, and a job has a  *)
(* limited number of runs.                                                 *)
(***************************************************************************)
EXTENDS Naturals, FiniteSets

CONSTANTS Parses,        \* parses with a route job
          Industries,    \* industries of the owner
          Active0,       \* those active in the beginning
          Workers,       \* runs at a time
          Outcomes,      \* the verdicts a model gives
          MaxVerdicts,   \* RouteWiring.max_verdicts_per_doc
          MaxAttempts,   \* runs of one job
          MaxRevisions,  \* bound: revisions of an industry
          None

ASSUME RoutingAssumption ==
    /\ Active0 \subseteq Industries
    /\ Outcomes \subseteq {"direct", "background", "uncertain", "unrelated"}
    /\ MaxVerdicts \in Nat
    /\ MaxAttempts \in Nat
    /\ MaxRevisions \in Nat \ {0}
    /\ None \notin Parses \cup Workers

VARIABLES
    active,     \* industries with status active
    revision,   \* industries.current_revision_id
    decisions,  \* processing_decisions
    extracts,   \* extract jobs, by parse and industry
    route,      \* the route job of a parse
    run         \* the runs

vars == <<active, revision, decisions, extracts, route, run>>

Decision == [parse : Parses, industry : Industries,
             revision : 1 .. MaxRevisions, outcome : Outcomes]

\* A job: its status, its runs so far and the run that holds its lease.
Job == [status : {"queued", "succeeded", "failed", "internal_error"},
        attempt : 0 .. MaxAttempts, owner : Workers \cup {None}]

\* listed: the industries the run was given; todo: those it has not judged.
NoRun == [pc |-> "idle", parse |-> None, listed |-> {}, todo |-> {}]

Init ==
    /\ active = Active0
    /\ revision = [i \in Industries |-> 1]
    /\ decisions = {}
    /\ extracts = {}
    /\ route = [p \in Parses |-> [status |-> "queued", attempt |-> 0, owner |-> None]]
    /\ run = [w \in Workers |-> NoRun]

----------------------------------------------------------------------------
(* The job.  Whether a lease is still good is the queue's business          *)
(* (JobQueue): here a job may be claimed while an earlier run of it goes on. *)

Begin(w, p) ==
    /\ run[w].pc = "idle"
    /\ route[p].status = "queued"
    /\ route[p].attempt < MaxAttempts
    /\ route' = [route EXCEPT ![p] = [status |-> "queued", owner |-> w,
                                      attempt |-> route[p].attempt + 1]]
    /\ run' = [run EXCEPT ![w] = [pc |-> "claimed", parse |-> p, listed |-> {}, todo |-> {}]]
    /\ UNCHANGED <<active, revision, decisions, extracts>>

\* The fenced end of a run: it moves the job only from under its own lease.
End(w, status) ==
    LET p == run[w].parse IN
    /\ route' = IF route[p].owner = w /\ route[p].status = "queued"
                THEN [route EXCEPT ![p].status = status] ELSE route
    /\ run' = [run EXCEPT ![w] = NoRun]
    /\ UNCHANGED <<active, revision, decisions, extracts>>

Crash(w) ==
    /\ run[w].pc # "idle"
    /\ run' = [run EXCEPT ![w] = NoRun]
    /\ UNCHANGED <<active, revision, decisions, extracts, route>>

\* The reaper closes a job whose last run has gone.
Reap(p) ==
    /\ route[p].status = "queued"
    /\ route[p].attempt = MaxAttempts
    /\ route' = [route EXCEPT ![p].status = "failed"]
    /\ UNCHANGED <<active, revision, decisions, extracts, run>>

----------------------------------------------------------------------------
(* The handler.                                                             *)

\* active_industries: one snapshot.
ListIndustries(w) ==
    /\ run[w].pc = "claimed"
    /\ Cardinality(active) <= MaxVerdicts
    /\ run' = [run EXCEPT ![w] = [pc |-> "judging", parse |-> run[w].parse,
                                  listed |-> active, todo |-> active]]
    /\ UNCHANGED <<active, revision, decisions, extracts, route>>

\* too_many_industries: nothing is judged rather than a part.
RefuseTooMany(w) ==
    /\ run[w].pc = "claimed"
    /\ Cardinality(active) > MaxVerdicts
    /\ End(w, "failed")

\* uq_processing_decisions_parse_revision
Decided(p, i) ==
    \E d \in decisions : d.parse = p /\ d.industry = i /\ d.revision = revision[i]

\* Mutant: the key of the job leaves the industry out.
SpawnedByFirst(p, i, o) ==
    IF o = "direct" /\ \A d \in decisions : d.parse # p \/ d.outcome # "direct"
    THEN {<<p, i>>} ELSE {}

\* The job of a verdict; enqueueing under a key that is taken changes nothing.
SpawnedBy(p, i, o) == IF o = "direct" THEN {<<p, i>>} ELSE {}

\* The model's verdict is recorded against the revision of this moment.
Judge(w) ==
    LET p == run[w].parse IN
    /\ run[w].pc = "judging"
    /\ \E i \in run[w].todo, o \in Outcomes :
          /\ ~Decided(p, i)
          /\ decisions' = decisions \cup
                {[parse |-> p, industry |-> i, revision |-> revision[i], outcome |-> o]}
          /\ extracts' = extracts \cup SpawnedBy(p, i, o)
          /\ run' = [run EXCEPT ![w].todo = @ \ {i}]
    /\ UNCHANGED <<active, revision, route>>

\* The plain insert meets the decision of an earlier run: the supervisor closes
\* the job with internal_error.
JudgeAgain(w) ==
    /\ run[w].pc = "judging"
    /\ \E i \in run[w].todo : Decided(run[w].parse, i)
    /\ End(w, "internal_error")

\* The model raises; the handler does not call that transient.
ModelRaises(w) ==
    /\ run[w].pc = "judging"
    /\ End(w, "failed")

\* Mutant: a run that has judged something is done.
FinishedEarly(w) == run[w].todo # run[w].listed

Finished(w) == run[w].todo = {}

Finish(w) ==
    /\ run[w].pc = "judging"
    /\ Finished(w)
    /\ End(w, "succeeded")

----------------------------------------------------------------------------
(* The owner activates, pauses or archives an industry, or edits it.        *)

Activate(i) ==
    /\ i \notin active
    /\ active' = active \cup {i}
    /\ UNCHANGED <<revision, decisions, extracts, route, run>>

Deactivate(i) ==
    /\ i \in active
    /\ active' = active \ {i}
    /\ UNCHANGED <<revision, decisions, extracts, route, run>>

Revise(i) ==
    /\ revision[i] < MaxRevisions
    /\ revision' = [revision EXCEPT ![i] = @ + 1]
    /\ UNCHANGED <<active, decisions, extracts, route, run>>

----------------------------------------------------------------------------
RunStep(w) ==
    \/ \E p \in Parses : Begin(w, p)
    \/ ListIndustries(w)
    \/ RefuseTooMany(w)
    \/ Judge(w)
    \/ JudgeAgain(w)
    \/ ModelRaises(w)
    \/ Finish(w)
    \/ Crash(w)

Next ==
    \/ \E w \in Workers : RunStep(w)
    \/ \E p \in Parses : Reap(p)
    \/ \E i \in Industries : Activate(i) \/ Deactivate(i) \/ Revise(i)

Spec == Init /\ [][Next]_vars

----------------------------------------------------------------------------
(* Properties.                                                              *)

\* A job reports success only for the run that holds its lease, and when every
\* industry of that run's list has a decision, whatever other runs of the job
\* do (docs/design/ingest.md: no candidate industry is left out).
JudgedAll ==
    [][\A p \in Parses :
          route[p].status = "queued" /\ route'[p].status = "succeeded" =>
              \E w \in Workers :
                  /\ w = route[p].owner
                  /\ run[w].pc = "judging" /\ run[w].parse = p
                  /\ \A i \in run[w].listed :
                        \E d \in decisions : d.parse = p /\ d.industry = i]_vars

\* The chain does not break: an extract job stands behind a direct decision,
\* whoever wrote it, and behind nothing else.
DirectIsExtracted ==
    extracts = {<<d.parse, d.industry>> : d \in {d \in decisions : d.outcome = "direct"}}

\* Nor does it fork: nothing is decided twice for one revision of an industry.
DecidedOnce ==
    \A d, e \in decisions :
        d.parse = e.parse /\ d.industry = e.industry /\ d.revision = e.revision => d = e

\* Whoever the parse is direct for extracts it, each revision has judged it at
\* most once, and a run that reports success has judged everyone.
RoutedWhole == [](DirectIsExtracted /\ DecidedOnce) /\ JudgedAll

=============================================================================
