------------------------------ MODULE Reviews ------------------------------
(***************************************************************************)
(* Deciding the proposals that wait for a person: api/routes/reviews.py,   *)
(* workflows/review.py, services/reviews.py over repositories/reviews.py.  *)
(*                                                                         *)
(* A request compares the client's version with the row's and enqueues an  *)
(* apply_review job; the job's run reads the review, reads the version of  *)
(* the event it is about, and saves what it computed from that first read, *)
(* all in one transaction that locks nothing.  A run whose worker dies, or *)
(* whose lease is lost while it goes on, is delivered again.               *)
(*                                                                         *)
(* All proposals are about one event; `event' is its row_version.          *)
(***************************************************************************)
EXTENDS Naturals, Sequences

CONSTANTS Reviews,        \* review ids
          Proposed,       \* the reviews there are at the start
          Workers,        \* runs of apply_review at a time
          MaxJobs,        \* bound: requests accepted
          MaxDeliveries,  \* bound: deliveries of one job
          MaxMoves,       \* bound: times the event's row moves
          None

ASSUME ReviewsAssumption ==
    /\ Proposed \subseteq Reviews
    /\ MaxJobs \in Nat
    /\ MaxDeliveries \in Nat
    /\ MaxMoves \in Nat
    /\ None \notin Reviews
    /\ None \notin Nat
    /\ None \notin {"approve", "reject", "undo"}

VARIABLES
    rows,    \* review_tasks
    audit,   \* audit_logs of each review, in the order they were committed
    event,   \* row_version of the event the proposals are about
    jobs,    \* apply_review jobs, in the order they were accepted
    runs     \* the runs of the workers

vars == <<rows, audit, event, jobs, runs>>

Decisions == {"approve", "reject"}
Actions == Decisions \cup {"undo"}
Statuses == {"absent", "pending", "applied", "rejected", "obsolete"}

\* expects: the event version in expected_versions; None: an empty dict.
Row == [status : Statuses, decision : Decisions \cup {None},
        version : Nat, expects : Nat \cup {None}]

Job == [review : Reviews, action : Actions, expects : Nat \cup {None},
        state : {"queued", "running", "succeeded", "failed"},
        holder : Workers \cup {None}, deliveries : Nat]

\* What the entry says was done, and the job that did it.
Entry == [did : Actions, job : Nat]

Absent == [status |-> "absent", decision |-> None, version |-> 0, expects |-> None]
Open(expects) == [status |-> "pending", decision |-> None, version |-> 1,
                  expects |-> expects]

\* A run and the row it read first.
At(pc, job, read) == [pc |-> pc, job |-> job, read |-> read]
Idle == At("idle", 0, Absent)

Init ==
    /\ rows = [r \in Reviews |-> IF r \in Proposed THEN Open(1) ELSE Absent]
    /\ audit = [r \in Reviews |-> <<>>]
    /\ event = 1
    /\ jobs = <<>>
    /\ runs = [w \in Workers |-> Idle]

----------------------------------------------------------------------------
(* The request.  A client whose expected_version is not the row's gets 409 *)
(* and changes nothing; the status of the row is not looked at.            *)

Request(r, action) ==
    /\ rows[r].status # "absent"
    /\ Len(jobs) < MaxJobs
    /\ jobs' = Append(jobs, [review |-> r, action |-> action,
                             expects |-> rows[r].expects,
                             state |-> "queued", holder |-> None, deliveries |-> 0])
    /\ UNCHANGED <<rows, audit, event, runs>>

\* A merge or another writer of the event.
EventMoves ==
    /\ event <= MaxMoves
    /\ event' = event + 1
    /\ UNCHANGED <<rows, audit, jobs, runs>>

----------------------------------------------------------------------------
(* The run.                                                                 *)

\* The job with another state, in the hands of another run or of none.
Moved(job, state, holder, deliveries) ==
    [review |-> job.review, action |-> job.action, expects |-> job.expects,
     state |-> state, holder |-> holder, deliveries |-> deliveries]

Begin(w, j) ==
    /\ runs[w].pc = "idle"
    /\ jobs[j].state = "queued"
    /\ jobs[j].deliveries < MaxDeliveries
    /\ jobs' = [jobs EXCEPT ![j] = Moved(jobs[j], "running", w, jobs[j].deliveries + 1)]
    /\ runs' = [runs EXCEPT ![w] = At("begun", j, Absent)]
    /\ UNCHANGED <<rows, audit, event>>

Decided(row) == row.status \in {"applied", "rejected"}

\* Mutant: any decision counts as this one.
RepeatsAny(row, action) == Decided(row)

\* The recorded outcome stands for a decision that was delivered before.
Repeats(row, action) == Decided(row) /\ row.decision = action

\* Mutant: a decided review may be decided again.
VerdictAnyStatus(row, action) ==
    IF action = "undo" THEN IF Decided(row) THEN "undo" ELSE "refused"
    ELSE IF Repeats(row, action) THEN "done"
    ELSE "check"

\* Where the review's status sends the run.
Verdict(row, action) ==
    IF action = "undo" THEN IF Decided(row) THEN "undo" ELSE "refused"
    ELSE IF Repeats(row, action) THEN "done"
    ELSE IF row.status = "pending" THEN "check"
    ELSE "refused"

ReadReview(w) ==
    LET job == jobs[runs[w].job]
        row == rows[job.review]
    IN  /\ runs[w].pc = "begun"
        /\ runs' = [runs EXCEPT ![w] = At(Verdict(row, job.action), runs[w].job, row)]
        /\ UNCHANGED <<rows, audit, event, jobs>>

CheckVersions(w) ==
    LET to == IF jobs[runs[w].job].expects \in {None, event} THEN "save" ELSE "refused"
    IN  /\ runs[w].pc = "check"
        /\ runs' = [runs EXCEPT ![w] = At(to, runs[w].job, runs[w].read)]
        /\ UNCHANGED <<rows, audit, event, jobs>>

\* save_review writes every column from the record read first, an empty
\* expected_versions, and raises whatever row_version the row has by now.
Saved(r, status, decision, by) ==
    [status |-> status, decision |-> decision,
     version |-> rows[r].version + by, expects |-> None]

\* approve: saved as accepted, applied, saved again as applied, in one commit.
SavedDecision(r, action) ==
    IF action = "approve"
    THEN Saved(r, "applied", action, 2)
    ELSE Saved(r, "rejected", action, 1)

Save(w) ==
    LET job == jobs[runs[w].job]
    IN  /\ runs[w].pc = "save"
        /\ rows' = [rows EXCEPT ![job.review] = SavedDecision(job.review, job.action)]
        /\ audit' = [audit EXCEPT ![job.review] =
                        Append(@, [did |-> job.action, job |-> runs[w].job])]
        /\ runs' = [runs EXCEPT ![w] = At("done", runs[w].job, Absent)]
        /\ UNCHANGED <<event, jobs>>

SavedUndone(r, read) == Saved(r, "obsolete", read.decision, 1)

\* The undone review is closed and a new one opened in its place.
Undo(w, new) ==
    LET r == jobs[runs[w].job].review
    IN  /\ runs[w].pc = "undo"
        /\ rows[new].status = "absent"
        /\ rows' = [rows EXCEPT ![r] = SavedUndone(r, runs[w].read),
                                ![new] = Open(None)]
        /\ audit' = [audit EXCEPT ![r] = Append(@, [did |-> "undo", job |-> runs[w].job])]
        /\ runs' = [runs EXCEPT ![w] = At("done", runs[w].job, Absent)]
        /\ UNCHANGED <<event, jobs>>

\* The last transaction; a run that lost its lease is refused by the fence.
Finish(w) ==
    LET j == runs[w].job
    IN  /\ runs[w].pc \in {"done", "refused"}
        /\ jobs' = IF jobs[j].state = "running" /\ jobs[j].holder = w
                   THEN [jobs EXCEPT ![j] =
                            Moved(jobs[j], IF runs[w].pc = "done" THEN "succeeded" ELSE "failed",
                                  None, jobs[j].deliveries)]
                   ELSE jobs
        /\ runs' = [runs EXCEPT ![w] = Idle]
        /\ UNCHANGED <<rows, audit, event>>

\* The reaper puts the job of a dead or a slow run back; a slow run goes on.
Redeliver(w) ==
    LET j == runs[w].job
    IN  /\ runs[w].pc # "idle"
        /\ jobs[j].state = "running"
        /\ jobs[j].holder = w
        /\ jobs' = [jobs EXCEPT ![j] = Moved(jobs[j], "queued", None, jobs[j].deliveries)]
        /\ runs' \in {runs, [runs EXCEPT ![w] = Idle]}
        /\ UNCHANGED <<rows, audit, event>>

RunStep(w) ==
    \/ \E j \in DOMAIN jobs : Begin(w, j)
    \/ ReadReview(w)
    \/ CheckVersions(w)
    \/ Save(w)
    \/ \E new \in Reviews : Undo(w, new)
    \/ Finish(w)
    \/ Redeliver(w)

Next ==
    \/ \E r \in Reviews, action \in Actions : Request(r, action)
    \/ EventMoves
    \/ \E w \in Workers : RunStep(w)

Spec == Init /\ [][Next]_vars

----------------------------------------------------------------------------
(* Properties.                                                              *)

\* Every variable holds what its table or run can hold.
TypeOK ==
    /\ rows \in [Reviews -> Row]
    /\ audit \in [Reviews -> Seq(Entry)]
    /\ event \in Nat
    /\ jobs \in Seq(Job)
    /\ runs \in [Workers -> [pc : {"idle", "begun", "check", "save", "undo",
                                   "done", "refused"},
                             job : Nat, read : Row]]

Logged(r, action) == \E n \in DOMAIN audit[r] : audit[r][n].did = action

\* The audit log accounts for what was done and what was said: whatever runs
\* raced, died or were delivered again, a review that is closed has the entry of
\* what closed it, and a job that reports success, also one that found its
\* decision made already, has the entry of its action.
AuditAccounts ==
    /\ \A r \in Reviews :
          /\ rows[r].status = "applied" => Logged(r, "approve")
          /\ rows[r].status = "rejected" => Logged(r, "reject")
          /\ rows[r].status = "obsolete" => Logged(r, "undo")
    /\ \A j \in DOMAIN jobs :
          jobs[j].state = "succeeded" => Logged(jobs[j].review, jobs[j].action)


\* A closed review is decided again only by a run that read it while it was
\* still open: decide takes no lock, so such a run exists, but a decision that is
\* delivered, or delivered again, after the review was closed changes nothing.
DecidedAgainOnlyUnseen ==
    [][\A r \in Reviews :
         /\ audit[r] # <<>>
         /\ audit'[r] # audit[r]
         /\ audit'[r][Len(audit'[r])].did \in Decisions
         => \E w \in Workers :
              /\ runs[w].pc = "save" /\ runs'[w].pc = "done"
              /\ jobs[runs[w].job].review = r
              /\ runs[w].read.status = "pending"]_vars

=============================================================================
