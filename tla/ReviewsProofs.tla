---------------------------- MODULE ReviewsProofs ----------------------------
(***************************************************************************)
(* Proofs about Reviews, for any reviews, workers, requests and            *)
(* deliveries.  A job is about a review that is there; a run that may      *)
(* decide has read an open review.  What the log has, it keeps: so a run   *)
(* that found its decision made finds it logged, whichever run logged it.  *)
(***************************************************************************)
EXTENDS Reviews, TLAPS

JobsOK ==
    /\ jobs \in Seq(Job)
    /\ \A j \in DOMAIN jobs : rows[jobs[j].review].status # "absent"

RunRow == [pc : {"idle", "begun", "check", "save", "undo", "done", "refused"},
           job : Nat, read : Row]

RunsOK ==
    /\ runs \in [Workers -> RunRow]
    /\ \A w \in Workers : runs[w].pc # "idle" => runs[w].job \in DOMAIN jobs
    /\ \A w \in Workers : runs[w].pc \in {"check", "save"} =>
          /\ jobs[runs[w].job].action \in Decisions
          /\ runs[w].read.status = "pending"

TablesOK ==
    /\ rows \in [Reviews -> Row]
    /\ audit \in [Reviews -> Seq(Entry)]
    /\ event \in Nat

ReviewsInv == TablesOK /\ JobsOK /\ RunsOK

LEMMA ReviewsInit == Init => ReviewsInv
<1> SUFFICES ASSUME Init PROVE ReviewsInv
  OBVIOUS
<1>1. Open(1) \in Row /\ Absent \in Row /\ Open(1).status = "pending"
      /\ Absent.status = "absent"
  BY DEF Open, Absent, Row, Statuses
<1>2. TablesOK
  BY <1>1 DEF Init, TablesOK
<1>3. JobsOK
  BY DEF Init, JobsOK
<1>4. Idle \in RunRow /\ Idle.pc = "idle"
  BY <1>1 DEF Idle, At, RunRow
<1>5. RunsOK
  BY <1>4 DEF Init, RunsOK
<1> QED
  BY <1>2, <1>3, <1>5 DEF ReviewsInv

\* A job that changes hands is still about its review and its action.
LEMMA MovedJob ==
    ASSUME NEW job \in Job, NEW state \in {"queued", "running", "succeeded", "failed"},
           NEW holder \in Workers \cup {None}, NEW n \in Nat
    PROVE  /\ Moved(job, state, holder, n) \in Job
           /\ Moved(job, state, holder, n).review = job.review
           /\ Moved(job, state, holder, n).action = job.action
  BY DEF Moved, Job

\* What a queued or running job is about.
LEMMA JobRow ==
    ASSUME JobsOK, NEW j \in DOMAIN jobs
    PROVE  /\ jobs[j].review \in Reviews /\ rows[jobs[j].review].status # "absent"
           /\ jobs[j].action \in Actions /\ jobs[j].deliveries \in Nat
<1>1. jobs[j] \in Job
  BY DEF JobsOK
<1> QED
  BY <1>1 DEF Job, JobsOK

\* The queue's part of a step: jobs may be added and may change hands.
JobsMove ==
    /\ jobs' \in Seq(Job)
    /\ \A j \in DOMAIN jobs : /\ j \in DOMAIN jobs'
                              /\ jobs'[j].review = jobs[j].review
                              /\ jobs'[j].action = jobs[j].action

LEMMA JobChangesHands ==
    ASSUME JobsOK, NEW j \in DOMAIN jobs,
           NEW state \in {"queued", "running", "succeeded", "failed"},
           NEW holder \in Workers \cup {None}, NEW n \in Nat,
           jobs' = [jobs EXCEPT ![j] = Moved(jobs[j], state, holder, n)]
    PROVE  JobsMove /\ DOMAIN jobs' = DOMAIN jobs
<1>1. jobs[j] \in Job
  BY DEF JobsOK
<1>2. /\ Moved(jobs[j], state, holder, n) \in Job
      /\ Moved(jobs[j], state, holder, n).review = jobs[j].review
      /\ Moved(jobs[j], state, holder, n).action = jobs[j].action
  BY <1>1, MovedJob
<1>3. jobs' \in Seq(Job) /\ DOMAIN jobs' = DOMAIN jobs
  BY <1>2 DEF JobsOK
<1>4. \A i \in DOMAIN jobs : /\ jobs'[i].review = jobs[i].review
                             /\ jobs'[i].action = jobs[i].action
  BY <1>2 DEF JobsOK
<1> QED
  BY <1>3, <1>4 DEF JobsMove

\* One run goes on: what the others know still holds.
LEMMA RunGoesOn ==
    ASSUME RunsOK, JobsMove, NEW w \in Workers, NEW r \in RunRow,
           runs' = [runs EXCEPT ![w] = r],
           r.pc # "idle" => r.job \in DOMAIN jobs,
           r.pc \in {"check", "save"} =>
              jobs[r.job].action \in Decisions /\ r.read.status = "pending"
    PROVE  RunsOK'
<1>1. runs' \in [Workers -> RunRow]
  BY DEF RunsOK
<1>2. ASSUME NEW v \in Workers
      PROVE  /\ runs'[v].pc # "idle" => runs'[v].job \in DOMAIN jobs'
             /\ runs'[v].pc \in {"check", "save"} =>
                   /\ jobs'[runs'[v].job].action \in Decisions
                   /\ runs'[v].read.status = "pending"
  <2>1. CASE v = w
    <3>1. runs'[v] = r
      BY <2>1 DEF RunsOK
    <3> QED
      BY <3>1 DEF JobsMove
  <2>2. CASE v # w
    <3>1. runs'[v] = runs[v]
      BY <2>2 DEF RunsOK
    <3> QED
      BY <3>1 DEF JobsMove, RunsOK
  <2> QED
    BY <2>1, <2>2
<1> QED
  BY <1>1, <1>2 DEF RunsOK

\* A step that writes neither the reviews nor the log.
LEMMA TablesKept ==
    ASSUME ReviewsInv, JobsMove, RunsOK', UNCHANGED <<rows, audit>>, event' \in Nat,
           \A j \in DOMAIN jobs' : j \in DOMAIN jobs \/ rows[jobs'[j].review].status # "absent"
    PROVE  ReviewsInv'
<1>1. TablesOK'
  BY DEF ReviewsInv, TablesOK
<1>2. JobsOK'
  BY DEF ReviewsInv, JobsOK, JobsMove
<1> QED
  BY <1>1, <1>2 DEF ReviewsInv

\* Nothing happens to the queue.
LEMMA JobsStay == ASSUME JobsOK, UNCHANGED jobs PROVE JobsMove
  BY DEF JobsOK, JobsMove

LEMMA ReviewsNext == ReviewsInv /\ [Next]_vars => ReviewsInv'
<1> SUFFICES ASSUME ReviewsInv, [Next]_vars PROVE ReviewsInv'
  OBVIOUS
<1> USE DEF ReviewsInv
<1>i. Idle \in RunRow /\ Idle.pc = "idle" /\ Absent \in Row
  BY DEF Idle, At, RunRow, Absent, Row, Statuses
<1>1. ASSUME NEW r \in Reviews, NEW action \in Actions, Request(r, action)
      PROVE  ReviewsInv'
  <2> DEFINE job == [review |-> r, action |-> action, expects |-> rows[r].expects,
                     state |-> "queued", holder |-> None, deliveries |-> 0]
  <2>1. job \in Job /\ job.review = r
    BY DEF Job, TablesOK, Row
  <2>2. jobs' = Append(jobs, job) /\ UNCHANGED <<rows, audit, event, runs>>
        /\ rows[r].status # "absent"
    BY <1>1 DEF Request
  <2> HIDE DEF job
  <2>3. /\ jobs' \in Seq(Job)
        /\ \A j \in DOMAIN jobs : j \in DOMAIN jobs' /\ jobs'[j] = jobs[j]
        /\ \A j \in DOMAIN jobs' : j \in DOMAIN jobs \/ jobs'[j] = job
    BY <2>1, <2>2 DEF JobsOK
  <2>4. JobsMove
    BY <2>3 DEF JobsMove
  <2>5. RunsOK'
    BY <2>2, <2>3 DEF RunsOK
  <2> QED
    BY <2>1, <2>2, <2>3, <2>4, <2>5, TablesKept DEF TablesOK
<1>2. CASE EventMoves
  <2>1. UNCHANGED <<rows, audit, jobs, runs>> /\ event' \in Nat
    BY <1>2 DEF EventMoves, TablesOK
  <2>2. RunsOK'
    BY <2>1 DEF RunsOK
  <2> QED
    BY <2>1, <2>2, JobsStay, TablesKept
<1>3. ASSUME NEW w \in Workers, NEW j \in DOMAIN jobs, Begin(w, j) PROVE ReviewsInv'
  <2>1. jobs[j].deliveries + 1 \in Nat
    BY JobRow
  <2>2. JobsMove /\ DOMAIN jobs' = DOMAIN jobs
    BY <1>3, <2>1, JobChangesHands DEF Begin
  <2>3. At("begun", j, Absent) \in RunRow /\ At("begun", j, Absent).pc = "begun"
        /\ At("begun", j, Absent).job = j
    BY <1>i DEF At, RunRow, JobsOK
  <2>4. runs' = [runs EXCEPT ![w] = At("begun", j, Absent)] /\ UNCHANGED <<rows, audit, event>>
    BY <1>3 DEF Begin
  <2>5. RunsOK'
    BY <2>2, <2>3, <2>4, RunGoesOn
  <2> QED
    BY <2>2, <2>4, <2>5, TablesKept DEF TablesOK
<1>4. ASSUME NEW w \in Workers, ReadReview(w) PROVE ReviewsInv'
  <2> DEFINE j == runs[w].job
             row == rows[jobs[j].review]
             to == Verdict(row, jobs[j].action)
  <2>1. j \in DOMAIN jobs /\ j \in Nat
    BY <1>4 DEF ReadReview, RunsOK, RunRow
  <2>3. row \in Row /\ jobs[j].action \in Actions
    BY <2>1, JobRow DEF TablesOK
  <2>4. /\ to \in {"undo", "refused", "done", "check"}
        /\ to = "check" => jobs[j].action \in Decisions /\ row.status = "pending"
    BY <2>3 DEF Verdict, Actions
  <2>5. runs' = [runs EXCEPT ![w] = At(to, j, row)] /\ UNCHANGED <<rows, audit, event, jobs>>
    BY <1>4 DEF ReadReview
  <2> HIDE DEF to, row, j
  <2>6. /\ At(to, j, row) \in RunRow /\ At(to, j, row).pc = to
        /\ At(to, j, row).job = j /\ At(to, j, row).read = row
    BY <2>1, <2>3, <2>4 DEF At, RunRow
  <2>7. RunsOK'
    BY <2>1, <2>4, <2>5, <2>6, JobsStay, RunGoesOn
  <2> QED
    BY <2>5, <2>7, JobsStay, TablesKept DEF TablesOK
<1>5. ASSUME NEW w \in Workers, CheckVersions(w) PROVE ReviewsInv'
  <2>1. PICK to \in {"save", "refused"} : runs' = [runs EXCEPT ![w] = At(to, runs[w].job, runs[w].read)]
    BY <1>5 DEF CheckVersions
  <2>2. runs[w].pc = "check" /\ UNCHANGED <<rows, audit, event, jobs>>
    BY <1>5 DEF CheckVersions
  <2>3. runs[w] \in RunRow /\ runs[w].job \in DOMAIN jobs
        /\ jobs[runs[w].job].action \in Decisions /\ runs[w].read.status = "pending"
    BY <2>2 DEF RunsOK
  <2> DEFINE r == At(to, runs[w].job, runs[w].read)
  <2>4. r \in RunRow /\ r.pc = to /\ r.job = runs[w].job /\ r.read = runs[w].read
    BY <2>3 DEF At, RunRow
  <2> HIDE DEF r
  <2>5. runs' = [runs EXCEPT ![w] = r]
    BY <2>1 DEF r
  <2>6. RunsOK'
    BY <2>2, <2>3, <2>4, <2>5, JobsStay, RunGoesOn
  <2> QED
    BY <2>2, <2>6, JobsStay, TablesKept DEF TablesOK
<1>6. ASSUME NEW w \in Workers, Save(w) PROVE ReviewsInv'
  <2> DEFINE j == runs[w].job
             r == jobs[j].review
             action == jobs[j].action
             row == SavedDecision(r, action)
  <2>1. runs[w].pc = "save"
    BY <1>6 DEF Save
  <2>2. j \in DOMAIN jobs /\ j \in Nat /\ action \in Decisions
    BY <2>1 DEF RunsOK, RunRow
  <2>3. r \in Reviews
    BY <2>2, JobRow
  <2>4. /\ row \in Row
        /\ action = "approve" => row.status = "applied"
        /\ action # "approve" => row.status = "rejected"
    <3>1. rows[r].version \in Nat
      BY <2>3 DEF TablesOK, Row
    <3> QED
      BY <2>2, <3>1 DEF SavedDecision, Saved, Row, Statuses, Decisions
  <2>5. /\ rows' = [rows EXCEPT ![r] = row]
        /\ audit' = [audit EXCEPT ![r] = Append(audit[r], [did |-> action, job |-> j])]
        /\ runs' = [runs EXCEPT ![w] = At("done", j, Absent)]
        /\ UNCHANGED <<event, jobs>>
    BY <1>6 DEF Save
  <2>6. action \in {"approve", "reject"}
    BY <2>2 DEF Decisions
  <2> HIDE DEF row, action, r, j
  <2>7. TablesOK'
    <3>1. [did |-> action, job |-> j] \in Entry
      BY <2>2, <2>6 DEF Entry, Actions, Decisions
    <3> QED
      BY <2>3, <2>4, <2>5, <3>1 DEF TablesOK
  <2>8. JobsOK'
    <3>1. ASSUME NEW i \in DOMAIN jobs
          PROVE  rows'[jobs[i].review].status # "absent"
      BY <2>3, <2>4, <2>5, <2>6, JobRow DEF TablesOK
    <3> QED
      BY <2>5, <3>1 DEF JobsOK
  <2>9. RunsOK'
    <3>1. At("done", j, Absent) \in RunRow /\ At("done", j, Absent).pc = "done"
          /\ At("done", j, Absent).job = j
      BY <1>i, <2>2 DEF At, RunRow
    <3> QED
      BY <2>2, <2>5, <3>1, JobsStay, RunGoesOn
  <2> QED
    BY <2>7, <2>8, <2>9
<1>7. ASSUME NEW w \in Workers, NEW new \in Reviews, Undo(w, new) PROVE ReviewsInv'
  <2> DEFINE j == runs[w].job
             r == jobs[j].review
             row == SavedUndone(r, runs[w].read)
  <2>1. runs[w].pc = "undo" /\ rows[new].status = "absent"
    BY <1>7 DEF Undo
  <2>2. j \in DOMAIN jobs /\ j \in Nat /\ runs[w].read \in Row
    BY <2>1 DEF RunsOK, RunRow
  <2>3. r \in Reviews /\ r # new
    BY <2>1, <2>2, JobRow
  <2>4. row \in Row /\ row.status = "obsolete"
    <3>1. rows[r].version \in Nat
      BY <2>3 DEF TablesOK, Row
    <3> QED
      BY <2>2, <3>1 DEF SavedUndone, Saved, Row, Statuses
  <2>5. Open(None) \in Row /\ Open(None).status = "pending"
    BY DEF Open, Row, Statuses
  <2>6. /\ rows' = [rows EXCEPT ![r] = row, ![new] = Open(None)]
        /\ audit' = [audit EXCEPT ![r] = Append(audit[r], [did |-> "undo", job |-> j])]
        /\ runs' = [runs EXCEPT ![w] = At("done", j, Absent)]
        /\ UNCHANGED <<event, jobs>>
    BY <1>7 DEF Undo
  <2> HIDE DEF row, r, j
  <2>7. /\ rows' \in [Reviews -> Row]
        /\ rows'[r] = row /\ rows'[new] = Open(None)
        /\ \A q \in Reviews : q # r /\ q # new => rows'[q] = rows[q]
    BY <2>3, <2>4, <2>5, <2>6 DEF TablesOK
  <2>8. TablesOK'
    <3>1. [did |-> "undo", job |-> j] \in Entry
      BY <2>2 DEF Entry, Actions
    <3> QED
      BY <2>3, <2>6, <2>7, <3>1 DEF TablesOK
  <2>9. JobsOK'
    <3>1. ASSUME NEW i \in DOMAIN jobs
          PROVE  rows'[jobs[i].review].status # "absent"
      BY <2>4, <2>5, <2>7, JobRow
    <3> QED
      BY <2>6, <3>1 DEF JobsOK
  <2>10. RunsOK'
    <3>1. At("done", j, Absent) \in RunRow /\ At("done", j, Absent).pc = "done"
          /\ At("done", j, Absent).job = j
      BY <1>i, <2>2 DEF At, RunRow
    <3> QED
      BY <2>2, <2>6, <3>1, JobsStay, RunGoesOn
  <2> QED
    BY <2>8, <2>9, <2>10
<1>8. ASSUME NEW w \in Workers, Finish(w) PROVE ReviewsInv'
  <2> DEFINE j == runs[w].job
  <2>1. j \in DOMAIN jobs
    BY <1>8 DEF Finish, RunsOK
  <2>2. jobs[j].deliveries \in Nat
    BY <2>1, JobRow
  <2>3. JobsMove /\ DOMAIN jobs' = DOMAIN jobs
    <3>1. CASE UNCHANGED jobs
      BY <3>1, JobsStay
    <3>2. CASE jobs' # jobs
      <4>1. PICK state \in {"succeeded", "failed"} :
               jobs' = [jobs EXCEPT ![j] = Moved(jobs[j], state, None, jobs[j].deliveries)]
        BY <1>8, <3>2 DEF Finish
      <4> QED
        BY <2>1, <2>2, <4>1, JobChangesHands
    <3> QED
      BY <3>1, <3>2
  <2>4. runs' = [runs EXCEPT ![w] = Idle] /\ UNCHANGED <<rows, audit, event>>
    BY <1>8 DEF Finish
  <2>5. RunsOK'
    BY <1>i, <2>3, <2>4, RunGoesOn
  <2> QED
    BY <2>3, <2>4, <2>5, TablesKept DEF TablesOK
<1>9. ASSUME NEW w \in Workers, Redeliver(w) PROVE ReviewsInv'
  <2> DEFINE j == runs[w].job
  <2>1. j \in DOMAIN jobs
    BY <1>9 DEF Redeliver, RunsOK
  <2>2. jobs[j].deliveries \in Nat
    BY <2>1, JobRow
  <2>3. /\ jobs' = [jobs EXCEPT ![j] = Moved(jobs[j], "queued", None, jobs[j].deliveries)]
        /\ UNCHANGED <<rows, audit, event>>
        /\ runs' = runs \/ runs' = [runs EXCEPT ![w] = Idle]
    BY <1>9 DEF Redeliver
  <2>4. JobsMove /\ DOMAIN jobs' = DOMAIN jobs
    BY <2>1, <2>2, <2>3, JobChangesHands
  <2>5. RunsOK'
    <3>1. CASE runs' = runs
      BY <2>4, <3>1 DEF RunsOK, JobsMove
    <3>2. CASE runs' = [runs EXCEPT ![w] = Idle]
      BY <1>i, <2>4, <3>2, RunGoesOn
    <3> QED
      BY <2>3, <3>1, <3>2
  <2> QED
    BY <2>3, <2>4, <2>5, TablesKept DEF TablesOK
<1>10. CASE UNCHANGED vars
  BY <1>10 DEF vars, TablesOK, JobsOK, RunsOK
<1> QED
  BY <1>1, <1>2, <1>3, <1>4, <1>5, <1>6, <1>7, <1>8, <1>9, <1>10 DEF Next, RunStep

-----------------------------------------------------------------------------
(* What is logged.                                                          *)

RowsLogged ==
    \A r \in Reviews :
        /\ rows[r].status = "applied" => rows[r].decision = "approve" /\ Logged(r, "approve")
        /\ rows[r].status = "rejected" => rows[r].decision = "reject" /\ Logged(r, "reject")
        /\ rows[r].status = "obsolete" => Logged(r, "undo")

RunsLogged ==
    \A w \in Workers :
        /\ runs[w].pc = "undo" => jobs[runs[w].job].action = "undo"
        /\ runs[w].pc = "done" => Logged(jobs[runs[w].job].review, jobs[runs[w].job].action)

JobsLogged ==
    \A j \in DOMAIN jobs :
        jobs[j].state = "succeeded" => Logged(jobs[j].review, jobs[j].action)

LogInv == RowsLogged /\ RunsLogged /\ JobsLogged

\* A job succeeds only when what it was to do is logged.
OnlyLoggedSucceed ==
    \A j \in DOMAIN jobs' : jobs'[j].state = "succeeded" =>
        /\ j \in DOMAIN jobs
        /\ Logged(jobs[j].review, jobs[j].action)

\* A step of the queue or of a run that writes neither reviews nor log.
LEMMA LogKept ==
    ASSUME ReviewsInv, LogInv, JobsMove, OnlyLoggedSucceed, UNCHANGED <<rows, audit>>,
           NEW w \in Workers, NEW r \in RunRow,
           runs' = [runs EXCEPT ![w] = r] \/ UNCHANGED runs,
           r.pc # "idle" => r.job \in DOMAIN jobs,
           r.pc = "undo" => jobs[r.job].action = "undo",
           r.pc = "done" => Logged(jobs[r.job].review, jobs[r.job].action)
    PROVE  LogInv'
<1>1. RowsLogged'
  BY DEF LogInv, RowsLogged, Logged
<1>2. JobsLogged'
  BY DEF JobsLogged, OnlyLoggedSucceed, JobsMove, Logged
<1>3. ASSUME NEW v \in Workers
      PROVE  /\ runs'[v].pc = "undo" => jobs'[runs'[v].job].action = "undo"
             /\ (runs[v].pc = "done" => Logged(jobs[runs[v].job].review, jobs[runs[v].job].action))'
  <2>1. CASE runs'[v] = runs[v]
    <3>1. PICK i : i = runs[v].job
      OBVIOUS
    <3>2. CASE runs[v].pc \notin {"undo", "done"}
      BY <2>1, <3>2
    <3>3. CASE runs[v].pc \in {"undo", "done"}
      <4>1. i \in DOMAIN jobs
        BY <3>1, <3>3 DEF ReviewsInv, RunsOK
      <4>2. jobs'[i].review = jobs[i].review /\ jobs'[i].action = jobs[i].action
        BY <4>1 DEF JobsMove
      <4>3. /\ runs[v].pc = "undo" => jobs[i].action = "undo"
            /\ runs[v].pc = "done" => Logged(jobs[i].review, jobs[i].action)
        BY <3>1 DEF LogInv, RunsLogged
      <4> QED
        BY <2>1, <3>1, <4>2, <4>3 DEF Logged
    <3> QED
      BY <3>2, <3>3
  <2>2. CASE runs'[v] = r
    BY <2>2 DEF JobsMove, Logged
  <2> QED
    BY <2>1, <2>2 DEF ReviewsInv, RunsOK
<1>4. RunsLogged'
  BY <1>3 DEF RunsLogged
<1> QED
  BY <1>1, <1>2, <1>4 DEF LogInv

\* An entry is added to the log of the review r, which gets the row that the
\* entry explains; the run that did it is done.
LEMMA LogGrows ==
    ASSUME ReviewsInv, LogInv, UNCHANGED jobs, NEW w \in Workers, NEW r \in Reviews,
           NEW entry \in Entry, NEW done,
           audit' = [audit EXCEPT ![r] = Append(audit[r], entry)],
           runs' = [runs EXCEPT ![w] = done],
           done.pc = "done", done.job \in DOMAIN jobs,
           jobs[done.job].review = r, jobs[done.job].action = entry.did,
           rows'[r].status = "applied" => rows'[r].decision = "approve" /\ entry.did = "approve",
           rows'[r].status = "rejected" => rows'[r].decision = "reject" /\ entry.did = "reject",
           rows'[r].status = "obsolete" => entry.did = "undo",
           \A q \in Reviews : q # r => rows'[q] = rows[q] \/ rows'[q].status = "pending"
    PROVE  LogInv'
<1>1. audit[r] \in Seq(Entry)
  BY DEF ReviewsInv, TablesOK
<1>2. \A q \in Reviews : q # r => audit'[q] = audit[q]
  BY DEF ReviewsInv, TablesOK
<1>3. audit'[r] = Append(audit[r], entry)
  BY DEF ReviewsInv, TablesOK
<1>4. /\ \A n \in DOMAIN audit[r] : n \in DOMAIN audit'[r] /\ audit'[r][n] = audit[r][n]
      /\ Len(audit[r]) + 1 \in DOMAIN audit'[r] /\ audit'[r][Len(audit[r]) + 1] = entry
  BY <1>1, <1>3
<1>5. \A q \in Reviews, action \in Actions : Logged(q, action) => Logged(q, action)'
  BY <1>2, <1>4 DEF Logged
<1>6. \A action \in Actions : action = entry.did => Logged(r, action)'
  BY <1>4 DEF Logged
<1>7. {"approve", "reject", "undo"} \subseteq Actions
  BY DEF Actions, Decisions
<1>8. RowsLogged'
  <2>1. ASSUME NEW q \in Reviews
        PROVE  /\ rows'[q].status = "applied" => rows'[q].decision = "approve" /\ Logged(q, "approve")'
               /\ rows'[q].status = "rejected" => rows'[q].decision = "reject" /\ Logged(q, "reject")'
               /\ rows'[q].status = "obsolete" => Logged(q, "undo")'
    <3>1. CASE q = r
      BY <1>6, <1>7, <3>1
    <3>2. CASE q # r
      BY <1>5, <1>7, <3>2 DEF LogInv, RowsLogged
    <3> QED
      BY <3>1, <3>2
  <2> QED
    BY <2>1 DEF RowsLogged
<1>9. JobsLogged'
  <2>1. ASSUME NEW j \in DOMAIN jobs, jobs[j].state = "succeeded"
        PROVE  (Logged(jobs[j].review, jobs[j].action))'
    <3>1. PICK q \in Reviews, action \in Actions : q = jobs[j].review /\ action = jobs[j].action
      BY JobRow DEF ReviewsInv
    <3>2. Logged(q, action)'
      BY <1>5, <2>1, <3>1 DEF LogInv, JobsLogged
    <3> QED
      BY <3>1, <3>2
  <2> QED
    BY <2>1 DEF JobsLogged
<1>10. ASSUME NEW v \in Workers
       PROVE  /\ runs'[v].pc = "undo" => jobs'[runs'[v].job].action = "undo"
              /\ (runs[v].pc = "done" => Logged(jobs[runs[v].job].review, jobs[runs[v].job].action))'
  <2>1. PICK i : i = runs'[v].job
    OBVIOUS
  <2>2. CASE runs'[v].pc # "undo" /\ runs'[v].pc # "done"
    BY <2>2
  <2>3. CASE v = w
    <3>1. runs'[v] = done /\ entry.did \in Actions
      BY <2>3 DEF ReviewsInv, RunsOK, Entry
    <3>2. PICK action \in Actions : action = entry.did
      BY <3>1
    <3>3. Logged(r, action)'
      BY <1>6, <3>2
    <3>4. jobs'[runs'[v].job].review = r /\ jobs'[runs'[v].job].action = action
      BY <3>1, <3>2
    <3> QED
      BY <3>1, <3>3, <3>4
  <2>4. CASE v # w /\ (runs'[v].pc = "undo" \/ runs'[v].pc = "done")
    <3>1. runs'[v] = runs[v] /\ i \in DOMAIN jobs
      BY <2>1, <2>4 DEF ReviewsInv, RunsOK
    <3>2. PICK q \in Reviews, action \in Actions : q = jobs[i].review /\ action = jobs[i].action
      BY <3>1, JobRow DEF ReviewsInv
    <3>3. runs[v].pc = "done" => Logged(q, action)
      BY <2>1, <3>1, <3>2 DEF LogInv, RunsLogged
    <3>4. runs[v].pc = "done" => Logged(q, action)'
      BY <1>5, <3>3
    <3>5. jobs'[runs'[v].job].review = q /\ jobs'[runs'[v].job].action = action
      BY <2>1, <3>2
    <3>6. runs[v].pc = "undo" => action = "undo"
      BY <2>1, <3>1, <3>2 DEF LogInv, RunsLogged
    <3> QED
      BY <3>1, <3>4, <3>5, <3>6
  <2> QED
    BY <2>2, <2>3, <2>4
<1>11. RunsLogged'
  BY <1>10 DEF RunsLogged
<1> QED
  BY <1>8, <1>9, <1>11 DEF LogInv

LEMMA LogNext == ReviewsInv /\ LogInv /\ [Next]_vars => LogInv'
<1> SUFFICES ASSUME ReviewsInv, LogInv, [Next]_vars PROVE LogInv'
  OBVIOUS
<1>0. TablesOK /\ JobsOK /\ RunsOK
  BY DEF ReviewsInv
<1>i. /\ Idle \in RunRow /\ Idle.pc = "idle" /\ Absent \in Row
  BY DEF Idle, At, RunRow, Absent, Row, Statuses
<1>a. ASSUME NEW pc \in {"idle", "begun", "check", "save", "undo", "done", "refused"},
             NEW j \in Nat, NEW row \in Row
      PROVE  /\ At(pc, j, row) \in RunRow /\ At(pc, j, row).pc = pc
             /\ At(pc, j, row).job = j
  BY <1>a DEF At, RunRow
<1>s. UNCHANGED jobs => JobsMove /\ OnlyLoggedSucceed
  BY <1>0, JobsStay DEF OnlyLoggedSucceed, LogInv, JobsLogged
<1>1. ASSUME NEW r \in Reviews, NEW action \in Actions, Request(r, action)
      PROVE  LogInv'
  <2> DEFINE job == [review |-> r, action |-> action, expects |-> rows[r].expects,
                     state |-> "queued", holder |-> None, deliveries |-> 0]
  <2>1. job \in Job /\ job.review = r /\ job.state = "queued"
    BY <1>0 DEF Job, TablesOK, Row
  <2>2. jobs' = Append(jobs, job) /\ UNCHANGED <<rows, audit, runs>>
    BY <1>1 DEF Request
  <2> HIDE DEF job
  <2>3. /\ jobs' \in Seq(Job)
        /\ \A j \in DOMAIN jobs : j \in DOMAIN jobs' /\ jobs'[j] = jobs[j]
        /\ \A j \in DOMAIN jobs' : j \in DOMAIN jobs \/ jobs'[j] = job
    BY <1>0, <2>1, <2>2 DEF JobsOK
  <2>4. RowsLogged'
    BY <2>2 DEF LogInv, RowsLogged, Logged
  <2>5. RunsLogged'
    BY <1>0, <2>2, <2>3 DEF LogInv, RunsLogged, RunsOK, Logged
  <2>6. JobsLogged'
    BY <2>1, <2>2, <2>3 DEF LogInv, JobsLogged, Logged
  <2> QED
    BY <2>4, <2>5, <2>6 DEF LogInv
<1>2. ASSUME UNCHANGED <<rows, audit, jobs, runs>> PROVE LogInv'
  BY <1>2 DEF LogInv, RowsLogged, RunsLogged, JobsLogged, Logged
<1>3. ASSUME NEW w \in Workers, NEW j \in DOMAIN jobs, Begin(w, j) PROVE LogInv'
  <2>1. jobs[j].deliveries + 1 \in Nat /\ j \in Nat
    BY <1>0, JobRow DEF JobsOK
  <2>2. /\ jobs' = [jobs EXCEPT ![j] = Moved(jobs[j], "running", w, jobs[j].deliveries + 1)]
        /\ runs' = [runs EXCEPT ![w] = At("begun", j, Absent)] /\ UNCHANGED <<rows, audit>>
    BY <1>3 DEF Begin
  <2>3. JobsMove /\ DOMAIN jobs' = DOMAIN jobs
    BY <1>0, <2>1, <2>2, JobChangesHands
  <2>4. OnlyLoggedSucceed
    BY <1>0, <2>2 DEF OnlyLoggedSucceed, LogInv, JobsLogged, JobsOK, Moved
  <2> DEFINE r == At("begun", j, Absent)
  <2>5. r \in RunRow /\ r.pc = "begun" /\ r.job = j
    BY <1>a, <1>i, <2>1
  <2>6. runs' = [runs EXCEPT ![w] = r]
    BY <2>2
  <2> HIDE DEF r
  <2> QED
    BY <2>2, <2>3, <2>4, <2>5, <2>6, LogKept
<1>4. ASSUME NEW w \in Workers, ReadReview(w) PROVE LogInv'
  <2> DEFINE j == runs[w].job
             row == rows[jobs[j].review]
             to == Verdict(row, jobs[j].action)
  <2>1. j \in DOMAIN jobs /\ j \in Nat
    BY <1>0, <1>4 DEF ReadReview, RunsOK, RunRow
  <2>2. row \in Row /\ jobs[j].action \in Actions /\ jobs[j].review \in Reviews
    BY <1>0, <2>1, JobRow DEF TablesOK
  <2>3. /\ to \in {"undo", "refused", "done", "check"}
        /\ to = "undo" => jobs[j].action = "undo"
        /\ to = "done" => Repeats(row, jobs[j].action)
    BY <2>2 DEF Verdict
  <2>4. to = "done" => Logged(jobs[j].review, jobs[j].action)
    BY <2>2, <2>3 DEF Repeats, Decided, LogInv, RowsLogged
  <2>5. runs' = [runs EXCEPT ![w] = At(to, j, row)] /\ UNCHANGED <<rows, audit, jobs>>
    BY <1>4 DEF ReadReview
  <2> HIDE DEF to, row, j
  <2>6. At(to, j, row) \in RunRow /\ At(to, j, row).pc = to /\ At(to, j, row).job = j
    BY <1>a, <2>1, <2>2, <2>3
  <2> QED
    BY <1>s, <2>1, <2>3, <2>4, <2>5, <2>6, LogKept
<1>5. ASSUME NEW w \in Workers, CheckVersions(w) PROVE LogInv'
  <2>1. PICK to \in {"save", "refused"} : runs' = [runs EXCEPT ![w] = At(to, runs[w].job, runs[w].read)]
    BY <1>5 DEF CheckVersions
  <2>2. runs[w].pc = "check" /\ UNCHANGED <<rows, audit, jobs>>
    BY <1>5 DEF CheckVersions
  <2>3. runs[w] \in RunRow /\ runs[w].job \in DOMAIN jobs
    BY <1>0, <2>2 DEF RunsOK
  <2> DEFINE r == At(to, runs[w].job, runs[w].read)
  <2>4. r \in RunRow /\ r.pc = to /\ r.job = runs[w].job
    BY <2>3 DEF At, RunRow
  <2>5. runs' = [runs EXCEPT ![w] = r]
    BY <2>1
  <2> HIDE DEF r
  <2> QED
    BY <1>s, <2>2, <2>3, <2>4, <2>5, LogKept
<1>6. ASSUME NEW w \in Workers, Save(w) PROVE LogInv'
  <2>0. PICK j, r, action : j = runs[w].job /\ r = jobs[j].review /\ action = jobs[j].action
    OBVIOUS
  <2>1. runs[w].pc = "save"
    BY <1>6 DEF Save
  <2>2. j \in DOMAIN jobs /\ j \in Nat /\ action \in {"approve", "reject"}
    BY <1>0, <2>0, <2>1 DEF RunsOK, RunRow, Decisions
  <2>3. r \in Reviews
    BY <1>0, <2>0, <2>2, JobRow
  <2> DEFINE row == SavedDecision(r, action)
             entry == [did |-> action, job |-> j]
             done == At("done", j, Absent)
  <2>4. /\ action = "approve" => row.status = "applied" /\ row.decision = "approve"
        /\ action = "reject" => row.status = "rejected" /\ row.decision = "reject"
    BY DEF SavedDecision, Saved
  <2>5. /\ rows' = [rows EXCEPT ![r] = row]
        /\ audit' = [audit EXCEPT ![r] = Append(audit[r], entry)]
        /\ runs' = [runs EXCEPT ![w] = done]
        /\ UNCHANGED jobs
    BY <1>6, <2>0 DEF Save
  <2>6. entry \in Entry /\ entry.did = action
    BY <2>2 DEF Entry, Actions, Decisions
  <2>7. done.pc = "done" /\ done.job = j
    BY DEF At
  <2> HIDE DEF row, entry, done
  <2>8. rows'[r] = row /\ \A q \in Reviews : q # r => rows'[q] = rows[q]
    BY <1>0, <2>3, <2>5 DEF TablesOK
  <2> QED
    BY <2>0, <2>2, <2>3, <2>4, <2>5, <2>6, <2>7, <2>8, LogGrows
<1>7. ASSUME NEW w \in Workers, NEW new \in Reviews, Undo(w, new) PROVE LogInv'
  <2>0. PICK j, r : j = runs[w].job /\ r = jobs[j].review
    OBVIOUS
  <2>1. runs[w].pc = "undo" /\ rows[new].status = "absent"
    BY <1>7 DEF Undo
  <2>2. j \in DOMAIN jobs /\ j \in Nat /\ jobs[j].action = "undo"
    BY <1>0, <2>0, <2>1 DEF RunsOK, RunRow, LogInv, RunsLogged
  <2>3. r \in Reviews /\ r # new
    BY <1>0, <2>0, <2>1, <2>2, JobRow
  <2> DEFINE row == SavedUndone(r, runs[w].read)
             entry == [did |-> "undo", job |-> j]
             done == At("done", j, Absent)
  <2>4. row.status = "obsolete" /\ Open(None).status = "pending"
    BY DEF SavedUndone, Saved, Open
  <2>5. /\ rows' = [rows EXCEPT ![r] = row, ![new] = Open(None)]
        /\ audit' = [audit EXCEPT ![r] = Append(audit[r], entry)]
        /\ runs' = [runs EXCEPT ![w] = done]
        /\ UNCHANGED jobs
    BY <1>7, <2>0 DEF Undo
  <2>6. entry \in Entry /\ entry.did = "undo"
    BY <2>2 DEF Entry, Actions
  <2>7. done.pc = "done" /\ done.job = j
    BY DEF At
  <2> HIDE DEF row, entry, done
  <2>8. /\ rows'[r] = row
        /\ \A q \in Reviews : q # r => rows'[q] = rows[q] \/ rows'[q].status = "pending"
    BY <1>0, <2>3, <2>4, <2>5 DEF TablesOK
  <2> QED
    BY <2>0, <2>2, <2>3, <2>4, <2>5, <2>6, <2>7, <2>8, LogGrows
<1>8. ASSUME NEW w \in Workers, Finish(w) PROVE LogInv'
  <2> DEFINE j == runs[w].job
  <2>1. j \in DOMAIN jobs /\ runs[w].pc \in {"done", "refused"}
    BY <1>0, <1>8 DEF Finish, RunsOK
  <2>2. jobs[j].deliveries \in Nat
    BY <1>0, <2>1, JobRow
  <2>3. JobsMove /\ OnlyLoggedSucceed
    <3>1. CASE UNCHANGED jobs
      BY <1>s, <3>1
    <3>2. CASE jobs' # jobs
      <4>1. PICK state \in {"succeeded", "failed"} :
               /\ jobs' = [jobs EXCEPT ![j] = Moved(jobs[j], state, None, jobs[j].deliveries)]
               /\ state = "succeeded" => runs[w].pc = "done"
        BY <1>8, <3>2 DEF Finish
      <4>2. JobsMove
        BY <1>0, <2>1, <2>2, <4>1, JobChangesHands
      <4>3. /\ DOMAIN jobs' = DOMAIN jobs /\ jobs'[j].state = state
            /\ \A i \in DOMAIN jobs : i # j => jobs'[i] = jobs[i]
        BY <1>0, <2>1, <4>1 DEF JobsOK, Moved
      <4>4. state = "succeeded" => Logged(jobs[j].review, jobs[j].action)
        BY <4>1 DEF LogInv, RunsLogged
      <4> QED
        BY <4>2, <4>3, <4>4 DEF OnlyLoggedSucceed, LogInv, JobsLogged
    <3> QED
      BY <3>1, <3>2
  <2>4. runs' = [runs EXCEPT ![w] = Idle] /\ UNCHANGED <<rows, audit>>
    BY <1>8 DEF Finish
  <2> QED
    BY <1>i, <2>3, <2>4, LogKept
<1>9. ASSUME NEW w \in Workers, Redeliver(w) PROVE LogInv'
  <2> DEFINE j == runs[w].job
  <2>1. j \in DOMAIN jobs
    BY <1>0, <1>9 DEF Redeliver, RunsOK
  <2>2. jobs[j].deliveries \in Nat
    BY <1>0, <2>1, JobRow
  <2>3. /\ jobs' = [jobs EXCEPT ![j] = Moved(jobs[j], "queued", None, jobs[j].deliveries)]
        /\ UNCHANGED <<rows, audit>>
        /\ UNCHANGED runs \/ runs' = [runs EXCEPT ![w] = Idle]
    BY <1>9 DEF Redeliver
  <2>4. JobsMove
    BY <1>0, <2>1, <2>2, <2>3, JobChangesHands
  <2>5. OnlyLoggedSucceed
    BY <1>0, <2>1, <2>3 DEF OnlyLoggedSucceed, LogInv, JobsLogged, JobsOK, Moved
  <2> QED
    BY <1>i, <2>3, <2>4, <2>5, LogKept
<1> QED
  BY <1>1, <1>2, <1>3, <1>4, <1>5, <1>6, <1>7, <1>8, <1>9
     DEF Next, RunStep, EventMoves, vars

\* The log accounts for every closed review and for every job that succeeded.
THEOREM AuditAccountsFor == Spec => []AuditAccounts
<1>1. Init => LogInv
  <2>1. Open(1).status = "pending" /\ Absent.status = "absent" /\ Idle.pc = "idle"
    BY DEF Open, Absent, Idle, At
  <2> QED
    BY <2>1 DEF Init, LogInv, RowsLogged, RunsLogged, JobsLogged
<1>2. LogInv => AuditAccounts
  BY DEF LogInv, RowsLogged, JobsLogged, AuditAccounts
<1> QED
  BY <1>1, <1>2, ReviewsInit, ReviewsNext, LogNext, PTL DEF Spec

\* A closed review is decided again only by a run that read it while it was open.
THEOREM DecidedAgain == Spec => DecidedAgainOnlyUnseen
<1>1. ASSUME ReviewsInv, [Next]_vars, NEW r \in Reviews, audit[r] # <<>>,
             audit'[r] # audit[r], audit'[r][Len(audit'[r])].did \in Decisions
      PROVE  \E w \in Workers :
                /\ runs[w].pc = "save" /\ runs'[w].pc = "done"
                /\ jobs[runs[w].job].review = r
                /\ runs[w].read.status = "pending"
  <2> USE DEF ReviewsInv
  <2>1. audit[r] \in Seq(Entry)
    BY <1>1 DEF TablesOK
  <2>2. ASSUME NEW w \in Workers, NEW new \in Reviews, Undo(w, new) PROVE FALSE
    <3> DEFINE i == [did |-> "undo", job |-> runs[w].job]
               p == jobs[runs[w].job].review
    <3>u. audit' = [audit EXCEPT ![p] = Append(audit[p], i)] /\ i.did = "undo"
      BY <2>2 DEF Undo
    <3>0. PICK e, q : audit' = [audit EXCEPT ![q] = Append(audit[q], e)] /\ e.did = "undo"
      BY ONLY <3>u, Zenon
    <3>1. audit'[r] = Append(audit[r], e) /\ e.did = "undo"
      BY <1>1, <3>0 DEF TablesOK
    <3>2. audit'[r][Len(audit'[r])].did = "undo"
      BY <2>1, <3>1
    <3> QED
      BY <1>1, <3>2 DEF Decisions
  <2>3. PICK w \in Workers : Save(w)
    BY <1>1, <2>2 DEF Next, RunStep, Request, EventMoves, Begin, ReadReview, CheckVersions,
                      Finish, Redeliver, vars
  <2>4. /\ runs[w].pc = "save"
        /\ runs' = [runs EXCEPT ![w] = At("done", runs[w].job, Absent)]
        /\ audit' = [audit EXCEPT ![jobs[runs[w].job].review] =
                        Append(audit[jobs[runs[w].job].review],
                               [did |-> jobs[runs[w].job].action, job |-> runs[w].job])]
    BY <2>3 DEF Save
  <2>5. runs'[w].pc = "done" /\ runs[w].read.status = "pending"
    BY <1>1, <2>4 DEF RunsOK, At
  <2>6. jobs[runs[w].job].review = r
    BY <1>1, <2>4 DEF TablesOK
  <2> QED
    BY <2>4, <2>5, <2>6
<1>2. ReviewsInv /\ [Next]_vars =>
         [\A r \in Reviews :
            /\ audit[r] # <<>>
            /\ audit'[r] # audit[r]
            /\ audit'[r][Len(audit'[r])].did \in Decisions
            => \E w \in Workers :
                 /\ runs[w].pc = "save" /\ runs'[w].pc = "done"
                 /\ jobs[runs[w].job].review = r
                 /\ runs[w].read.status = "pending"]_vars
  BY <1>1
<1> QED
  BY <1>2, ReviewsInit, ReviewsNext, PTL DEF Spec, DecidedAgainOnlyUnseen
=============================================================================
