------------------------------ MODULE JobQueue ------------------------------
(***************************************************************************)
(* The PostgreSQL job queue: rows of the jobs and job_events tables, the   *)
(* workers that claim rows under a fenced lease (workers/runner.py), the   *)
(* upkeep pass that requeues and reaps (workers/main.py), and the API's    *)
(* enqueue and cancel.  Each action is one committed transaction or one    *)
(* step of a worker between two of them.                                   *)
(*                                                                         *)
(* Times are relative to the present: until[j] is lease_until - now(),     *)
(* avail[j] is available_at - now().  A lease is live iff until[j] > 0.    *)
(* The hosts are taken to share one clock.                                 *)
(***************************************************************************)
EXTENDS Integers, Sequences, FiniteSets

CONSTANTS
    Jobs,          \* rows, one per (owner_id, kind, idempotency_key)
    Workers,       \* worker processes; each runs one job at a time
    Reapers,       \* processes that run the upkeep pass
    Tokens,        \* lease tokens (secrets.token_urlsafe)
    NoToken,       \* lease_token IS NULL
    NoJob,         \* a worker between two run_once calls
    Handles,       \* Handles[w]: the jobs whose kind worker w registered
    MaxAttempts,   \* jobs.max_attempts
    Raises,        \* Raises[j]: JobFailure classes the handler of j raises
    Verdicts,      \* states handlers pass to JobService.finish
    TransientMax,  \* TRANSIENT_MAX_ATTEMPTS
    ParserMax,     \* PARSER_MAX_ATTEMPTS
    LeaseTime,     \* LEASE_SECONDS, in ticks
    Backoffs,      \* the backoff delays a retry may draw, in ticks
    Deadline,      \* DEFAULT_JOB_DEADLINE, in ticks
    ScanTime       \* bound: an upkeep transaction ends within this many ticks

\* JobFailure.error_class, up to what classify_failure tells apart.
FailureClasses == {"transient", "parser_error", "handler_level", "fatal"}
Endings == FailureClasses \cup {"none", "internal", "cancelled", "deadline"}

ASSUME SetsAssumption ==
    /\ NoToken \notin Tokens
    /\ NoJob \notin Jobs
    /\ Handles \in [Workers -> SUBSET Jobs]
    /\ Raises \in [Jobs -> SUBSET FailureClasses]
    /\ Verdicts \subseteq {"succeeded", "partial", "waiting_review"}

ASSUME TimesAssumption ==
    /\ LeaseTime \in Nat \ {0}
    /\ Deadline \in Nat
    /\ ScanTime \in Nat
    /\ Backoffs \subseteq Nat
    /\ Backoffs # {}

\* KIND_SPECS: the kinds that can meet a transient error carry the network
\* budget, and every budget covers a parser retry.
ASSUME BudgetAssumption ==
    /\ MaxAttempts \in [Jobs -> Nat \ {0}]
    /\ TransientMax \in Nat
    /\ ParserMax \in Nat
    /\ \A j \in Jobs :
          /\ "transient" \in Raises[j] => TransientMax <= MaxAttempts[j]
          /\ "parser_error" \in Raises[j] => ParserMax <= MaxAttempts[j]

VARIABLES
    state,      \* jobs.state; "absent" before the row is inserted
    attempt,    \* jobs.attempt
    token,      \* jobs.lease_token
    until,      \* jobs.lease_until, relative; 0 without a lease
    avail,      \* jobs.available_at, relative, floored at 0
    cancel,     \* jobs.cancel_requested_at IS NOT NULL
    events,     \* job_events of the job, in seq order
    pc,         \* worker: "idle", "handling" or "settling"
    run,        \* worker: the JobRecord its claim returned
    ends,       \* worker: how the handler ended, while settling
    left,       \* worker: time to the deadline of its run
    scan        \* reaper: the rows expired_running_jobs returned, and their age

rowVars == <<state, attempt, token, until, avail, cancel, events>>
workerVars == <<pc, run, ends, left>>
vars == <<rowVars, workerVars, scan>>

-----------------------------------------------------------------------------
TerminalStates == {"succeeded", "partial", "failed", "cancelled"}
Cancellable == {"queued", "running", "retry_wait", "waiting_review"}
JobStates == {"absent"} \cup TerminalStates \cup Cancellable

TerminalEvents == {"completed", "failed", "cancelled", "review_required"}
\* "retrying" is the event of type failed whose data says retry: true.
EventTypes == {"queued", "retrying"} \cup TerminalEvents

TerminalEvent ==
    [succeeded |-> "completed", partial |-> "completed", failed |-> "failed",
     cancelled |-> "cancelled", waiting_review |-> "review_required"]

AllowedTransitions ==
    [queued         |-> {"running", "cancelled"},
     running        |-> {"succeeded", "partial", "failed", "waiting_review",
                         "retry_wait", "cancelled"},
     retry_wait     |-> {"queued", "cancelled"},
     waiting_review |-> {"running", "cancelled"}]

\* _check_transition
Allowed(s, target) ==
    s \in DOMAIN AllowedTransitions /\ target \in AllowedTransitions[s]

\* The attempt at which a retryable class stops being retried.
RetryLimit == [transient |-> TransientMax, parser_error |-> ParserMax]

\* Mutant: one retry too many (<= for <).
ClassifyOffByOne(class, n) ==
    IF class = "handler_level" THEN "none"
    ELSE IF class \in DOMAIN RetryLimit /\ n <= RetryLimit[class]
         THEN "retry_wait" ELSE "failed"

\* classify_failure: the next state, or "none" for the classes a handler
\* owns.  The attempt is the one of the caller's snapshot.
Classify(class, n) ==
    IF class = "handler_level" THEN "none"
    ELSE IF class \in DOMAIN RetryLimit /\ n < RetryLimit[class]
         THEN "retry_wait" ELSE "failed"

NoRun == [job |-> NoJob, token |-> NoToken, attempt |-> 0]

NoScan == [age |-> 0, found |-> {}]

\* WHERE lease_token = :token AND lease_until > now()
Fenced(j, t) == t # NoToken /\ token[j] = t /\ until[j] > 0

\* A random token differs from every token still remembered anywhere.
FreshTokens ==
    {t \in Tokens : /\ \A j \in Jobs : token[j] # t
                    /\ \A w \in Workers : run[w].token # t}

-----------------------------------------------------------------------------
Init ==
    /\ state = [j \in Jobs |-> "absent"]
    /\ attempt = [j \in Jobs |-> 0]
    /\ token = [j \in Jobs |-> NoToken]
    /\ until = [j \in Jobs |-> 0]
    /\ avail = [j \in Jobs |-> 0]
    /\ cancel = [j \in Jobs |-> FALSE]
    /\ events = [j \in Jobs |-> << >>]
    /\ pc = [w \in Workers |-> "idle"]
    /\ run = [w \in Workers |-> NoRun]
    /\ ends = [w \in Workers |-> "none"]
    /\ left = [w \in Workers |-> 0]
    /\ scan = [r \in Reapers |-> NoScan]

\* JobService.enqueue.  On a key conflict the existing row is returned and
\* nothing changes, so only the inserting call is a step.
Enqueue(j) ==
    /\ state[j] = "absent"
    /\ state' = [state EXCEPT ![j] = "queued"]
    /\ events' = [events EXCEPT ![j] = Append(@, "queued")]
    /\ UNCHANGED <<attempt, token, until, avail, cancel, workerVars, scan>>

\* POST /jobs/{id}/cancel: only the request is recorded; first write wins.
RequestCancel(j) ==
    /\ state[j] \in Cancellable
    /\ ~cancel[j]
    /\ cancel' = [cancel EXCEPT ![j] = TRUE]
    /\ UNCHANGED <<state, attempt, token, until, avail, events, workerVars, scan>>

\* Mutant: the claim returns the row of its SELECT, not of its UPDATE.
ClaimStale(w, j, t) ==
    /\ pc[w] = "idle" /\ j \in Handles[w]
    /\ state[j] = "queued" /\ avail[j] = 0 /\ t \in FreshTokens
    /\ state' = [state EXCEPT ![j] = "running"]
    /\ attempt' = [attempt EXCEPT ![j] = @ + 1]
    /\ token' = [token EXCEPT ![j] = t]
    /\ until' = [until EXCEPT ![j] = LeaseTime]
    /\ pc' = [pc EXCEPT ![w] = "handling"]
    /\ run' = [run EXCEPT ![w] = [job |-> j, token |-> t, attempt |-> attempt[j]]]
    /\ left' = [left EXCEPT ![w] = Deadline]
    /\ UNCHANGED <<avail, cancel, events, ends, scan>>

\* run_once: FOR UPDATE SKIP LOCKED may pass over older rows another
\* transaction has locked, so any due row of the worker's kinds can be taken.
Claim(w, j, t) ==
    /\ pc[w] = "idle"
    /\ j \in Handles[w]
    /\ state[j] = "queued"
    /\ avail[j] = 0
    /\ t \in FreshTokens
    /\ state' = [state EXCEPT ![j] = "running"]
    /\ attempt' = [attempt EXCEPT ![j] = @ + 1]
    /\ token' = [token EXCEPT ![j] = t]
    /\ until' = [until EXCEPT ![j] = LeaseTime]
    /\ pc' = [pc EXCEPT ![w] = "handling"]
    /\ run' = [run EXCEPT ![w] =
                  [job |-> j, token |-> t, attempt |-> attempt[j] + 1]]
    /\ left' = [left EXCEPT ![w] = Deadline]
    /\ UNCHANGED <<avail, cancel, events, ends, scan>>

-----------------------------------------------------------------------------
(* A worker that holds, or once held, the lease of a job.                   *)

Rest(w) ==
    /\ pc' = [pc EXCEPT ![w] = "idle"]
    /\ run' = [run EXCEPT ![w] = NoRun]
    /\ ends' = [ends EXCEPT ![w] = "none"]
    /\ left' = [left EXCEPT ![w] = 0]

\* _keep_lease: the fenced heartbeat extends the lease by a full window ...
Heartbeat(w) ==
    /\ pc[w] = "handling"
    /\ Fenced(run[w].job, run[w].token)
    /\ until' = [until EXCEPT ![run[w].job] = LeaseTime]
    /\ UNCHANGED <<state, attempt, token, avail, cancel, events, workerVars, scan>>

\* ... or finds the lease lost, cancels the handler and leaves the row alone.
HeartbeatLost(w) ==
    /\ pc[w] = "handling"
    /\ ~Fenced(run[w].job, run[w].token)
    /\ Rest(w)
    /\ UNCHANGED <<rowVars, scan>>

StopHandler(w, how) ==
    /\ pc' = [pc EXCEPT ![w] = "settling"]
    /\ ends' = [ends EXCEPT ![w] = how]
    /\ UNCHANGED <<run, left>>

\* RunContext.boundary between two steps of the handler.
ObserveCancel(w) ==
    /\ pc[w] = "handling"
    /\ cancel[run[w].job]
    /\ StopHandler(w, "cancelled")
    /\ UNCHANGED <<rowVars, scan>>

\* asyncio.timeout, or boundary() past the deadline.
DeadlineFires(w) ==
    /\ pc[w] = "handling"
    /\ left[w] = 0
    /\ StopHandler(w, "deadline")
    /\ UNCHANGED <<rowVars, scan>>

\* The handler raises JobFailure, or anything unclassified.
Raise(w, class) ==
    /\ pc[w] = "handling"
    /\ class \in Raises[run[w].job] \cup {"internal"}
    /\ StopHandler(w, class)
    /\ UNCHANGED <<rowVars, scan>>

\* JobService.finish's transaction: release the lease, announce the state.
Release(j, s) ==
    /\ state' = [state EXCEPT ![j] = s]
    /\ token' = [token EXCEPT ![j] = NoToken]
    /\ until' = [until EXCEPT ![j] = 0]
    /\ events' = [events EXCEPT ![j] = Append(@, TerminalEvent[s])]
    /\ UNCHANGED <<attempt, avail, cancel>>

\* The handler's own finish.  The caller's snapshot says "running", so only
\* the fence can refuse; the acknowledgement of the commit may be lost, and
\* then the handler goes on to raise.
Finish(w, s) ==
    /\ pc[w] = "handling"
    /\ s \in Verdicts
    /\ \/ /\ Fenced(run[w].job, run[w].token)
          /\ Release(run[w].job, s)
          /\ Rest(w) \/ UNCHANGED workerVars
       \/ /\ ~Fenced(run[w].job, run[w].token)
          /\ Rest(w)
          /\ UNCHANGED rowVars
    /\ UNCHANGED scan

\* Mutant: the fresh row's own token fences the write, without comparing it
\* with the run's.
FinalizableByAnyone(w, s) ==
    LET j == run[w].job IN
    state[j] \notin TerminalStates /\ Allowed(state[j], s) /\ Fenced(j, token[j])

\* _finalize: read the row afresh and terminalize it only if this run's
\* token is still on it; finish(fresh) is fenced with the row's token.
Finalizable(w, s) ==
    LET j == run[w].job IN
    /\ state[j] \notin TerminalStates
    /\ token[j] = run[w].token
    /\ Allowed(state[j], s)
    /\ Fenced(j, token[j])

Finalize(w, s) ==
    \/ Finalizable(w, s) /\ Release(run[w].job, s)
    \/ ~Finalizable(w, s) /\ UNCHANGED rowVars

\* Mutant: the retry keeps the lease token.
RetryKeepsToken(w) ==
    LET j == run[w].job IN
    /\ state' = [state EXCEPT ![j] = "retry_wait"]
    /\ until' = [until EXCEPT ![j] = 0]
    /\ \E d \in Backoffs : avail' = [avail EXCEPT ![j] = d]
    /\ events' = [events EXCEPT ![j] = Append(@, "retrying")]
    /\ UNCHANGED <<attempt, token, cancel>>

\* Mutant: the retry announces a final failure.
RetryAnnouncesFailure(w) ==
    LET j == run[w].job IN
    /\ state' = [state EXCEPT ![j] = "retry_wait"]
    /\ token' = [token EXCEPT ![j] = NoToken]
    /\ until' = [until EXCEPT ![j] = 0]
    /\ \E d \in Backoffs : avail' = [avail EXCEPT ![j] = d]
    /\ events' = [events EXCEPT ![j] = Append(@, "failed")]
    /\ UNCHANGED <<attempt, cancel>>

\* JobService.fail's retry: back to the queue after a delay.
RetryLater(w) ==
    LET j == run[w].job IN
    /\ state' = [state EXCEPT ![j] = "retry_wait"]
    /\ token' = [token EXCEPT ![j] = NoToken]
    /\ until' = [until EXCEPT ![j] = 0]
    /\ \E d \in Backoffs : avail' = [avail EXCEPT ![j] = d]
    /\ events' = [events EXCEPT ![j] = Append(@, "retrying")]
    /\ UNCHANGED <<attempt, cancel>>

\* _service_fail: classify with the claim's attempt, write under the fence,
\* swallow LeaseLost; any other exception, that of a handler-level class or one
\* of the database, fails the run.
ServiceFail(w) ==
    LET next == Classify(ends[w], run[w].attempt)
        held == Fenced(run[w].job, run[w].token)
    IN  \/ Finalize(w, "failed")
        \/ next # "none" /\ ~held /\ UNCHANGED rowVars
        \/ next = "failed" /\ held /\ Release(run[w].job, "failed")
        \/ next = "retry_wait" /\ held /\ RetryLater(w)

\* The except branches of _execute.
Settle(w) ==
    /\ pc[w] = "settling"
    /\ \/ ends[w] = "cancelled" /\ Finalize(w, "cancelled")
       \/ ends[w] \in {"deadline", "internal"} /\ Finalize(w, "failed")
       \/ ends[w] \in FailureClasses /\ ServiceFail(w)
    /\ Rest(w)
    /\ UNCHANGED scan

\* The process dies, is shut down, loses its database, or the handler
\* returns without finishing: the row keeps its lease until it is reaped.
Crash(w) ==
    /\ pc[w] # "idle"
    /\ Rest(w)
    /\ UNCHANGED <<rowVars, scan>>

-----------------------------------------------------------------------------
(* Upkeep: requeue_due and reap_expired in one transaction.                 *)

Due(j) == state[j] = "retry_wait" /\ avail[j] = 0
\* Mutant: the reaper selects only the rows it could retry.
ExpiredRetryable(j) ==
    state[j] = "running" /\ until[j] <= 0 /\ attempt[j] < MaxAttempts[j]

Expired(j) == state[j] = "running" /\ until[j] <= 0

\* requeue_due, then the SELECT of expired_running_jobs.
Upkeep(r) ==
    /\ scan[r] = NoScan
    /\ \E j \in Jobs : Due(j) \/ Expired(j)
    /\ state' = [j \in Jobs |-> IF Due(j) THEN "queued" ELSE state[j]]
    /\ scan' = [scan EXCEPT ![r] =
                  [age |-> 0, found |-> {<<j, attempt[j]>> :
                                            j \in {i \in Jobs : Expired(i)}}]]
    /\ UNCHANGED <<attempt, token, until, avail, cancel, events, workerVars>>

\* Mutants: the UPDATE asks for the state only, or for the id only.
ReapableByState(r, j) == state[j] = "running"
ReapableById(r, j) == j \in Jobs

\* expire_update: the row must still be running with a lease that had
\* already expired when the scan began, age ticks ago.
Reapable(r, j) == state[j] = "running" /\ until[j] <= -scan[r].age

Drop(r, f) ==
    LET rest == scan[r].found \ {f} IN
    scan' = [scan EXCEPT ![r] = IF rest = {} THEN NoScan
                                ELSE [age |-> scan[r].age, found |-> rest]]

\* Mutant: the budget is compared with > instead of >=.
ExpireOffByOne(j, n) ==
    /\ token' = [token EXCEPT ![j] = NoToken]
    /\ until' = [until EXCEPT ![j] = 0]
    /\ \/ n > MaxAttempts[j] /\ state' = [state EXCEPT ![j] = "failed"]
          /\ UNCHANGED avail
       \/ n <= MaxAttempts[j] /\ state' = [state EXCEPT ![j] = "retry_wait"]
          /\ \E d \in Backoffs : avail' = [avail EXCEPT ![j] = d]

\* The columns the UPDATE writes: failed with the budget used up, or back
\* after a delay.  No job_event is appended.
Expire(j, n) ==
    /\ token' = [token EXCEPT ![j] = NoToken]
    /\ until' = [until EXCEPT ![j] = 0]
    /\ \/ /\ n >= MaxAttempts[j]
          /\ state' = [state EXCEPT ![j] = "failed"]
          /\ UNCHANGED avail
       \/ /\ n < MaxAttempts[j]
          /\ state' = [state EXCEPT ![j] = "retry_wait"]
          /\ \E d \in Backoffs : avail' = [avail EXCEPT ![j] = d]

\* One round of reap_expired's loop, with the attempt n the scan read.
Reap(r, j, n) ==
    /\ <<j, n>> \in scan[r].found
    /\ Drop(r, <<j, n>>)
    /\ \/ Reapable(r, j) /\ Expire(j, n)
       \/ ~Reapable(r, j) /\ UNCHANGED <<state, token, until, avail>>
    /\ UNCHANGED <<attempt, cancel, events, workerVars>>

\* The upkeep transaction fails before the remaining rows are written.
UpkeepFails(r) ==
    /\ scan[r].found # {}
    /\ scan' = [scan EXCEPT ![r] = NoScan]
    /\ UNCHANGED <<rowVars, workerVars>>

-----------------------------------------------------------------------------
\* One tick of the clock.  A lease older than any scan can be is not aged
\* further: it is expired for every predicate above.
Tick ==
    /\ \A r \in Reapers : scan[r].found # {} => scan[r].age < ScanTime
    /\ until' = [j \in Jobs |-> IF state[j] = "running" /\ until[j] > -ScanTime
                                THEN until[j] - 1 ELSE until[j]]
    /\ avail' = [j \in Jobs |-> IF avail[j] > 0 THEN avail[j] - 1 ELSE 0]
    /\ left' = [w \in Workers |-> IF left[w] > 0 THEN left[w] - 1 ELSE 0]
    /\ scan' = [r \in Reapers |->
                  IF scan[r].found # {}
                  THEN [age |-> scan[r].age + 1, found |-> scan[r].found]
                  ELSE scan[r]]
    /\ UNCHANGED <<state, attempt, token, cancel, events, pc, run, ends>>

WorkerStep(w) ==
    \/ \E j \in Jobs, t \in Tokens : Claim(w, j, t)
    \/ Heartbeat(w)
    \/ HeartbeatLost(w)
    \/ ObserveCancel(w)
    \/ DeadlineFires(w)
    \/ \E class \in FailureClasses \cup {"internal"} : Raise(w, class)
    \/ \E s \in Verdicts : Finish(w, s)
    \/ Settle(w)
    \/ Crash(w)

UpkeepStep(r) ==
    \/ Upkeep(r)
    \/ \E f \in scan[r].found : Reap(r, f[1], f[2])
    \/ UpkeepFails(r)

Next ==
    \/ \E j \in Jobs : Enqueue(j) \/ RequestCancel(j)
    \/ \E w \in Workers : WorkerStep(w)
    \/ \E r \in Reapers : UpkeepStep(r)
    \/ Tick

Spec == Init /\ [][Next]_vars

\* Workers poll, the clock runs, the supervisor's deadline and its except
\* branches run, and the upkeep loop runs and eventually writes.  Nothing is
\* assumed of handlers, heartbeats, users or crashes.
Fairness ==
    /\ WF_vars(Tick)
    /\ \A w \in Workers :
          /\ WF_vars(\E j \in Jobs, t \in Tokens : Claim(w, j, t))
          /\ WF_vars(DeadlineFires(w))
          /\ WF_vars(Settle(w))
    /\ \A r \in Reapers :
          /\ WF_vars(Upkeep(r))
          /\ \A j \in Jobs : SF_vars(\E f \in scan[r].found : f[1] = j /\ Reap(r, j, f[2]))

FairSpec == Spec /\ Fairness

-----------------------------------------------------------------------------
(* Properties.                                                              *)

\* Every variable has the type its column or field has.
TypeOK ==
    /\ state \in [Jobs -> JobStates]
    /\ attempt \in [Jobs -> Nat]
    /\ token \in [Jobs -> Tokens \cup {NoToken}]
    /\ until \in [Jobs -> Int]
    /\ avail \in [Jobs -> Nat]
    /\ cancel \in [Jobs -> BOOLEAN]
    /\ events \in [Jobs -> Seq(EventTypes)]
    /\ pc \in [Workers -> {"idle", "handling", "settling"}]
    /\ run \in [Workers -> [job : Jobs \cup {NoJob},
                            token : Tokens \cup {NoToken}, attempt : Nat]]
    /\ ends \in [Workers -> Endings]
    /\ left \in [Workers -> Nat]
    /\ scan \in [Reapers -> [age : Nat, found : SUBSET (Jobs \X Nat)]]

Active(w) == pc[w] # "idle"
Holds(w, j) == Active(w) /\ run[w].job = j /\ run[w].token = token[j]

\* Exactly the running rows carry a lease, no two rows carry the same one,
\* and however many workers still believe they run a job, at most one of
\* them has the token on the row: the one a fenced write will accept.
OneOwner ==
    /\ \A j \in Jobs : token[j] # NoToken <=> state[j] = "running"
    /\ \A i, j \in Jobs : i # j /\ token[i] = token[j] => token[i] = NoToken
    /\ \A v, w \in Workers, j \in Jobs : Holds(v, j) /\ Holds(w, j) => v = w

\* The attempt a worker classifies its failure with was read at the claim;
\* while its token is on the row it is still the row's attempt.
OwnerSnapshotFresh ==
    \A w \in Workers, j \in Jobs : Holds(w, j) => run[w].attempt = attempt[j]

\* The attempt reap_expired decides with was read by its SELECT; whenever
\* its UPDATE would still match the row, it is still the row's attempt.
ScanFresh ==
    \A r \in Reapers : \A f \in scan[r].found :
        Reapable(r, f[1]) => attempt[f[1]] = f[2]

\* An attempt that somebody read earlier and still decides with is the row's:
\* a worker's, read at the claim, and a reaper's, read by its SELECT.
SnapshotsFresh == OwnerSnapshotFresh /\ ScanFresh

\* Two counters with different limits (classify_failure's and the row's
\* max_attempts) and two retry paths never let a job start more often than
\* max_attempts, nor leave a job waiting with no attempt left.
AttemptBudget ==
    \A j \in Jobs :
        /\ attempt[j] <= MaxAttempts[j]
        /\ state[j] \in {"queued", "retry_wait"} => attempt[j] < MaxAttempts[j]

LastEvent(j) == events[j][Len(events[j])]

\* A job whose handler or supervisor closed it says so exactly once, as the
\* last event of its stream, with the event of its final state; an open job
\* has announced nothing final.  (A reaped failure announces nothing.)
OneVerdict ==
    \A j \in Jobs :
        /\ \A i \in 1 .. Len(events[j]) :
              events[j][i] \in TerminalEvents =>
                  /\ i = Len(events[j])
                  /\ state[j] \in TerminalStates \cup {"waiting_review"}
                  /\ events[j][i] = TerminalEvent[state[j]]
        /\ state[j] \in {"succeeded", "partial", "cancelled", "waiting_review"} =>
              LastEvent(j) = TerminalEvent[state[j]]

\* A terminal row never changes again: not by a late worker, not by a reaper
\* acting on a scan made before the row was finished.
TerminalForever ==
    [][\A j \in Jobs : state[j] \in TerminalStates =>
          /\ state'[j] = state[j]
          /\ token'[j] = token[j]
          /\ attempt'[j] = attempt[j]
          /\ events'[j] = events[j]]_vars

\* A worker that ends its run moves the row only if the row carries the
\* token of that very run and the lease is live: the late end of an old run
\* never fails, cancels or finishes the run of the new owner.
StaleWorkerHarmless ==
    [][\A w \in Workers :
          LET j == run[w].job IN
          Active(w) /\ pc'[w] # pc[w] /\ j \in Jobs =>
              \/ state'[j] = state[j] /\ token'[j] = token[j]
              \/ token[j] = run[w].token /\ until[j] > 0]_vars

\* A step that only worker w can have taken: no request, no upkeep pass and no
\* other worker has moved.
OnlyMoves(w) ==
    /\ UNCHANGED <<cancel, scan>>
    /\ \A v \in Workers \ {w} : pc'[v] = pc[v] /\ run'[v] = run[v]

\* As long as its lease is live a running row is closed, given back or handed
\* to another run only by a step of the run that holds its token: not by a
\* reaper whose scan heartbeats have since overtaken, not by another worker.
LiveLeaseNotReaped ==
    [][\A j \in Jobs :
          /\ state[j] = "running" /\ until[j] > 0
          /\ <<state'[j], token'[j]>> # <<state[j], token[j]>>
          => \E w \in Workers : Holds(w, j) /\ OnlyMoves(w)]_vars

\* Every queued job is settled: under any number of crashes, hangs, lost
\* leases and failing upkeep passes it ends in a terminal state or waits for
\* a reviewer.
EventuallySettled ==
    \A j \in Jobs :
        state[j] = "queued" ~> state[j] \in TerminalStates \cup {"waiting_review"}

-----------------------------------------------------------------------------
(* The refinement: leases, clocks and errors hidden.                        *)

Phase(s) ==
    IF s \in {"absent", "queued", "retry_wait"} THEN "waiting"
    ELSE IF s = "running" THEN "owned" ELSE "closed"

Ownership == INSTANCE JobOwnership WITH
    Budget <- MaxAttempts,
    phase <- [j \in Jobs |-> Phase(state[j])],
    claims <- attempt

OwnershipSpec == Ownership!Spec
=============================================================================
