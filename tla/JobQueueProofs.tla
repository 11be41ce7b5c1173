--------------------------- MODULE JobQueueProofs ---------------------------
(***************************************************************************)
(* Proofs about JobQueue for every set of jobs, workers, reapers and       *)
(* tokens, and every lease, backoff, deadline and budget that satisfies    *)
(* the assumptions of that module.                                         *)
(***************************************************************************)
EXTENDS JobQueue, TLAPS

-----------------------------------------------------------------------------
(* Type correctness.                                                        *)

\* A worker between two runs remembers nothing; one in a run remembers a job
\* and a real token.  (A strengthening of TypeOK that its induction needs:
\* the guards of the actions look the job of the run up in the table.)
RunShape ==
    \A w \in Workers :
        /\ ~Active(w) => run[w] = NoRun
        /\ Active(w) => run[w].job \in Jobs /\ run[w].token \in Tokens

\* The initial state is well typed and all workers rest.
LEMMA InitType == Init => TypeOK /\ RunShape
  BY SetsAssumption
  DEF Init, TypeOK, RunShape, Active, NoRun, Endings, NoScan, JobStates, Cancellable,
      TerminalStates

\* Resting is well typed.
LEMMA RestType ==
    ASSUME TypeOK, RunShape, NEW w \in Workers, Rest(w)
    PROVE  /\ pc' \in [Workers -> {"idle", "handling", "settling"}]
           /\ run' \in [Workers -> [job : Jobs \cup {NoJob},
                                 token : Tokens \cup {NoToken}, attempt : Nat]]
           /\ ends' \in [Workers -> Endings]
           /\ left' \in [Workers -> Nat]
           /\ RunShape'
  BY DEF Rest, TypeOK, RunShape, NoRun, Endings, Active

\* Releasing a row with a reported state is well typed.
LEMMA ReleaseType ==
    ASSUME TypeOK, NEW j \in Jobs,
           NEW s \in TerminalStates \cup {"waiting_review"}, Release(j, s)
    PROVE  /\ state' \in [Jobs -> JobStates]
           /\ attempt' \in [Jobs -> Nat]
           /\ token' \in [Jobs -> Tokens \cup {NoToken}]
           /\ until' \in [Jobs -> Int]
           /\ avail' \in [Jobs -> Nat]
           /\ cancel' \in [Jobs -> BOOLEAN]
           /\ events' \in [Jobs -> Seq(EventTypes)]
  <1>1. TerminalEvent[s] \in EventTypes
    BY DEF TerminalEvent, EventTypes, TerminalEvents, TerminalStates
  <1>2. Append(events[j], TerminalEvent[s]) \in Seq(EventTypes)
    BY <1>1 DEF TypeOK
  <1> QED
    BY <1>2 DEF Release, TypeOK, JobStates, TerminalStates, Cancellable

\* Whatever the end of a run writes, it writes well-typed columns.
LEMMA SettleType ==
    ASSUME TypeOK, RunShape, NEW w \in Workers, Settle(w)
    PROVE  TypeOK' /\ RunShape'
  <1> DEFINE j == run[w].job
  <1>1. j \in Jobs /\ Active(w)
    BY DEF Settle, RunShape, Active
  <1>2. ASSUME NEW s \in {"cancelled", "failed"}, Finalize(w, s)
        PROVE  rowVars' = rowVars \/ Release(j, s)
    BY <1>2 DEF Finalize, rowVars
  <1>3. \/ rowVars' = rowVars
        \/ \E s \in {"cancelled", "failed"} : Release(j, s)
        \/ RetryLater(w)
    BY <1>2 DEF Settle, ServiceFail, rowVars
  <1>4. Rest(w) /\ scan' = scan
    BY DEF Settle
  <1>5. CASE rowVars' = rowVars
    BY <1>4, <1>5, RestType DEF rowVars, TypeOK
  <1>6. CASE \E s \in {"cancelled", "failed"} : Release(j, s)
    <2>1. PICK s \in {"cancelled", "failed"} : Release(j, s)
      BY <1>6
    <2>2. s \in TerminalStates \cup {"waiting_review"}
      BY DEF TerminalStates
    <2> HIDE DEF j
    <2> QED
      BY <1>1, <1>4, <2>1, <2>2, ReleaseType, RestType DEF TypeOK
  <1>7. CASE RetryLater(w)
    <2>1. Append(events[j], "retrying") \in Seq(EventTypes)
      BY <1>1 DEF TypeOK, EventTypes
    <2>2. /\ state' \in [Jobs -> JobStates]
          /\ token' \in [Jobs -> Tokens \cup {NoToken}]
          /\ until' \in [Jobs -> Int]
          /\ avail' \in [Jobs -> Nat]
          /\ events' \in [Jobs -> Seq(EventTypes)]
          /\ UNCHANGED <<attempt, cancel>>
      BY <1>1, <1>7, <2>1, TimesAssumption
      DEF RetryLater, TypeOK, JobStates, Cancellable
    <2> QED
      BY <1>4, <2>2, RestType DEF TypeOK
  <1> QED
    BY <1>3, <1>5, <1>6, <1>7

\* Every step keeps the types.
LEMMA StepType == TypeOK /\ RunShape /\ [Next]_vars => TypeOK' /\ RunShape'
  <1> SUFFICES ASSUME TypeOK, RunShape, [Next]_vars
               PROVE  TypeOK' /\ RunShape'
    OBVIOUS
  <1>1. ASSUME NEW j \in Jobs, Enqueue(j)
        PROVE  TypeOK' /\ RunShape'
    <2>1. Append(events[j], "queued") \in Seq(EventTypes)
      BY DEF TypeOK, EventTypes
    <2> QED
      BY <1>1, <2>1
      DEF Enqueue, TypeOK, RunShape, Active, workerVars, JobStates, Cancellable
  <1>2. ASSUME NEW j \in Jobs, RequestCancel(j)
        PROVE  TypeOK' /\ RunShape'
    BY <1>2 DEF RequestCancel, TypeOK, RunShape, Active, workerVars
  <1>3. ASSUME NEW w \in Workers, NEW j \in Jobs, NEW t \in Tokens, Claim(w, j, t)
        PROVE  TypeOK' /\ RunShape'
    BY <1>3, TimesAssumption
    DEF Claim, TypeOK, RunShape, Active, JobStates, Cancellable
  <1>4. ASSUME NEW w \in Workers, Heartbeat(w)
        PROVE  TypeOK' /\ RunShape'
    BY <1>4, TimesAssumption
    DEF Heartbeat, TypeOK, RunShape, Active, workerVars
  <1>5. ASSUME NEW w \in Workers, HeartbeatLost(w) \/ Crash(w)
        PROVE  TypeOK' /\ RunShape'
    BY <1>5, RestType DEF HeartbeatLost, Crash, rowVars, TypeOK
  <1>6. ASSUME NEW w \in Workers,
               \/ ObserveCancel(w)
               \/ DeadlineFires(w)
               \/ \E class \in FailureClasses \cup {"internal"} : Raise(w, class)
        PROVE  TypeOK' /\ RunShape'
    <2>1. PICK how \in Endings : StopHandler(w, how) /\ UNCHANGED <<rowVars, scan>>
      BY <1>6 DEF ObserveCancel, DeadlineFires, Raise, Endings
    <2>2. Active(w)
      BY <1>6 DEF ObserveCancel, DeadlineFires, Raise, Active
    <2> QED
      BY <2>1, <2>2 DEF StopHandler, TypeOK, RunShape, Active, rowVars
  <1>7. ASSUME NEW w \in Workers, NEW s \in Verdicts, Finish(w, s)
        PROVE  TypeOK' /\ RunShape'
    <2> DEFINE j == run[w].job
    <2>1. j \in Jobs /\ s \in TerminalStates \cup {"waiting_review"}
      BY <1>7, SetsAssumption DEF Finish, RunShape, Active, TerminalStates
    <2>2. \/ Release(j, s) /\ (Rest(w) \/ UNCHANGED workerVars)
          \/ Rest(w) /\ UNCHANGED rowVars
      BY <1>7 DEF Finish
    <2>3. scan' = scan
      BY <1>7 DEF Finish
    <2>4. CASE Release(j, s)
      <3> HIDE DEF j
      <3> QED
        BY <2>1, <2>2, <2>3, <2>4, ReleaseType, RestType
        DEF TypeOK, RunShape, Active, workerVars, rowVars
    <2>5. CASE Rest(w) /\ UNCHANGED rowVars
      BY <2>3, <2>5, RestType DEF TypeOK, rowVars
    <2> QED
      BY <2>2, <2>4, <2>5
  <1>8. ASSUME NEW w \in Workers, Settle(w)
        PROVE  TypeOK' /\ RunShape'
    BY <1>8, SettleType
  <1>9. ASSUME NEW r \in Reapers, Upkeep(r)
        PROVE  TypeOK' /\ RunShape'
    BY <1>9
    DEF Upkeep, TypeOK, RunShape, Active, workerVars, JobStates, Cancellable, Expired
  <1>10. ASSUME NEW r \in Reapers, NEW j \in Jobs, NEW n \in Nat, Reap(r, j, n)
         PROVE  TypeOK' /\ RunShape'
    <2>1. scan' \in [Reapers -> [age : Nat, found : SUBSET (Jobs \X Nat)]]
      BY <1>10 DEF Reap, Drop, NoScan, TypeOK
    <2>2. /\ state' \in [Jobs -> JobStates]
          /\ token' \in [Jobs -> Tokens \cup {NoToken}]
          /\ until' \in [Jobs -> Int]
          /\ avail' \in [Jobs -> Nat]
      <3>1. CASE Expire(j, n)
        <4>1. \A d \in Backoffs : d \in Nat
          BY TimesAssumption
        <4>2. avail' \in [Jobs -> Nat]
          BY <3>1, <4>1 DEF Expire, TypeOK
        <4>3. PICK s \in {"failed", "retry_wait"} : state' = [state EXCEPT ![j] = s]
          BY <3>1 DEF Expire
        <4>4. state' \in [Jobs -> JobStates]
          BY <4>3 DEF TypeOK, JobStates, Cancellable, TerminalStates
        <4>5. token' = [token EXCEPT ![j] = NoToken] /\ until' = [until EXCEPT ![j] = 0]
          BY <3>1 DEF Expire
        <4> QED
          BY <4>2, <4>4, <4>5 DEF TypeOK
      <3>2. CASE UNCHANGED <<state, token, until, avail>>
        BY <3>2 DEF TypeOK
      <3> QED
        BY <1>10, <3>1, <3>2 DEF Reap
    <2>3. UNCHANGED <<attempt, cancel, events, workerVars>>
      BY <1>10 DEF Reap
    <2> QED
      BY <2>1, <2>2, <2>3 DEF TypeOK, RunShape, Active, workerVars
  <1>11. ASSUME NEW r \in Reapers, UpkeepFails(r)
         PROVE  TypeOK' /\ RunShape'
    BY <1>11 DEF UpkeepFails, TypeOK, RunShape, Active, rowVars, workerVars, NoScan
  <1>12. CASE Tick
    BY <1>12 DEF Tick, TypeOK, RunShape, Active
  <1>13. CASE UNCHANGED vars
    BY <1>13 DEF vars, rowVars, workerVars, TypeOK, RunShape, Active
  <1>14. ASSUME NEW r \in Reapers, NEW f \in scan[r].found, Reap(r, f[1], f[2])
         PROVE  TypeOK' /\ RunShape'
    <2>1. f[1] \in Jobs /\ f[2] \in Nat
      BY DEF TypeOK
    <2> QED
      BY <1>10, <1>14, <2>1
  <1> QED
    BY <1>1, <1>2, <1>3, <1>4, <1>5, <1>6, <1>7, <1>8, <1>9, <1>11, <1>12,
       <1>13, <1>14
    DEF Next, WorkerStep, UpkeepStep

\* THEOREM.  In every reachable state of the queue every column and every
\* worker field has its type.
THEOREM TypeCorrect == Spec => [](TypeOK /\ RunShape)
  BY InitType, StepType, PTL DEF Spec

-----------------------------------------------------------------------------
(* Fencing.                                                                 *)

\* Runs in progress were given different tokens, and a run whose token is on
\* a row is a run of that row, at the row's attempt.  OneOwner alone is not
\* inductive: nothing in it keeps a worker that lost its lease from sharing
\* the token of the next owner.
RunsDistinct ==
    \A v, w \in Workers :
        Active(v) /\ Active(w) /\ v # w => run[v].token # run[w].token

TokenNamesRun ==
    \A w \in Workers, j \in Jobs :
        Active(w) /\ run[w].token = token[j] =>
            run[w].job = j /\ run[w].attempt = attempt[j]

LeasedRuns ==
    /\ \A j \in Jobs : token[j] # NoToken <=> state[j] = "running"
    /\ \A i, j \in Jobs : i # j /\ token[i] = token[j] => token[i] = NoToken

LeaseInv == LeasedRuns /\ RunsDistinct /\ TokenNamesRun

\* The properties the model checker checks are consequences.
LEMMA LeaseInvUse == LeaseInv => OneOwner /\ OwnerSnapshotFresh
  BY DEF LeaseInv, LeasedRuns, RunsDistinct, TokenNamesRun, OneOwner,
         OwnerSnapshotFresh, Holds

\* A step that starts no run and grants no lease, and clears a lease exactly
\* when the row stops running, keeps the lease invariant.
NoNewRun == \A w \in Workers : Active(w)' => Active(w) /\ run'[w] = run[w]

NoNewLease ==
    \A j \in Jobs :
        /\ token'[j] \in {token[j], NoToken}
        /\ token'[j] # NoToken <=> state'[j] = "running"
        /\ attempt'[j] = attempt[j]

LEMMA KeepLease ==
    ASSUME TypeOK, RunShape, LeaseInv, NoNewRun, NoNewLease
    PROVE  LeaseInv'
  <1>1. LeasedRuns'
    BY DEF LeaseInv, LeasedRuns, NoNewLease
  <1>2. RunsDistinct'
    BY DEF LeaseInv, RunsDistinct, NoNewRun
  <1>3. TokenNamesRun'
    <2> SUFFICES ASSUME NEW w \in Workers, NEW j \in Jobs, Active(w)',
                        run'[w].token = token'[j]
                 PROVE  run'[w].job = j /\ run'[w].attempt = attempt'[j]
      BY DEF TokenNamesRun
    <2>1. run'[w] = run[w] /\ Active(w) /\ run[w].token \in Tokens
      BY DEF NoNewRun, RunShape
    <2>2. token'[j] = token[j] /\ attempt'[j] = attempt[j]
      BY <2>1, SetsAssumption DEF NoNewLease
    <2> QED
      BY <2>1, <2>2 DEF LeaseInv, TokenNamesRun
  <1> QED
    BY <1>1, <1>2, <1>3 DEF LeaseInv

\* A claim grants a token nobody remembers to a row that had none.
LEMMA ClaimLease ==
    ASSUME TypeOK, RunShape, LeaseInv,
           NEW w \in Workers, NEW j \in Jobs, NEW t \in Tokens, Claim(w, j, t)
    PROVE  LeaseInv'
  <1>1. /\ t # NoToken
        /\ \A i \in Jobs : token[i] # t
        /\ \A v \in Workers : run[v].token # t
    BY SetsAssumption DEF Claim, FreshTokens
  <1>2. LeasedRuns'
    BY <1>1 DEF Claim, LeaseInv, LeasedRuns, TypeOK
  <1>3. run' = [run EXCEPT ![w] =
                  [job |-> j, token |-> t, attempt |-> attempt[j] + 1]]
    BY DEF Claim
  <1>4. \A v \in Workers : v # w => run'[v] = run[v] /\ (Active(v)' <=> Active(v))
    BY DEF Claim, TypeOK, Active
  <1>5. /\ run'[w].job = j
        /\ run'[w].token = t
        /\ run'[w].attempt = attempt[j] + 1
    BY <1>3 DEF TypeOK
  <1>6. RunsDistinct'
    BY <1>1, <1>4, <1>5 DEF LeaseInv, RunsDistinct
  <1>7. /\ token'[j] = t
        /\ attempt'[j] = attempt[j] + 1
        /\ \A i \in Jobs : i # j => token'[i] = token[i] /\ attempt'[i] = attempt[i]
    BY DEF Claim, TypeOK
  <1>8. TokenNamesRun'
    BY <1>1, <1>4, <1>5, <1>7 DEF LeaseInv, TokenNamesRun
  <1> QED
    BY <1>2, <1>6, <1>8 DEF LeaseInv

\* Resting, and stopping the handler, start no run.
LEMMA RestNoNewRun ==
    ASSUME TypeOK, NEW w \in Workers, Rest(w)
    PROVE  NoNewRun
  BY DEF Rest, NoNewRun, Active, TypeOK

\* Giving up the lease of a row while its state moves off "running".
LEMMA DropLease ==
    ASSUME TypeOK, LeaseInv, NEW j \in Jobs, NEW s \in JobStates \ {"running"},
           state' = [state EXCEPT ![j] = s],
           token' = [token EXCEPT ![j] = NoToken],
           attempt' = attempt
    PROVE  NoNewLease
  BY DEF NoNewLease, LeaseInv, LeasedRuns, TypeOK

\* What the end of a run does to the table: nothing, or it moves the row of
\* the run, whose token is on it under a live lease, off "running".
Closes(w, s) ==
    /\ Fenced(run[w].job, run[w].token)
    /\ s \in {"cancelled", "failed"}
    /\ Release(run[w].job, s)

Returns(w) ==
    /\ Fenced(run[w].job, run[w].token)
    /\ ends[w] \in {"transient", "parser_error"}
    /\ run[w].attempt < RetryLimit[ends[w]]
    /\ RetryLater(w)

LEMMA SettleEffect ==
    ASSUME NEW w \in Workers, Settle(w)
    PROVE  \/ rowVars' = rowVars
           \/ Closes(w, "failed")
           \/ Closes(w, "cancelled") /\ ends[w] = "cancelled"
           \/ Returns(w)
  <1>1. ASSUME NEW s \in {"cancelled", "failed"}, Finalize(w, s)
        PROVE  rowVars' = rowVars \/ Closes(w, s)
    BY <1>1 DEF Finalize, Finalizable, Closes, rowVars
  <1>2. CASE ends[w] = "cancelled" /\ Finalize(w, "cancelled")
    BY <1>1, <1>2
  <1>3. CASE Finalize(w, "failed")
    BY <1>1, <1>3
  <1>4. CASE ServiceFail(w) /\ ends[w] \in FailureClasses
    <2> DEFINE next == Classify(ends[w], run[w].attempt)
    <2>1. CASE Finalize(w, "failed")
      BY <1>3, <2>1
    <2>2. CASE UNCHANGED rowVars
      BY <2>2
    <2>3. CASE Fenced(run[w].job, run[w].token) /\ Release(run[w].job, "failed")
      BY <2>3 DEF Closes
    <2>4. CASE /\ next = "retry_wait"
               /\ Fenced(run[w].job, run[w].token)
               /\ RetryLater(w)
      <3>1. ends[w] \in DOMAIN RetryLimit /\ run[w].attempt < RetryLimit[ends[w]]
        BY <2>4 DEF Classify
      <3>2. ends[w] \in {"transient", "parser_error"}
        BY <3>1 DEF RetryLimit
      <3> QED
        BY <2>4, <3>1, <3>2 DEF Returns
    <2> QED
      BY <1>4, <2>1, <2>2, <2>3, <2>4 DEF ServiceFail
  <1> QED
    BY <1>2, <1>3, <1>4 DEF Settle

\* A step other than a claim starts no run and grants no lease.
LEMMA QuietStep ==
    ASSUME TypeOK, RunShape, LeaseInv, [Next]_vars
    PROVE  \/ NoNewRun /\ NoNewLease
           \/ \E w \in Workers, j \in Jobs, t \in Tokens : Claim(w, j, t)
  <1>1. ASSUME UNCHANGED <<state, token, attempt>>
        PROVE  NoNewLease
    BY <1>1 DEF NoNewLease, LeaseInv, LeasedRuns
  <1>2. ASSUME UNCHANGED <<pc, run>>
        PROVE  NoNewRun
    BY <1>2 DEF NoNewRun, Active
  <1>3. ASSUME NEW w \in Workers, Active(w),
               NEW s \in JobStates \ {"running"}, Release(run[w].job, s)
        PROVE  NoNewLease
    <2>1. run[w].job \in Jobs
      BY <1>3 DEF RunShape
    <2> DEFINE j == run[w].job
    <2>2. /\ state' = [state EXCEPT ![j] = s]
          /\ token' = [token EXCEPT ![j] = NoToken]
          /\ attempt' = attempt
      BY <1>3 DEF Release
    <2> HIDE DEF j
    <2> QED
      BY <2>1, <2>2, DropLease DEF j
  <1>4. ASSUME NEW j \in Jobs, Enqueue(j)
        PROVE  NoNewRun /\ NoNewLease
    <2>1. NoNewLease
      BY <1>4 DEF Enqueue, NoNewLease, LeaseInv, LeasedRuns, TypeOK
    <2>2. UNCHANGED <<pc, run>>
      BY <1>4 DEF Enqueue, workerVars
    <2> QED
      BY <1>2, <2>1, <2>2
  <1>5. ASSUME NEW j \in Jobs, RequestCancel(j)
        PROVE  NoNewRun /\ NoNewLease
    BY <1>1, <1>2, <1>5 DEF RequestCancel, workerVars
  <1>6. ASSUME NEW w \in Workers, Heartbeat(w)
        PROVE  NoNewRun /\ NoNewLease
    BY <1>1, <1>2, <1>6 DEF Heartbeat, workerVars
  <1>7. ASSUME NEW w \in Workers, HeartbeatLost(w) \/ Crash(w)
        PROVE  NoNewRun /\ NoNewLease
    BY <1>1, <1>7, RestNoNewRun DEF HeartbeatLost, Crash, rowVars
  <1>8. ASSUME NEW w \in Workers,
               \/ ObserveCancel(w)
               \/ DeadlineFires(w)
               \/ \E class \in FailureClasses \cup {"internal"} : Raise(w, class)
        PROVE  NoNewRun /\ NoNewLease
    <2>1. PICK how \in Endings : StopHandler(w, how) /\ UNCHANGED <<rowVars, scan>>
      BY <1>8 DEF ObserveCancel, DeadlineFires, Raise, Endings
    <2>2. Active(w)
      BY <1>8 DEF ObserveCancel, DeadlineFires, Raise, Active
    <2>3. NoNewRun
      BY <2>1, <2>2 DEF StopHandler, NoNewRun, Active, TypeOK
    <2> QED
      BY <1>1, <2>1, <2>3 DEF rowVars
  <1>9. ASSUME NEW w \in Workers, NEW s \in Verdicts, Finish(w, s)
        PROVE  NoNewRun /\ NoNewLease
    <2>1. s \in JobStates \ {"running"} /\ Active(w)
      BY <1>9, SetsAssumption
      DEF Finish, JobStates, TerminalStates, Cancellable, Active
    <2>2. NoNewRun
      BY <1>2, <1>9, RestNoNewRun DEF Finish, workerVars
    <2>3. NoNewLease
      BY <1>1, <1>3, <1>9, <2>1 DEF Finish, rowVars
    <2> QED
      BY <2>2, <2>3
  <1>10. ASSUME NEW w \in Workers, Settle(w)
         PROVE  NoNewRun /\ NoNewLease
    <2>1. Active(w) /\ NoNewRun
      BY <1>10, RestNoNewRun DEF Settle, Active
    <2>2. CASE rowVars' = rowVars
      BY <1>1, <2>1, <2>2 DEF rowVars
    <2>3. CASE \E s \in {"cancelled", "failed"} : Release(run[w].job, s)
      BY <1>3, <2>1, <2>3 DEF JobStates, TerminalStates
    <2>4. CASE RetryLater(w)
      <3> DEFINE j == run[w].job
      <3>1. /\ state' = [state EXCEPT ![j] = "retry_wait"]
            /\ token' = [token EXCEPT ![j] = NoToken]
            /\ attempt' = attempt
        BY <2>4 DEF RetryLater
      <3>2. j \in Jobs /\ "retry_wait" \in JobStates \ {"running"}
        BY <2>1 DEF RunShape, JobStates, Cancellable
      <3> HIDE DEF j
      <3> QED
        BY <2>1, <3>1, <3>2, DropLease
    <2> QED
      BY <1>10, <2>2, <2>3, <2>4, SettleEffect DEF Closes, Returns
  <1>11. ASSUME NEW r \in Reapers, Upkeep(r)
         PROVE  NoNewRun /\ NoNewLease
    BY <1>2, <1>11
    DEF Upkeep, Due, NoNewLease, LeaseInv, LeasedRuns, TypeOK, workerVars
  <1>12. ASSUME NEW r \in Reapers, NEW j \in Jobs, NEW n \in Nat, Reap(r, j, n)
         PROVE  NoNewRun /\ NoNewLease
    <2>1. NoNewRun
      BY <1>2, <1>12 DEF Reap, workerVars
    <2>2. CASE Expire(j, n)
      <3>1. PICK s \in {"failed", "retry_wait"} : state' = [state EXCEPT ![j] = s]
        BY <2>2 DEF Expire
      <3>2. token' = [token EXCEPT ![j] = NoToken] /\ attempt' = attempt
        BY <1>12, <2>2 DEF Expire, Reap
      <3> QED
        BY <2>1, <3>1, <3>2, DropLease DEF JobStates, TerminalStates, Cancellable
    <2>3. CASE UNCHANGED <<state, token, attempt>>
      BY <1>1, <2>1, <2>3
    <2> QED
      BY <1>12, <2>2, <2>3 DEF Reap
  <1>13. ASSUME NEW r \in Reapers, NEW f \in scan[r].found, Reap(r, f[1], f[2])
         PROVE  NoNewRun /\ NoNewLease
    <2>1. f[1] \in Jobs /\ f[2] \in Nat
      BY DEF TypeOK
    <2> QED
      BY <1>12, <1>13, <2>1
  <1>14. ASSUME NEW r \in Reapers, UpkeepFails(r)
         PROVE  NoNewRun /\ NoNewLease
    BY <1>1, <1>2, <1>14 DEF UpkeepFails, rowVars, workerVars
  <1>15. CASE Tick
    BY <1>1, <1>2, <1>15 DEF Tick
  <1>16. CASE UNCHANGED vars
    BY <1>1, <1>2, <1>16 DEF vars, rowVars, workerVars
  <1> QED
    BY <1>4, <1>5, <1>6, <1>7, <1>8, <1>9, <1>10, <1>11, <1>13, <1>14, <1>15,
       <1>16
    DEF Next, WorkerStep, UpkeepStep

\* The lease invariant is inductive.
LEMMA InitLease == Init => LeaseInv
  BY SetsAssumption
  DEF Init, LeaseInv, LeasedRuns, RunsDistinct, TokenNamesRun, Active

LEMMA StepLease == TypeOK /\ RunShape /\ LeaseInv /\ [Next]_vars => LeaseInv'
  BY QuietStep, KeepLease, ClaimLease

\* THEOREM.  The fenced lease excludes: at most one worker holds the token
\* on a row, only running rows have one, and a holder's snapshot carries the
\* row's attempt -- whatever leases expire, workers crash or reapers do.
THEOREM Fencing == Spec => [](OneOwner /\ OwnerSnapshotFresh)
  <1>1. Init => TypeOK /\ RunShape /\ LeaseInv
    BY InitType, InitLease
  <1>2. TypeOK /\ RunShape /\ LeaseInv /\ [Next]_vars
          => (TypeOK /\ RunShape /\ LeaseInv)'
    BY StepType, StepLease
  <1>3. LeaseInv => OneOwner /\ OwnerSnapshotFresh
    BY LeaseInvUse
  <1> QED
    BY <1>1, <1>2, <1>3, PTL DEF Spec

-----------------------------------------------------------------------------
(* The attempt budget.                                                      *)

\* The table the reaper's loop may still act on: a scanned row that matches
\* the reaper's UPDATE after a step matched it before, at the same attempt.
NoNewReapable ==
    \A r \in Reapers : \A f \in scan'[r].found :
        /\ f \in scan[r].found
        /\ Reapable(r, f[1])' =>
              Reapable(r, f[1]) /\ attempt'[f[1]] = attempt[f[1]]

LEMMA KeepScan ==
    ASSUME ScanFresh, NoNewReapable
    PROVE  ScanFresh'
  BY DEF ScanFresh, NoNewReapable

LEMMA InitScan == Init => ScanFresh
  BY DEF Init, ScanFresh, NoScan

\* A row that loses its lease is no longer the reaper's.
LEMMA ReleasedNotReapable ==
    ASSUME TypeOK, NEW j \in Jobs, NEW s \in JobStates \ {"running"},
           state' = [state EXCEPT ![j] = s],
           until' = [until EXCEPT ![j] = 0],
           UNCHANGED <<attempt, scan>>
    PROVE  NoNewReapable
  BY DEF NoNewReapable, Reapable, TypeOK

LEMMA FoundShape ==
    ASSUME TypeOK, NEW r \in Reapers
    PROVE  /\ scan[r].age \in Nat
           /\ \A f \in scan[r].found : f[1] \in Jobs /\ f[2] \in Nat
  BY DEF TypeOK

\* Neither is a row whose lease was just granted or extended.
LEMMA RenewedNotReapable ==
    ASSUME TypeOK, ScanFresh, NEW j \in Jobs, until'[j] \in Nat \ {0},
           \A i \in Jobs : i # j => /\ until'[i] = until[i]
                                    /\ state'[i] = state[i]
                                    /\ attempt'[i] = attempt[i],
           scan' = scan
    PROVE  ScanFresh'
  <1> SUFFICES ASSUME NEW r \in Reapers, NEW f \in scan[r].found,
                      Reapable(r, f[1])'
               PROVE  attempt'[f[1]] = f[2]
    BY DEF ScanFresh
  <1>1. f[1] \in Jobs /\ scan[r].age \in Nat
    BY FoundShape
  <1>2. f[1] # j
    BY <1>1 DEF Reapable
  <1> QED
    BY <1>1, <1>2 DEF Reapable, ScanFresh

LEMMA StepScan ==
    ASSUME TypeOK, RunShape, ScanFresh, [Next]_vars
    PROVE  ScanFresh'
  <1>1. ASSUME UNCHANGED <<state, until, attempt, scan>>
        PROVE  ScanFresh'
    BY <1>1 DEF ScanFresh, Reapable
  <1>2. ASSUME NEW w \in Workers, Active(w),
               NEW s \in JobStates \ {"running"}, Release(run[w].job, s),
               scan' = scan
        PROVE  ScanFresh'
    <2> DEFINE j == run[w].job
    <2>1. j \in Jobs
      BY <1>2 DEF RunShape
    <2>2. /\ state' = [state EXCEPT ![j] = s]
          /\ until' = [until EXCEPT ![j] = 0]
          /\ UNCHANGED <<attempt, scan>>
      BY <1>2 DEF Release
    <2> HIDE DEF j
    <2> QED
      BY <2>1, <2>2, ReleasedNotReapable, KeepScan
  <1>3. ASSUME NEW j \in Jobs, Enqueue(j)
        PROVE  ScanFresh'
    BY <1>3 DEF Enqueue, ScanFresh, Reapable, TypeOK
  <1>4. ASSUME NEW j \in Jobs, RequestCancel(j)
        PROVE  ScanFresh'
    BY <1>1, <1>4 DEF RequestCancel
  <1>5. ASSUME NEW w \in Workers, NEW j \in Jobs, NEW t \in Tokens, Claim(w, j, t)
        PROVE  ScanFresh'
    <2>1. /\ until'[j] \in Nat \ {0}
          /\ \A i \in Jobs : i # j => /\ until'[i] = until[i]
                                      /\ state'[i] = state[i]
                                      /\ attempt'[i] = attempt[i]
          /\ scan' = scan
      BY <1>5, TimesAssumption DEF Claim, TypeOK
    <2> QED
      BY <2>1, RenewedNotReapable
  <1>6. ASSUME NEW w \in Workers, Heartbeat(w)
        PROVE  ScanFresh'
    <2>1. run[w].job \in Jobs
      BY <1>6 DEF Heartbeat, RunShape, Active
    <2> DEFINE j == run[w].job
    <2>2. /\ until'[j] \in Nat \ {0}
          /\ \A i \in Jobs : i # j => until'[i] = until[i]
          /\ UNCHANGED <<state, attempt, scan>>
      BY <1>6, <2>1, TimesAssumption DEF Heartbeat, TypeOK
    <2> HIDE DEF j
    <2> QED
      BY <2>1, <2>2, RenewedNotReapable DEF j
  <1>7. ASSUME NEW w \in Workers,
               \/ HeartbeatLost(w) \/ Crash(w)
               \/ ObserveCancel(w) \/ DeadlineFires(w)
               \/ \E class \in FailureClasses \cup {"internal"} : Raise(w, class)
        PROVE  ScanFresh'
    BY <1>1, <1>7
    DEF HeartbeatLost, Crash, ObserveCancel, DeadlineFires, Raise, rowVars
  <1>8. ASSUME NEW w \in Workers, NEW s \in Verdicts, Finish(w, s)
        PROVE  ScanFresh'
    <2>1. s \in JobStates \ {"running"} /\ Active(w) /\ scan' = scan
      BY <1>8, SetsAssumption
      DEF Finish, JobStates, TerminalStates, Cancellable, Active
    <2> QED
      BY <1>1, <1>2, <1>8, <2>1 DEF Finish, rowVars
  <1>9. ASSUME NEW w \in Workers, Settle(w)
        PROVE  ScanFresh'
    <2>1. Active(w) /\ scan' = scan
      BY <1>9 DEF Settle, Active
    <2>2. CASE rowVars' = rowVars
      BY <1>1, <2>1, <2>2 DEF rowVars
    <2>3. CASE \E s \in {"cancelled", "failed"} : Release(run[w].job, s)
      BY <1>2, <2>1, <2>3 DEF JobStates, TerminalStates
    <2>4. CASE RetryLater(w)
      <3> DEFINE j == run[w].job
      <3>1. /\ state' = [state EXCEPT ![j] = "retry_wait"]
            /\ until' = [until EXCEPT ![j] = 0]
            /\ UNCHANGED <<attempt, scan>>
        BY <2>1, <2>4 DEF RetryLater
      <3>2. j \in Jobs /\ "retry_wait" \in JobStates \ {"running"}
        BY <2>1 DEF RunShape, JobStates, Cancellable
      <3> HIDE DEF j
      <3> QED
        BY <3>1, <3>2, ReleasedNotReapable, KeepScan
    <2> QED
      BY <1>9, <2>2, <2>3, <2>4, SettleEffect DEF Closes, Returns
  <1>10. ASSUME NEW r \in Reapers, Upkeep(r)
         PROVE  ScanFresh'
    <2>1. \A q \in Reapers : q # r => scan'[q] = scan[q]
      BY <1>10 DEF Upkeep, TypeOK
    <2>2. \A f \in scan'[r].found : attempt[f[1]] = f[2]
      BY <1>10 DEF Upkeep, TypeOK
    <2>3. \A j \in Jobs : state'[j] = "running" => state[j] = "running"
      BY <1>10 DEF Upkeep
    <2>4. UNCHANGED <<attempt, until>>
      BY <1>10 DEF Upkeep
    <2> SUFFICES ASSUME NEW q \in Reapers, NEW f \in scan'[q].found,
                        Reapable(q, f[1])'
                 PROVE  attempt'[f[1]] = f[2]
      BY DEF ScanFresh
    <2>5. CASE q = r
      BY <2>2, <2>4, <2>5
    <2>6. CASE q # r
      <3>1. f \in scan[q].found /\ scan'[q] = scan[q] /\ f[1] \in Jobs
        BY <2>1, <2>6, FoundShape
      <3> QED
        BY <2>3, <2>4, <3>1 DEF ScanFresh, Reapable
    <2> QED
      BY <2>5, <2>6
  <1>11. ASSUME NEW r \in Reapers, NEW j \in Jobs, NEW n \in Nat, Reap(r, j, n)
         PROVE  ScanFresh'
    <2>1. \A q \in Reapers : \A f \in scan'[q].found :
              f \in scan[q].found /\ scan'[q].age = scan[q].age
      BY <1>11 DEF Reap, Drop, NoScan, TypeOK
    <2>2. \A i \in Jobs : state'[i] = "running" =>
              state[i] = "running" /\ until'[i] = until[i]
      BY <1>11 DEF Reap, Expire, TypeOK
    <2>3. attempt' = attempt
      BY <1>11 DEF Reap
    <2>4. \A q \in Reapers : \A f \in scan[q].found : f[1] \in Jobs
      BY DEF TypeOK
    <2> QED
      BY <2>1, <2>2, <2>3, <2>4 DEF ScanFresh, Reapable
  <1>12. ASSUME NEW r \in Reapers, NEW f \in scan[r].found, Reap(r, f[1], f[2])
         PROVE  ScanFresh'
    <2>1. f[1] \in Jobs /\ f[2] \in Nat
      BY DEF TypeOK
    <2> QED
      BY <1>11, <1>12, <2>1
  <1>13. ASSUME NEW r \in Reapers, UpkeepFails(r)
         PROVE  ScanFresh'
    BY <1>13 DEF UpkeepFails, ScanFresh, Reapable, NoScan, rowVars, TypeOK
  <1>14. CASE Tick
    <2> SUFFICES ASSUME NEW r \in Reapers, NEW f \in scan'[r].found,
                        Reapable(r, f[1])'
                 PROVE  attempt'[f[1]] = f[2]
      BY DEF ScanFresh
    <2>1. scan'[r] = IF scan[r].found # {}
                     THEN [age |-> scan[r].age + 1, found |-> scan[r].found]
                     ELSE scan[r]
      BY <1>14 DEF Tick
    <2>2. scan[r].found # {}
      BY <2>1
    <2>3. /\ f \in scan[r].found
          /\ scan'[r].age = scan[r].age + 1
          /\ scan[r].age < ScanTime
      BY <1>14, <2>1, <2>2 DEF Tick
    <2>4. f[1] \in Jobs /\ scan[r].age \in Nat /\ until[f[1]] \in Int
      BY <2>3, FoundShape DEF TypeOK
    <2>5. /\ UNCHANGED <<state, attempt>>
          /\ until'[f[1]] = IF state[f[1]] = "running" /\ until[f[1]] > -ScanTime
                            THEN until[f[1]] - 1 ELSE until[f[1]]
      BY <1>14, <2>4 DEF Tick
    <2>6. state[f[1]] = "running" /\ until'[f[1]] <= -(scan[r].age + 1)
      BY <2>3, <2>5 DEF Reapable
    <2>7. until[f[1]] <= -scan[r].age
      BY <2>3, <2>4, <2>5, <2>6, TimesAssumption
    <2> QED
      BY <2>3, <2>5, <2>6, <2>7 DEF ScanFresh, Reapable
  <1>15. CASE UNCHANGED vars
    BY <1>1, <1>15 DEF vars, rowVars
  <1> QED
    BY <1>3, <1>4, <1>5, <1>6, <1>7, <1>8, <1>9, <1>10, <1>12, <1>13, <1>14,
       <1>15
    DEF Next, WorkerStep, UpkeepStep

-----------------------------------------------------------------------------
(* What one step does to one row.                                           *)

\* Why a worker is settling: its handler raised that class, or the user had
\* asked to cancel.
EndsInv ==
    \A w \in Workers :
        /\ ends[w] \in FailureClasses =>
              Active(w) /\ ends[w] \in Raises[run[w].job]
        /\ ends[w] = "cancelled" => Active(w) /\ cancel[run[w].job]

LEMMA InitEnds == Init => EndsInv
  BY DEF Init, EndsInv, FailureClasses

LEMMA StepEnds ==
    ASSUME TypeOK, RunShape, EndsInv, [Next]_vars
    PROVE  EndsInv'
  <1>1. \A j \in Jobs : cancel[j] => cancel'[j]
    BY DEF Next, WorkerStep, UpkeepStep, Enqueue, RequestCancel, Claim, Heartbeat,
           HeartbeatLost, ObserveCancel, DeadlineFires, Raise, Finish, Settle,
           Crash, Upkeep, Reap, UpkeepFails, Tick, vars, rowVars, Release,
           Finalize, ServiceFail, RetryLater, TypeOK
  <1>2. ASSUME UNCHANGED <<pc, run, ends>>
        PROVE  EndsInv'
    BY <1>1, <1>2 DEF EndsInv, RunShape, Active
  <1>3. ASSUME NEW w \in Workers, Rest(w)
        PROVE  EndsInv'
    <2>1. /\ ends'[w] = "none"
          /\ \A v \in Workers : v # w => /\ ends'[v] = ends[v]
                                         /\ run'[v] = run[v]
                                         /\ pc'[v] = pc[v]
      BY <1>3 DEF Rest, TypeOK
    <2> QED
      BY <1>1, <2>1 DEF EndsInv, RunShape, Active, FailureClasses
  <1>4. ASSUME NEW w \in Workers, NEW how \in Endings, pc[w] = "handling",
               StopHandler(w, how),
               how \in FailureClasses => how \in Raises[run[w].job],
               how = "cancelled" => cancel[run[w].job]
        PROVE  EndsInv'
    <2>1. /\ ends'[w] = how
          /\ pc'[w] = "settling"
          /\ run' = run
          /\ \A v \in Workers : v # w => ends'[v] = ends[v] /\ pc'[v] = pc[v]
      BY <1>4 DEF StopHandler, TypeOK
    <2> QED
      BY <1>1, <1>4, <2>1 DEF EndsInv, RunShape, Active
  <1>5. ASSUME NEW w \in Workers, NEW j \in Jobs, NEW t \in Tokens, Claim(w, j, t)
        PROVE  EndsInv'
    <2>1. \A v \in Workers : Active(v) => Active(v)' /\ run'[v] = run[v]
      BY <1>5 DEF Claim, TypeOK, Active
    <2>2. ends' = ends /\ cancel' = cancel
      BY <1>5 DEF Claim
    <2> QED
      BY <2>1, <2>2 DEF EndsInv
  <1>6. ASSUME NEW w \in Workers, WorkerStep(w)
        PROVE  EndsInv'
    <2>1. CASE ObserveCancel(w)
      BY <1>4, <2>1 DEF ObserveCancel, Endings, FailureClasses
    <2>2. CASE DeadlineFires(w)
      BY <1>4, <2>2 DEF DeadlineFires, Endings, FailureClasses
    <2>3. ASSUME NEW class \in FailureClasses \cup {"internal"}, Raise(w, class)
          PROVE  EndsInv'
      BY <1>4, <2>3 DEF Raise, Endings, FailureClasses
    <2> QED
      BY <1>2, <1>3, <1>5, <1>6, <2>1, <2>2, <2>3
      DEF WorkerStep, Heartbeat, HeartbeatLost, Finish, Settle, Crash, workerVars
  <1> QED
    BY <1>2, <1>6
    DEF Next, Enqueue, RequestCancel, UpkeepStep, Upkeep, Reap, UpkeepFails, Tick,
        workerVars, vars

\* The seven things a step can do to a row.
Untouched(j) ==
    /\ state'[j] = state[j]
    /\ attempt'[j] = attempt[j]
    /\ token'[j] = token[j]
    /\ events'[j] = events[j]

Opens(j) ==
    /\ state[j] = "absent" /\ state'[j] = "queued"
    /\ attempt'[j] = attempt[j]
    /\ events'[j] = Append(events[j], "queued")

Requeues(j) ==
    /\ state[j] = "retry_wait" /\ state'[j] = "queued"
    /\ attempt'[j] = attempt[j]
    /\ events'[j] = events[j]

Starts(j) ==
    /\ state[j] = "queued" /\ state'[j] = "running"
    /\ attempt'[j] = attempt[j] + 1
    /\ events'[j] = events[j]

HeldLive(j) ==
    /\ state[j] = "running"
    /\ until[j] > 0
    /\ \E w \in Workers : Holds(w, j)

Announces(j) ==
    /\ HeldLive(j)
    /\ state'[j] \in TerminalStates \cup {"waiting_review"}
    /\ state'[j] = "cancelled" => cancel[j]
    /\ attempt'[j] = attempt[j]
    /\ events'[j] = Append(events[j], TerminalEvent[state'[j]])

GivesBack(j) ==
    /\ HeldLive(j)
    /\ state'[j] = "retry_wait"
    /\ attempt[j] < MaxAttempts[j]
    /\ attempt'[j] = attempt[j]
    /\ events'[j] = Append(events[j], "retrying")

Reaped(j) ==
    /\ state[j] = "running" /\ until[j] <= 0
    /\ \/ state'[j] = "failed"
       \/ state'[j] = "retry_wait" /\ attempt[j] < MaxAttempts[j]
    /\ attempt'[j] = attempt[j]
    /\ events'[j] = events[j]

RowStep(j) ==
    \/ Untouched(j) \/ Opens(j) \/ Requeues(j) \/ Starts(j)
    \/ Announces(j) \/ GivesBack(j) \/ Reaped(j)

\* Everything the row-level argument knows before a step.
QueueInv == TypeOK /\ RunShape /\ LeaseInv /\ ScanFresh /\ EndsInv

LEMMA InitQueue == Init => QueueInv
  BY InitType, InitLease, InitScan, InitEnds DEF QueueInv

LEMMA StepQueue == QueueInv /\ [Next]_vars => QueueInv'
  BY StepType, StepLease, StepScan, StepEnds DEF QueueInv

\* A worker that passes the fence holds its running row under a live lease.
LEMMA FencedHolds ==
    ASSUME QueueInv, NEW w \in Workers, Active(w),
           Fenced(run[w].job, run[w].token)
    PROVE  run[w].job \in Jobs /\ HeldLive(run[w].job)
  <1>1. run[w].job \in Jobs
    BY DEF QueueInv, RunShape
  <1>2. state[run[w].job] = "running"
    BY <1>1 DEF Fenced, QueueInv, LeaseInv, LeasedRuns
  <1> QED
    BY <1>1, <1>2 DEF Fenced, HeldLive, Holds

\* Writing under the fence announces the row's final state ...
LEMMA ReleaseAnnounces ==
    ASSUME QueueInv, NEW w \in Workers, Active(w),
           Fenced(run[w].job, run[w].token),
           NEW s \in TerminalStates \cup {"waiting_review"},
           s = "cancelled" => cancel[run[w].job],
           Release(run[w].job, s)
    PROVE  \A j \in Jobs : Untouched(j) \/ Announces(j)
  <1> DEFINE k == run[w].job
  <1>1. k \in Jobs /\ HeldLive(k)
    BY FencedHolds
  <1>2. /\ state' = [state EXCEPT ![k] = s]
        /\ token' = [token EXCEPT ![k] = NoToken]
        /\ events' = [events EXCEPT ![k] = Append(events[k], TerminalEvent[s])]
        /\ attempt' = attempt
    BY DEF Release
  <1>3. s = "cancelled" => cancel[k]
    OBVIOUS
  <1> HIDE DEF k
  <1> QED
    BY <1>1, <1>2, <1>3 DEF QueueInv, TypeOK, Untouched, Announces

\* ... and a retry gives the row back with an attempt left: the class was
\* one the kind raises, and the snapshot's attempt is the row's.
LEMMA RetryGivesBack ==
    ASSUME QueueInv, NEW w \in Workers, Active(w), Returns(w)
    PROVE  \A j \in Jobs : Untouched(j) \/ GivesBack(j)
  <1> DEFINE k == run[w].job
  <1>1. k \in Jobs /\ HeldLive(k)
    BY FencedHolds DEF Returns
  <1>2. /\ ends[w] \in Raises[k]
        /\ ends[w] \in {"transient", "parser_error"}
    BY DEF Returns, QueueInv, EndsInv, FailureClasses
  <1>3. run[w].attempt = attempt[k]
    BY <1>1 DEF Returns, Fenced, QueueInv, LeaseInv, TokenNamesRun
  <1>4. attempt[k] < RetryLimit[ends[w]]
    BY <1>3 DEF Returns
  <1>5. /\ attempt[k] \in Nat
        /\ MaxAttempts[k] \in Nat
        /\ TransientMax \in Nat
        /\ ParserMax \in Nat
    BY <1>1, BudgetAssumption DEF QueueInv, TypeOK
  <1>6. attempt[k] < MaxAttempts[k]
    <2>1. CASE ends[w] = "transient"
      BY <1>1, <1>2, <1>4, <1>5, <2>1, BudgetAssumption DEF RetryLimit
    <2>2. CASE ends[w] = "parser_error"
      BY <1>1, <1>2, <1>4, <1>5, <2>2, BudgetAssumption DEF RetryLimit
    <2> QED
      BY <1>2, <2>1, <2>2
  <1>7. /\ state' = [state EXCEPT ![k] = "retry_wait"]
        /\ token' = [token EXCEPT ![k] = NoToken]
        /\ events' = [events EXCEPT ![k] = Append(events[k], "retrying")]
        /\ attempt' = attempt
    BY DEF Returns, RetryLater
  <1> HIDE DEF k
  <1> QED
    BY <1>1, <1>6, <1>7 DEF QueueInv, TypeOK, Untouched, GivesBack

LEMMA EveryRowStep ==
    ASSUME QueueInv, [Next]_vars
    PROVE  \A j \in Jobs : RowStep(j)
  <1>1. ASSUME UNCHANGED <<state, attempt, token, events>>
        PROVE  \A j \in Jobs : RowStep(j)
    BY <1>1 DEF RowStep, Untouched
  <1>2. ASSUME NEW k \in Jobs, Enqueue(k)
        PROVE  \A j \in Jobs : RowStep(j)
    BY <1>2 DEF Enqueue, RowStep, Untouched, Opens, QueueInv, TypeOK
  <1>3. ASSUME NEW w \in Workers, NEW k \in Jobs, NEW t \in Tokens, Claim(w, k, t)
        PROVE  \A j \in Jobs : RowStep(j)
    BY <1>3 DEF Claim, RowStep, Untouched, Starts, QueueInv, TypeOK
  <1>4. ASSUME NEW w \in Workers, NEW s \in Verdicts, Finish(w, s)
        PROVE  \A j \in Jobs : RowStep(j)
    <2>1. /\ Active(w)
          /\ s \in TerminalStates \cup {"waiting_review"}
          /\ s # "cancelled"
      BY <1>4, SetsAssumption DEF Finish, Active, TerminalStates
    <2>2. CASE Fenced(run[w].job, run[w].token) /\ Release(run[w].job, s)
      BY <2>1, <2>2, ReleaseAnnounces DEF RowStep
    <2>3. CASE UNCHANGED rowVars
      BY <1>1, <2>3 DEF rowVars
    <2> QED
      BY <1>4, <2>2, <2>3 DEF Finish
  <1>5. ASSUME NEW w \in Workers, Settle(w)
        PROVE  \A j \in Jobs : RowStep(j)
    <2>1. Active(w)
      BY <1>5 DEF Settle, Active
    <2>2. CASE rowVars' = rowVars
      BY <1>1, <2>2 DEF rowVars
    <2>3. CASE Closes(w, "failed")
      BY <2>1, <2>3, ReleaseAnnounces DEF Closes, RowStep, TerminalStates
    <2>4. CASE Closes(w, "cancelled") /\ ends[w] = "cancelled"
      <3>1. cancel[run[w].job]
        BY <2>4 DEF QueueInv, EndsInv
      <3> QED
        BY <2>1, <2>4, <3>1, ReleaseAnnounces DEF Closes, RowStep, TerminalStates
    <2>5. CASE Returns(w)
      BY <2>1, <2>5, RetryGivesBack DEF RowStep
    <2> QED
      BY <1>5, <2>2, <2>3, <2>4, <2>5, SettleEffect
  <1>6. ASSUME NEW w \in Workers, WorkerStep(w)
        PROVE  \A j \in Jobs : RowStep(j)
    BY <1>1, <1>3, <1>4, <1>5, <1>6
    DEF WorkerStep, Heartbeat, HeartbeatLost, ObserveCancel, DeadlineFires, Raise,
        Crash, rowVars
  <1>7. ASSUME NEW r \in Reapers, Upkeep(r)
        PROVE  \A j \in Jobs : RowStep(j)
    BY <1>7 DEF Upkeep, Due, RowStep, Untouched, Requeues, QueueInv, TypeOK
  <1>8. ASSUME NEW r \in Reapers, NEW k \in Jobs, NEW n \in Nat, Reap(r, k, n)
        PROVE  \A j \in Jobs : RowStep(j)
    <2>1. CASE ~Reapable(r, k)
      BY <1>1, <1>8, <2>1 DEF Reap
    <2>2. CASE Reapable(r, k)
      <3>1. attempt[k] = n
        <4>1. ScanFresh /\ <<k, n>> \in scan[r].found
          BY <1>8 DEF Reap, QueueInv
        <4>2. Reapable(r, <<k, n>>[1]) => attempt[<<k, n>>[1]] = <<k, n>>[2]
          BY <4>1 DEF ScanFresh
        <4> QED
          BY <2>2, <4>2
      <3>2. state[k] = "running" /\ until[k] <= 0
        BY <2>2, FoundShape DEF Reapable, QueueInv, TypeOK
      <3>3. n < MaxAttempts[k] \/ n >= MaxAttempts[k]
        BY BudgetAssumption
      <3>4. PICK s \in {"failed", "retry_wait"} :
               /\ state' = [state EXCEPT ![k] = s]
               /\ s = "retry_wait" => n < MaxAttempts[k]
        BY <1>8, <2>2, <3>3 DEF Reap, Expire
      <3>5. /\ token' = [token EXCEPT ![k] = NoToken]
            /\ UNCHANGED <<attempt, events>>
        BY <1>8, <2>2 DEF Reap, Expire
      <3>6. Reaped(k)
        BY <3>1, <3>2, <3>4, <3>5 DEF Reaped, QueueInv, TypeOK
      <3>7. \A j \in Jobs : j # k => Untouched(j)
        BY <3>4, <3>5 DEF Untouched, QueueInv, TypeOK
      <3> QED
        BY <3>6, <3>7 DEF RowStep
    <2> QED
      BY <2>1, <2>2
  <1>9. ASSUME NEW r \in Reapers, UpkeepStep(r)
        PROVE  \A j \in Jobs : RowStep(j)
    <2>1. ASSUME NEW f \in scan[r].found, Reap(r, f[1], f[2])
          PROVE  \A j \in Jobs : RowStep(j)
      BY <1>8, <2>1, FoundShape DEF QueueInv
    <2> QED
      BY <1>1, <1>7, <1>9, <2>1 DEF UpkeepStep, UpkeepFails, rowVars
  <1> QED
    BY <1>1, <1>2, <1>6, <1>9 DEF Next, RequestCancel, Tick, vars, rowVars

-----------------------------------------------------------------------------
(* The theorems about rows.                                                 *)

BudgetInv == AttemptBudget /\ \A j \in Jobs : state[j] = "absent" => attempt[j] = 0

LEMMA StepBudget ==
    ASSUME QueueInv, BudgetInv, \A j \in Jobs : RowStep(j)
    PROVE  BudgetInv'
  <1> SUFFICES ASSUME NEW j \in Jobs
               PROVE  /\ attempt'[j] <= MaxAttempts[j]
                      /\ state'[j] \in {"queued", "retry_wait"} =>
                            attempt'[j] < MaxAttempts[j]
                      /\ state'[j] = "absent" => attempt'[j] = 0
    BY DEF BudgetInv, AttemptBudget
  <1>1. /\ attempt[j] \in Nat
        /\ MaxAttempts[j] \in Nat \ {0}
    BY BudgetAssumption DEF QueueInv, TypeOK
  <1>2. RowStep(j)
    OBVIOUS
  <1> QED
    BY <1>1, <1>2
    DEF RowStep, Untouched, Opens, Requeues, Starts, Announces, GivesBack, Reaped,
        BudgetInv, AttemptBudget, TerminalStates

\* THEOREM.  No job is started more often than max_attempts, no waiting job
\* has used its attempts up, and a reaper's remembered attempt is the row's.
THEOREM Budget == Spec => [](AttemptBudget /\ ScanFresh)
  <1>1. Init => QueueInv /\ BudgetInv
    BY InitQueue, BudgetAssumption DEF Init, BudgetInv, AttemptBudget
  <1>2. QueueInv /\ BudgetInv /\ [Next]_vars => (QueueInv /\ BudgetInv)'
    BY StepQueue, EveryRowStep, StepBudget
  <1>3. QueueInv /\ BudgetInv => AttemptBudget /\ ScanFresh
    BY DEF QueueInv, BudgetInv
  <1> QED
    BY <1>1, <1>2, <1>3, PTL DEF Spec

RowVerdict(j) ==
    /\ \A i \in 1 .. Len(events[j]) :
          events[j][i] \in TerminalEvents =>
              /\ i = Len(events[j])
              /\ state[j] \in TerminalStates \cup {"waiting_review"}
              /\ events[j][i] = TerminalEvent[state[j]]
    /\ state[j] \in {"succeeded", "partial", "cancelled", "waiting_review"} =>
          LastEvent(j) = TerminalEvent[state[j]]

LEMMA StepVerdict ==
    ASSUME QueueInv, OneVerdict, \A j \in Jobs : RowStep(j)
    PROVE  OneVerdict'
  <1> SUFFICES ASSUME NEW j \in Jobs
               PROVE  RowVerdict(j)'
    BY DEF OneVerdict, RowVerdict
  <1>1. RowVerdict(j) /\ RowStep(j)
    BY DEF OneVerdict, RowVerdict
  <1>2. events[j] \in Seq(EventTypes)
    BY DEF QueueInv, TypeOK
  <1>3. CASE Untouched(j)
    BY <1>1, <1>3 DEF Untouched, RowVerdict, LastEvent
  <1>4. ASSUME state[j] \notin TerminalStates \cup {"waiting_review"},
               state'[j] \notin {"succeeded", "partial", "cancelled", "waiting_review"},
               \/ events'[j] = events[j]
               \/ \E e \in EventTypes \ TerminalEvents : events'[j] = Append(events[j], e)
        PROVE  RowVerdict(j)'
    <2>1. \A i \in 1 .. Len(events[j]) : events[j][i] \notin TerminalEvents
      BY <1>1, <1>4 DEF RowVerdict
    <2>2. \A i \in 1 .. Len(events'[j]) : events'[j][i] \notin TerminalEvents
      BY <1>2, <1>4, <2>1
    <2> QED
      BY <1>4, <2>2 DEF RowVerdict
  <1>5. CASE Announces(j)
    <2> DEFINE e == TerminalEvent[state'[j]]
    <2>1. \A i \in 1 .. Len(events[j]) : events[j][i] \notin TerminalEvents
      BY <1>1, <1>5 DEF RowVerdict, Announces, HeldLive, TerminalStates
    <2>2. /\ events'[j] = Append(events[j], e)
          /\ state'[j] \in TerminalStates \cup {"waiting_review"}
          /\ e \in EventTypes
      BY <1>5 DEF Announces, TerminalEvent, TerminalStates, EventTypes, TerminalEvents
    <2> HIDE DEF e
    <2>3. /\ Len(events'[j]) = Len(events[j]) + 1
          /\ events'[j][Len(events[j]) + 1] = e
          /\ \A i \in 1 .. Len(events[j]) : events'[j][i] = events[j][i]
      BY <1>2, <2>2
    <2>4. Len(events[j]) \in Nat
      BY <1>2
    <2>5. \A i \in 1 .. Len(events'[j]) :
              events'[j][i] \in TerminalEvents => i = Len(events'[j])
      BY <2>1, <2>3, <2>4
    <2>6. events'[j][Len(events'[j])] = e
      BY <2>3
    <2> QED
      BY <2>2, <2>5, <2>6 DEF RowVerdict, LastEvent, e
  <1>6. CASE Opens(j) \/ Requeues(j) \/ Starts(j) \/ GivesBack(j) \/ Reaped(j)
    BY <1>4, <1>6
    DEF Opens, Requeues, Starts, GivesBack, Reaped, HeldLive, TerminalStates,
        EventTypes, TerminalEvents
  <1> QED
    BY <1>1, <1>3, <1>5, <1>6 DEF RowStep

\* THEOREM.  What a session holds of a row and what a scan has found is the row
\* as it is, for as long as the fence lets it write.
THEOREM Snapshots == Spec => []SnapshotsFresh
<1> QED
  BY Fencing, Budget, PTL DEF SnapshotsFresh

\* THEOREM.  The event stream of a job carries at most one final event, it is
\* the last one, and it names the state the row is in.
THEOREM Verdict == Spec => []OneVerdict
  <1>1. Init => QueueInv /\ OneVerdict
    BY InitQueue DEF Init, OneVerdict
  <1>2. QueueInv /\ OneVerdict /\ [Next]_vars => (QueueInv /\ OneVerdict)'
    BY StepQueue, EveryRowStep, StepVerdict
  <1> QED
    BY <1>1, <1>2, PTL DEF Spec

\* A worker that comes to rest, or stays as it is, moves nobody else.
LEMMA RestMovesOne ==
    ASSUME TypeOK, NEW w \in Workers, Rest(w) \/ UNCHANGED workerVars,
           UNCHANGED <<cancel, scan>>
    PROVE  OnlyMoves(w)
  BY DEF Rest, OnlyMoves, workerVars, TypeOK

\* Who can have moved a running row whose lease is live.
LEMMA OwnerMoves ==
    ASSUME QueueInv, [Next]_vars, NEW j \in Jobs, state[j] = "running", until[j] > 0,
           <<state'[j], token'[j]>> # <<state[j], token[j]>>
    PROVE  \E w \in Workers : Holds(w, j) /\ OnlyMoves(w)
  <1>0. ~UNCHANGED <<state, token>> /\ TypeOK
    BY DEF QueueInv
  <1>1. ASSUME NEW w \in Workers, Active(w), Fenced(run[w].job, run[w].token),
               NEW s \in JobStates,
               state' = [state EXCEPT ![run[w].job] = s],
               token' = [token EXCEPT ![run[w].job] = NoToken],
               Rest(w) \/ UNCHANGED workerVars, UNCHANGED <<cancel, scan>>
        PROVE  Holds(w, j) /\ OnlyMoves(w)
    <2>1. OnlyMoves(w)
      BY <1>0, <1>1, RestMovesOne
    <2>2. j = run[w].job
      BY <1>0, <1>1 DEF TypeOK
    <2> QED
      BY <1>1, <2>1, <2>2 DEF Fenced, Holds
  <1>2. ASSUME NEW k \in Jobs, Enqueue(k) PROVE FALSE
    BY <1>0, <1>2 DEF Enqueue, TypeOK
  <1>3. ASSUME NEW w \in Workers, NEW k \in Jobs, NEW t \in Tokens, Claim(w, k, t)
        PROVE  FALSE
    BY <1>0, <1>3 DEF Claim, TypeOK
  <1>4. ASSUME NEW w \in Workers, NEW s \in Verdicts, Finish(w, s)
        PROVE  Holds(w, j) /\ OnlyMoves(w)
    <2>1. Active(w) /\ s \in JobStates
      BY <1>4, SetsAssumption DEF Finish, Active, JobStates, TerminalStates, Cancellable
    <2>2. Fenced(run[w].job, run[w].token) /\ Release(run[w].job, s)
      BY <1>0, <1>4 DEF Finish, rowVars
    <2> QED
      BY <1>1, <1>4, <2>1, <2>2 DEF Finish, Release
  <1>5. ASSUME NEW w \in Workers, Settle(w)
        PROVE  Holds(w, j) /\ OnlyMoves(w)
    <2>1. Active(w) /\ Rest(w) /\ scan' = scan
      BY <1>5 DEF Settle, Active
    <2>2. PICK s \in {"failed", "cancelled", "retry_wait"} :
             /\ Fenced(run[w].job, run[w].token)
             /\ state' = [state EXCEPT ![run[w].job] = s]
             /\ token' = [token EXCEPT ![run[w].job] = NoToken]
             /\ cancel' = cancel
      BY <1>0, <1>5, SettleEffect DEF Closes, Returns, Release, RetryLater, rowVars
    <2>3. s \in JobStates
      BY DEF JobStates, TerminalStates, Cancellable
    <2> QED
      BY <1>1, <2>1, <2>2, <2>3
  <1>6. ASSUME NEW r \in Reapers, Upkeep(r) PROVE FALSE
    BY <1>0, <1>6 DEF Upkeep, Due, TypeOK
  <1>7. ASSUME NEW r \in Reapers, NEW f \in scan[r].found, Reap(r, f[1], f[2])
        PROVE  FALSE
    <2>1. f[1] \in Jobs /\ scan[r].age \in Nat /\ until[j] \in Int
      BY <1>0, FoundShape DEF TypeOK
    <2>2. f[1] # j
      <3>1. Reapable(r, j) => until[j] <= -scan[r].age
        BY DEF Reapable
      <3>2. ~Reapable(r, j)
        BY <2>1, <3>1
      <3>3. Reapable(r, f[1])
        BY <1>0, <1>7 DEF Reap
      <3> QED
        BY <3>2, <3>3
    <2> QED
      BY <1>0, <1>7, <2>1, <2>2 DEF Reap, Expire, TypeOK
  <1>8. ASSUME NEW w \in Workers, WorkerStep(w)
        PROVE  Holds(w, j) /\ OnlyMoves(w)
    BY <1>0, <1>3, <1>4, <1>5, <1>8
    DEF WorkerStep, Heartbeat, HeartbeatLost, ObserveCancel, DeadlineFires, Raise,
        Crash, rowVars
  <1> QED
    BY <1>0, <1>2, <1>6, <1>7, <1>8
    DEF Next, RequestCancel, UpkeepStep, UpkeepFails, Tick, vars, rowVars

\* THEOREM.  A terminal row is never changed again, and a running row whose
\* lease is live is moved only by the run that holds its token.
THEOREM Closed == Spec => TerminalForever /\ LiveLeaseNotReaped
  <1>1. QueueInv /\ [Next]_vars =>
          \A j \in Jobs : state[j] \in TerminalStates =>
              /\ state'[j] = state[j]
              /\ token'[j] = token[j]
              /\ attempt'[j] = attempt[j]
              /\ events'[j] = events[j]
    BY EveryRowStep
    DEF RowStep, Untouched, Opens, Requeues, Starts, Announces, GivesBack, HeldLive,
        Reaped, TerminalStates
  <1>2. QueueInv /\ [Next]_vars =>
          \A j \in Jobs :
              /\ state[j] = "running" /\ until[j] > 0
              /\ <<state'[j], token'[j]>> # <<state[j], token[j]>>
              => \E w \in Workers : Holds(w, j) /\ OnlyMoves(w)
    BY OwnerMoves
  <1>3. Init => QueueInv
    BY InitQueue
  <1>4. QueueInv /\ [Next]_vars => QueueInv'
    BY StepQueue
  <1> QED
    BY <1>1, <1>2, <1>3, <1>4, PTL DEF Spec, TerminalForever, LiveLeaseNotReaped

\* What a worker that stops handling or settling did to its row.
LEMMA EndOfRun ==
    ASSUME QueueInv, NEW w \in Workers, Active(w), WorkerStep(w), pc'[w] # pc[w]
    PROVE  \/ rowVars' = rowVars
           \/ Fenced(run[w].job, run[w].token)
  <1>1. ASSUME NEW s \in Verdicts, Finish(w, s)
        PROVE  rowVars' = rowVars \/ Fenced(run[w].job, run[w].token)
    BY <1>1 DEF Finish
  <1>2. CASE Settle(w)
    BY <1>2, SettleEffect DEF Closes, Returns
  <1>3. CASE Heartbeat(w)
    BY <1>3 DEF Heartbeat, workerVars
  <1>4. ASSUME NEW j \in Jobs, NEW t \in Tokens, Claim(w, j, t)
        PROVE  FALSE
    BY <1>4 DEF Claim, Active
  <1> QED
    BY <1>1, <1>2, <1>3, <1>4
    DEF WorkerStep, HeartbeatLost, ObserveCancel, DeadlineFires, Raise, Crash

LEMMA OtherWorkersStand ==
    ASSUME QueueInv, [Next]_vars, NEW w \in Workers, Active(w), pc'[w] # pc[w]
    PROVE  WorkerStep(w)
  <1>1. ASSUME NEW v \in Workers, v # w, WorkerStep(v)
        PROVE  pc'[w] = pc[w]
    BY <1>1
    DEF WorkerStep, Claim, Heartbeat, HeartbeatLost, ObserveCancel, DeadlineFires,
        Raise, Finish, Settle, Crash, Rest, StopHandler, workerVars, QueueInv, TypeOK
  <1> QED
    BY <1>1
    DEF Next, Enqueue, RequestCancel, UpkeepStep, Upkeep, Reap, UpkeepFails, Tick,
        vars, workerVars

\* THEOREM.  The late end of a run whose lease was lost leaves the row of the
\* new owner alone.
THEOREM StaleHarmless == Spec => StaleWorkerHarmless
  <1>1. QueueInv /\ [Next]_vars =>
          \A w \in Workers :
            LET j == run[w].job IN
            Active(w) /\ pc'[w] # pc[w] /\ j \in Jobs =>
                \/ state'[j] = state[j] /\ token'[j] = token[j]
                \/ token[j] = run[w].token /\ until[j] > 0
    BY EndOfRun, OtherWorkersStand DEF rowVars, Fenced
  <1>2. Init => QueueInv
    BY InitQueue
  <1>3. QueueInv /\ [Next]_vars => QueueInv'
    BY StepQueue
  <1> QED
    BY <1>1, <1>2, <1>3, PTL DEF Spec, StaleWorkerHarmless

-----------------------------------------------------------------------------
(* JobQueue implements JobOwnership.                                        *)

SamePhase(j) == Phase(state'[j]) = Phase(state[j]) /\ attempt'[j] = attempt[j]

\* A step moves at most one row between the phases.
LEMMA OneRowMoves ==
    ASSUME QueueInv, [Next]_vars
    PROVE  (\A j \in Jobs : SamePhase(j))
           \/ \E k \in Jobs : \A j \in Jobs : j # k => SamePhase(j)
  <1>1. ASSUME UNCHANGED <<state, attempt>>
        PROVE  \A j \in Jobs : SamePhase(j)
    BY <1>1 DEF SamePhase
  <1>2. ASSUME NEW k \in Jobs,
               \A j \in Jobs : j # k => state'[j] = state[j] /\ attempt'[j] = attempt[j]
        PROVE  \E i \in Jobs : \A j \in Jobs : j # i => SamePhase(j)
    BY <1>2 DEF SamePhase
  <1>3. ASSUME NEW k \in Jobs, NEW s, state' = [state EXCEPT ![k] = s],
               attempt' = attempt
        PROVE  \E i \in Jobs : \A j \in Jobs : j # i => SamePhase(j)
    BY <1>2, <1>3 DEF QueueInv, TypeOK
  <1>4. ASSUME NEW k \in Jobs, Enqueue(k)
        PROVE  \E i \in Jobs : \A j \in Jobs : j # i => SamePhase(j)
    BY <1>3, <1>4 DEF Enqueue
  <1>5. ASSUME NEW w \in Workers, NEW k \in Jobs, NEW t \in Tokens, Claim(w, k, t)
        PROVE  \E i \in Jobs : \A j \in Jobs : j # i => SamePhase(j)
    BY <1>2, <1>5 DEF Claim, QueueInv, TypeOK
  <1>6. ASSUME NEW w \in Workers, Active(w), NEW s, Release(run[w].job, s)
        PROVE  \E i \in Jobs : \A j \in Jobs : j # i => SamePhase(j)
    BY <1>3, <1>6 DEF Release, QueueInv, RunShape
  <1>7. ASSUME NEW w \in Workers, Active(w), RetryLater(w)
        PROVE  \E i \in Jobs : \A j \in Jobs : j # i => SamePhase(j)
    <2>1. run[w].job \in Jobs
      BY <1>7 DEF QueueInv, RunShape
    <2>2. /\ state' = [state EXCEPT ![run[w].job] = "retry_wait"]
          /\ attempt' = attempt
      BY <1>7 DEF RetryLater
    <2> QED
      BY <1>3, <2>1, <2>2
  <1>8. ASSUME NEW w \in Workers, Settle(w)
        PROVE  \/ \A j \in Jobs : SamePhase(j)
               \/ \E i \in Jobs : \A j \in Jobs : j # i => SamePhase(j)
    <2>1. Active(w)
      BY <1>8 DEF Settle, Active
    <2> QED
      BY <1>1, <1>6, <1>7, <1>8, <2>1, SettleEffect DEF Closes, Returns, rowVars
  <1>9. ASSUME NEW w \in Workers, NEW s \in Verdicts, Finish(w, s)
        PROVE  \/ \A j \in Jobs : SamePhase(j)
               \/ \E i \in Jobs : \A j \in Jobs : j # i => SamePhase(j)
    <2>1. Active(w)
      BY <1>9 DEF Finish, Active
    <2> QED
      BY <1>1, <1>6, <1>9, <2>1 DEF Finish, rowVars
  <1>10. ASSUME NEW w \in Workers, WorkerStep(w)
         PROVE  \/ \A j \in Jobs : SamePhase(j)
                \/ \E i \in Jobs : \A j \in Jobs : j # i => SamePhase(j)
    BY <1>1, <1>5, <1>8, <1>9, <1>10
    DEF WorkerStep, Heartbeat, HeartbeatLost, ObserveCancel, DeadlineFires, Raise,
        Crash, rowVars
  <1>11. ASSUME NEW r \in Reapers, Upkeep(r)
         PROVE  \A j \in Jobs : SamePhase(j)
    BY <1>11 DEF Upkeep, Due, SamePhase, Phase
  <1>12. ASSUME NEW r \in Reapers, NEW k \in Jobs, NEW n \in Nat, Reap(r, k, n)
         PROVE  \/ \A j \in Jobs : SamePhase(j)
                \/ \E i \in Jobs : \A j \in Jobs : j # i => SamePhase(j)
    BY <1>1, <1>3, <1>12 DEF Reap, Expire
  <1>13. ASSUME NEW r \in Reapers, UpkeepStep(r)
         PROVE  \/ \A j \in Jobs : SamePhase(j)
                \/ \E i \in Jobs : \A j \in Jobs : j # i => SamePhase(j)
    BY <1>1, <1>11, <1>12, <1>13, FoundShape
    DEF UpkeepStep, UpkeepFails, rowVars, QueueInv
  <1> QED
    BY <1>1, <1>4, <1>10, <1>13 DEF Next, RequestCancel, Tick, vars, rowVars

\* What a row's step is to the abstract specification.
LEMMA RowStepMaps ==
    ASSUME QueueInv, BudgetInv, NEW j \in Jobs, RowStep(j)
    PROVE  \/ SamePhase(j)
           \/ /\ Phase(state[j]) = "waiting" /\ Phase(state'[j]) = "owned"
              /\ attempt[j] < MaxAttempts[j]
              /\ attempt'[j] = attempt[j] + 1
           \/ /\ Phase(state[j]) = "owned" /\ Phase(state'[j]) = "waiting"
              /\ attempt[j] < MaxAttempts[j]
              /\ attempt'[j] = attempt[j]
           \/ /\ Phase(state[j]) = "owned" /\ Phase(state'[j]) = "closed"
              /\ attempt'[j] = attempt[j]
  BY DEF RowStep, Untouched, Opens, Requeues, Starts, Announces, GivesBack, HeldLive,
         Reaped, SamePhase, Phase, BudgetInv, AttemptBudget, TerminalStates

phaseBar == [j \in Jobs |-> Phase(state[j])]

LEMMA StepMaps ==
    ASSUME QueueInv, BudgetInv, [Next]_vars
    PROVE  [Ownership!Next]_<<phaseBar, attempt>>
  <1>1. attempt \in [Jobs -> Nat] /\ attempt' \in [Jobs -> Nat]
    BY StepQueue DEF QueueInv, TypeOK
  <1>2. CASE \A j \in Jobs : SamePhase(j)
    <2>1. attempt' = attempt
      BY <1>1, <1>2 DEF SamePhase
    <2>2. phaseBar' = phaseBar
      BY <1>2 DEF SamePhase, phaseBar
    <2> QED
      BY <2>1, <2>2
  <1>3. ASSUME NEW k \in Jobs, \A j \in Jobs : j # k => SamePhase(j), ~SamePhase(k)
        PROVE  Ownership!Take(k) \/ Ownership!GiveBack(k) \/ Ownership!Close(k)
    <2>1. phaseBar' = [phaseBar EXCEPT ![k] = Phase(state'[k])]
      BY <1>3 DEF SamePhase, phaseBar
    <2>2. attempt' = [attempt EXCEPT ![k] = attempt'[k]]
      BY <1>1, <1>3 DEF SamePhase
    <2>3. attempt'[k] = attempt[k] => attempt' = attempt
      BY <1>1, <2>2
    <2>4. phaseBar[k] = Phase(state[k])
      BY DEF phaseBar
    <2>5. RowStep(k)
      BY EveryRowStep
    <2>6. CASE /\ Phase(state[k]) = "waiting" /\ Phase(state'[k]) = "owned"
               /\ attempt[k] < MaxAttempts[k]
               /\ attempt'[k] = attempt[k] + 1
      BY <2>1, <2>2, <2>4, <2>6 DEF Ownership!Take, phaseBar
    <2>7. CASE /\ Phase(state[k]) = "owned" /\ Phase(state'[k]) = "waiting"
               /\ attempt[k] < MaxAttempts[k]
               /\ attempt'[k] = attempt[k]
      BY <2>1, <2>3, <2>4, <2>7 DEF Ownership!GiveBack, phaseBar
    <2>8. CASE /\ Phase(state[k]) = "owned" /\ Phase(state'[k]) = "closed"
               /\ attempt'[k] = attempt[k]
      BY <2>1, <2>3, <2>4, <2>8 DEF Ownership!Close, phaseBar
    <2> QED
      BY <1>3, <2>5, <2>6, <2>7, <2>8, RowStepMaps
  <1>4. CASE \E k \in Jobs : \A j \in Jobs : j # k => SamePhase(j)
    <2>1. PICK k \in Jobs : \A j \in Jobs : j # k => SamePhase(j)
      BY <1>4
    <2>2. CASE SamePhase(k)
      BY <1>2, <2>1, <2>2
    <2>3. CASE ~SamePhase(k)
      BY <1>3, <2>1, <2>3 DEF Ownership!Next
    <2> QED
      BY <2>2, <2>3
  <1> QED
    BY <1>2, <1>4, OneRowMoves

\* THEOREM.  With leases, clocks, workers and errors hidden the queue is
\* JobOwnership: one owner at a time, at most max_attempts hand-outs, closed
\* for good.
THEOREM Refinement == Spec => OwnershipSpec
  <1>1. Init => Ownership!Init
    BY DEF Init, Ownership!Init, Phase
  <1>2. Init => QueueInv /\ BudgetInv
    BY InitQueue, BudgetAssumption DEF Init, BudgetInv, AttemptBudget
  <1>3. QueueInv /\ BudgetInv /\ [Next]_vars => (QueueInv /\ BudgetInv)'
    BY StepQueue, EveryRowStep, StepBudget
  <1>4. QueueInv /\ BudgetInv /\ [Next]_vars => [Ownership!Next]_Ownership!vars
    BY StepMaps DEF Ownership!vars, phaseBar
  <1> QED
    BY <1>1, <1>2, <1>3, <1>4, PTL DEF Spec, OwnershipSpec, Ownership!Spec
=============================================================================
