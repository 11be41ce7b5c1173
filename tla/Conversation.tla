---------------------------- MODULE Conversation ----------------------------
(***************************************************************************)
(* One conversation: POST .../messages behind the Idempotency-Key guard,   *)
(* the serial-turn check of begin_turn, and the answer jobs                *)
(* (archive_answer and investigate), whose answer is committed before, and *)
(* not in, the fenced transaction that finishes the job.                   *)
(*                                                                         *)
(* The queue is JobOwnership, which JobQueue implements; a run is numbered *)
(* by the claim that started it and may outlive its lease.  turn_index is  *)
(* the position in messages, because every insert takes max + 1 under the  *)
(* conversation's row lock.  Each action is one committed transaction.     *)
(***************************************************************************)
EXTENDS Naturals, Sequences, FiniteSets

CONSTANTS
    Keys,          \* Idempotency-Keys: one per turn a client composes or job it
                   \* retries; also the jobs, whose idempotency_key they become
    NoDraft,       \* nothing was composed under the key
    MaxAttempts,   \* jobs.max_attempts of the answer kinds
    MaxSends       \* bound: how often a client sends one POST

ASSUME ConversationAssumption ==
    /\ NoDraft \notin Nat
    /\ MaxAttempts \in Nat \ {0}
    /\ MaxSends \in Nat

VARIABLES
    messages,  \* the messages, in turn_index order
    last,      \* conversations.last_committed_message_id; 0 is NULL
    draft,     \* client: the parent_message_id composed under the key
    sends,     \* client: how often it sent that POST
    admitted,  \* requests past the guard's lookup, not yet past the row lock
    stored,    \* keys whose response the guard stored, not yet expired
    asks,      \* the user message the key's job answers; 0: no such job
    phase,     \* the job: "waiting", "owned" or "closed"
    claims,    \* the job's attempt
    outcome,   \* the state a closed job is in
    pc         \* pc[<<k, n>>]: the n-th run of job k

requestVars == <<draft, sends, admitted, stored>>
jobVars == <<phase, claims, outcome>>
vars == <<messages, last, requestVars, asks, jobVars, pc>>

Runs == 1 .. MaxAttempts
Retryable == {"failed", "cancelled"}   \* _RETRYABLE, without partial

Queue == INSTANCE JobOwnership WITH
    Jobs <- Keys, Budget <- [k \in Keys |-> MaxAttempts]

-----------------------------------------------------------------------------
Init ==
    /\ messages = << >>
    /\ last = 0
    /\ draft = [k \in Keys |-> NoDraft]
    /\ sends = [k \in Keys |-> 0]
    /\ admitted = [k \in Keys |-> 0]
    /\ stored = {}
    /\ asks = [k \in Keys |-> 0]
    /\ Queue!Init
    /\ outcome = [k \in Keys |-> "none"]
    /\ pc = [r \in Keys \X Runs |-> "off"]

\* A client composes a turn on the conversation it sees, under a fresh key.
Compose(k) ==
    /\ draft[k] = NoDraft
    /\ asks[k] = 0
    /\ draft' = [draft EXCEPT ![k] = last]
    /\ UNCHANGED <<messages, last, sends, admitted, stored, asks, jobVars, pc>>

\* The POST, or the client's repetition of it, arrives: the guard looks the
\* key up.  A stored response is replayed, which changes nothing.
Send(k) ==
    /\ draft[k] # NoDraft
    /\ sends[k] < MaxSends
    /\ sends' = [sends EXCEPT ![k] = @ + 1]
    /\ admitted' = [admitted EXCEPT ![k] = IF k \in stored THEN @ ELSE @ + 1]
    /\ UNCHANGED <<messages, last, draft, stored, asks, jobVars, pc>>

Pending(m) == m.role = "user" /\ m.status = "pending"
SlotFree == \A i \in 1 .. Len(messages) : ~Pending(messages[i])

\* Mutants: one of the two checks is missing.
AcceptsAnyParent(k) == SlotFree
AcceptsBusy(k) == draft[k] = last

\* begin_turn's checks, under the conversation's row lock.
Accepts(k) == SlotFree /\ draft[k] = last

\* begin_turn, enqueue and guard.store in the request's transaction; a
\* refused turn rolls back with 409.  An existing job of that key is
\* returned as it is.
BeginTurn(k) ==
    /\ admitted[k] > 0
    /\ admitted' = [admitted EXCEPT ![k] = @ - 1]
    /\ \/ /\ Accepts(k)
          /\ messages' = Append(messages, [role |-> "user", status |-> "pending",
                                           parent |-> draft[k], key |-> k])
          /\ asks' = [asks EXCEPT ![k] = IF @ = 0 THEN Len(messages) + 1 ELSE @]
          /\ stored' = stored \cup {k}
       \/ ~Accepts(k) /\ UNCHANGED <<messages, asks, stored>>
    /\ UNCHANGED <<last, draft, sends, jobVars, pc>>

\* IDEMPOTENCY_TTL: an expired record is treated as absent.
ExpireKey(k) ==
    /\ k \in stored
    /\ stored' = stored \ {k}
    /\ UNCHANGED <<messages, last, draft, sends, admitted, asks, jobVars, pc>>

\* POST /jobs/{id}/retry: a new job with the old input, under a fresh key.
Retry(j, k) ==
    /\ outcome[j] \in Retryable
    /\ draft[k] = NoDraft
    /\ asks[k] = 0
    /\ asks' = [asks EXCEPT ![k] = asks[j]]
    /\ UNCHANGED <<messages, last, requestVars, jobVars, pc>>

-----------------------------------------------------------------------------
(* The runs of an answer job.                                               *)

Owner(k, n) == phase[k] = "owned" /\ claims[k] = n

Moves(k, n, where) == pc' = [pc EXCEPT ![<<k, n>>] = where]

Claim(k) ==
    /\ asks[k] # 0
    /\ Queue!Take(k)
    /\ Moves(k, claims[k] + 1, "composing")
    /\ UNCHANGED <<messages, last, requestVars, asks, outcome>>

\* UPDATE messages SET status = 'ready' WHERE role = 'user' AND pending.
Settled(ms) ==
    [i \in DOMAIN ms |->
        IF Pending(ms[i]) THEN [ms[i] EXCEPT !.status = "ready"] ELSE ms[i]]

\* Mutant: the answer replaces the last message of a busy conversation.
InsertAnswerInPlace(k, n) ==
    /\ pc[<<k, n>>] = "composing"
    /\ messages' = [Settled(messages) EXCEPT ![Len(messages)] =
                          [role |-> "assistant", status |-> "ready",
                           parent |-> last, key |-> k]]
    /\ last' = Len(messages)
    /\ Moves(k, n, "answered")
    /\ UNCHANGED <<requestVars, asks, jobVars>>

\* insert_answer_message in a transaction of its own: nothing asks whether
\* the run still owns the job, or whether the job has answered before.
InsertAnswer(k, n) ==
    /\ pc[<<k, n>>] = "composing"
    /\ messages' = Append(Settled(messages),
                          [role |-> "assistant", status |-> "ready",
                           parent |-> last, key |-> k])
    /\ last' = Len(messages) + 1
    /\ Moves(k, n, "answered")
    /\ UNCHANGED <<requestVars, asks, jobVars>>

\* The fence: only the owner's end of a run closes the job.
Ends(k, n, verdict) ==
    /\ Moves(k, n, "off")
    /\ \/ Owner(k, n) /\ Queue!Close(k) /\ outcome' = [outcome EXCEPT ![k] = verdict]
       \/ ~Owner(k, n) /\ UNCHANGED jobVars
    /\ UNCHANGED <<messages, last, requestVars, asks>>

Finish(k, n) == pc[<<k, n>>] = "answered" /\ Ends(k, n, "succeeded")

\* A failure, the deadline, or an observed cancel request.
Fail(k, n) ==
    /\ pc[<<k, n>>] # "off"
    /\ \E verdict \in Retryable : Ends(k, n, verdict)

\* Crash, shutdown, or the lease found lost: the row is left to the reaper.
Stop(k, n) ==
    /\ pc[<<k, n>>] # "off"
    /\ Moves(k, n, "off")
    /\ UNCHANGED <<messages, last, requestVars, asks, jobVars>>

\* Mutant: the reaper gives up on a job that has no attempt left.
ReclaimOnlyRequeues(k) ==
    /\ Queue!GiveBack(k)
    /\ UNCHANGED <<messages, last, requestVars, asks, outcome, pc>>

\* The lease ran out and the upkeep pass took the row; a run that still
\* believes it owns the job goes on.
Reclaim(k) ==
    /\ \/ Queue!GiveBack(k) /\ UNCHANGED outcome
       \/ /\ claims[k] = MaxAttempts
          /\ Queue!Close(k)
          /\ outcome' = [outcome EXCEPT ![k] = "failed"]
    /\ UNCHANGED <<messages, last, requestVars, asks, pc>>

RunStep(k, n) == InsertAnswer(k, n) \/ Finish(k, n) \/ Fail(k, n) \/ Stop(k, n)

Next ==
    \/ \E k \in Keys :
          Compose(k) \/ Send(k) \/ BeginTurn(k) \/ ExpireKey(k) \/ Claim(k) \/ Reclaim(k)
    \/ \E j, k \in Keys : Retry(j, k)
    \/ \E k \in Keys, n \in Runs : RunStep(k, n)

Spec == Init /\ [][Next]_vars

\* Workers poll; the deadline ends every run; a row whose run is gone loses
\* its lease and is reclaimed.  Nothing is assumed of clients.
Fairness ==
    \A k \in Keys :
        /\ WF_vars(Claim(k))
        /\ WF_vars(Reclaim(k) /\ \A n \in Runs : pc[<<k, n>>] = "off")
        /\ \A n \in Runs : WF_vars(RunStep(k, n))

FairSpec == Spec /\ Fairness

-----------------------------------------------------------------------------
(* Properties.                                                              *)

Messages == [role : {"user", "assistant"}, status : {"pending", "ready"},
             parent : Nat, key : Keys]

\* Every variable has the type its column or field has.
TypeOK ==
    /\ messages \in Seq(Messages)
    /\ last \in Nat
    /\ draft \in [Keys -> Nat \cup {NoDraft}]
    /\ sends \in [Keys -> Nat]
    /\ admitted \in [Keys -> Nat]
    /\ stored \subseteq Keys
    /\ asks \in [Keys -> Nat]
    /\ phase \in [Keys -> {"waiting", "owned", "closed"}]
    /\ claims \in [Keys -> 0 .. MaxAttempts]
    /\ outcome \in [Keys -> {"none", "succeeded"} \cup Retryable]
    /\ pc \in [Keys \X Runs -> {"off", "composing", "answered"}]

\* At most one turn is open, and nothing is ever committed behind it: the
\* open question is the newest message, whichever late or repeated run
\* writes.
PendingIsLast ==
    \A i \in 1 .. Len(messages) : Pending(messages[i]) => i = Len(messages)

\* p is the newest assistant message of ms before position i, or 0.
NewestAnswer(ms, p, i) ==
    /\ \/ p = 0
       \/ p \in 1 .. i - 1 /\ ms[p].role = "assistant"
    /\ \A q \in p + 1 .. i - 1 : ms[q].role = "user"

\* The conversation points at its newest answer, and every message hangs on
\* the newest answer before it, even when a job has answered twice.
AnswerChain ==
    /\ NewestAnswer(messages, last, Len(messages) + 1)
    /\ \A i \in 1 .. Len(messages) : NewestAnswer(messages, messages[i].parent, i)

\* However often a POST is repeated, before or after its key expired and
\* even concurrently, it opens one turn, and the job accepted for it is the
\* job of that turn.
TurnHasItsJob ==
    \A i \in 1 .. Len(messages) :
        messages[i].role = "user" => asks[messages[i].key] = i

\* A job that succeeded has answered: its message is there and the question
\* is settled.
SucceededIsAnswered ==
    \A k \in Keys :
        outcome[k] = "succeeded" =>
            /\ ~Pending(messages[asks[k]])
            /\ \E i \in 1 .. Len(messages) :
                  messages[i].role = "assistant" /\ messages[i].key = k

\* Questions, answers and jobs belong together: the chain of parents, the job
\* of each turn and the answer of each job that succeeded.
TurnsMatch == AnswerChain /\ TurnHasItsJob /\ SucceededIsAnswered

\* The history is append-only: a committed message keeps its place, its
\* content and its parent; a question may only go from pending to ready.
HistoryKept ==
    [][/\ Len(messages') >= Len(messages)
       /\ \A i \in 1 .. Len(messages) :
             \/ messages'[i] = messages[i]
             \/ messages'[i] = [messages[i] EXCEPT !.status = "ready"]]_vars

Open(i) == i <= Len(messages) /\ Pending(messages[i])
Positions == 1 .. (1 + MaxAttempts) * Cardinality(Keys)

\* Every accepted turn is decided: it is answered, or its job ends failed or
\* cancelled, which is what lets a user retry it.
TurnDecided ==
    \A i \in Positions :
        Open(i) ~>
            ~Open(i) \/ \E k \in Keys : asks[k] = i /\ outcome[k] \in Retryable

=============================================================================
