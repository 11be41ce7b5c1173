------------------------- MODULE ConversationProofs -------------------------
(***************************************************************************)
(* Theorems about Conversation for any number of keys, repetitions and     *)
(* runs.  Inv is the inductive invariant; every action either leaves the   *)
(* messages alone, appends a question or appends an answer, and the lemmas *)
(* follow that split.                                                      *)
(***************************************************************************)
EXTENDS Conversation, TLAPS

LEMMA MessageShape ==
    ASSUME messages \in Seq(Messages)
    PROVE  /\ Len(messages) \in Nat
           /\ \A i \in 1 .. Len(messages) :
                 messages[i] \in Messages /\ messages[i].parent \in Nat
  <1>1. \A i \in 1 .. Len(messages) : messages[i] \in Messages
    OBVIOUS
  <1> QED
    BY <1>1 DEF Messages

\* What the settling UPDATE does to a message, and does not.
LEMMA SettledFacts ==
    ASSUME messages \in Seq(Messages)
    PROVE  /\ Settled(messages) \in Seq(Messages)
           /\ Len(Settled(messages)) = Len(messages)
           /\ \A i \in 1 .. Len(messages) :
                 /\ Settled(messages)[i] \in Messages
                 /\ ~Pending(Settled(messages)[i])
                 /\ Settled(messages)[i].role = messages[i].role
                 /\ Settled(messages)[i].parent = messages[i].parent
                 /\ Settled(messages)[i].key = messages[i].key
                 /\ \/ Settled(messages)[i] = messages[i]
                    \/ Settled(messages)[i] = [messages[i] EXCEPT !.status = "ready"]
  <1>1. DOMAIN messages = 1 .. Len(messages) /\ Len(messages) \in Nat
    OBVIOUS
  <1>2. \A i \in 1 .. Len(messages) : messages[i] \in Messages
    OBVIOUS
  <1>3. \A i \in 1 .. Len(messages) :
           /\ Settled(messages)[i] = IF Pending(messages[i])
                                     THEN [messages[i] EXCEPT !.status = "ready"]
                                     ELSE messages[i]
           /\ Settled(messages)[i] \in Messages
    BY <1>1, <1>2 DEF Settled, Messages
  <1>4. Settled(messages) = [i \in 1 .. Len(messages) |-> Settled(messages)[i]]
    BY <1>1 DEF Settled
  <1>5. Settled(messages) \in Seq(Messages) /\ Len(Settled(messages)) = Len(messages)
    BY <1>1, <1>3, <1>4
  <1> QED
    BY <1>2, <1>3, <1>5 DEF Pending, Messages

Question(k) == [role |-> "user", status |-> "pending", parent |-> draft[k], key |-> k]
Answer(k) == [role |-> "assistant", status |-> "ready", parent |-> last, key |-> k]

\* What the two appending actions do to the list.
Asks(k) ==
    /\ Len(messages') = Len(messages) + 1
    /\ messages'[Len(messages) + 1] = Question(k)
    /\ \A i \in 1 .. Len(messages) : messages'[i] = messages[i]

Answers(k) ==
    /\ Len(messages') = Len(messages) + 1
    /\ messages'[Len(messages) + 1] = Answer(k)
    /\ \A i \in 1 .. Len(messages) :
          /\ ~Pending(messages'[i])
          /\ messages'[i].role = messages[i].role
          /\ messages'[i].parent = messages[i].parent
          /\ messages'[i].key = messages[i].key
          /\ \/ messages'[i] = messages[i]
             \/ messages'[i] = [messages[i] EXCEPT !.status = "ready"]

LEMMA AppendAsks ==
    ASSUME messages \in Seq(Messages), NEW k \in Keys, draft[k] \in Nat,
           messages' = Append(messages, Question(k))
    PROVE  Asks(k) /\ messages' \in Seq(Messages)
  <1>1. Question(k) \in Messages
    BY DEF Question, Messages
  <1> QED
    BY <1>1 DEF Asks

LEMMA AppendAnswers ==
    ASSUME messages \in Seq(Messages), last \in Nat, NEW k \in Keys,
           messages' = Append(Settled(messages), Answer(k))
    PROVE  Answers(k) /\ messages' \in Seq(Messages)
  <1>1. Answer(k) \in Messages
    BY DEF Answer, Messages
  <1>2. /\ Settled(messages) \in Seq(Messages)
        /\ Len(Settled(messages)) = Len(messages)
        /\ Len(messages) \in Nat
    BY SettledFacts
  <1>3. /\ Len(messages') = Len(messages) + 1
        /\ messages'[Len(messages) + 1] = Answer(k)
        /\ \A i \in 1 .. Len(messages) : messages'[i] = Settled(messages)[i]
        /\ messages' \in Seq(Messages)
    BY <1>1, <1>2
  <1> QED
    BY <1>3, SettledFacts DEF Answers

-----------------------------------------------------------------------------
(* The inductive invariant.                                                 *)

\* A settled question lies before the newest answer.
SettledBehind ==
    \A i \in 1 .. Len(messages) :
        messages[i].role = "user" /\ ~Pending(messages[i]) => i < last

\* What a key stands for: requests under way carry its draft, and its job
\* asks the question posted under it, unless it retries another's.
KeyInv ==
    \A k \in Keys :
        /\ admitted[k] > 0 => draft[k] # NoDraft
        /\ asks[k] # 0 =>
              /\ asks[k] \in 1 .. Len(messages)
              /\ messages[asks[k]].role = "user"
              /\ draft[k] # NoDraft =>
                    messages[asks[k]].key = k /\ messages[asks[k]].parent = draft[k]

Answered(k) ==
    /\ asks[k] # 0
    /\ ~Pending(messages[asks[k]])
    /\ \E i \in 1 .. Len(messages) :
          messages[i].role = "assistant" /\ messages[i].key = k

\* Why a succeeded job is answered: its run committed the answer first.
RunInv ==
    \A k \in Keys :
        /\ outcome[k] = "succeeded" => Answered(k)
        /\ \A n \in Runs : /\ pc[<<k, n>>] # "off" => asks[k] # 0
                           /\ pc[<<k, n>>] = "answered" => Answered(k)

Inv == /\ TypeOK /\ PendingIsLast /\ AnswerChain /\ TurnHasItsJob
       /\ SettledBehind /\ KeyInv /\ RunInv

LEMMA InitInv == Init => Inv
  BY ConversationAssumption
  DEF Init, Inv, TypeOK, PendingIsLast, AnswerChain, NewestAnswer, TurnHasItsJob,
      SettledBehind, KeyInv, RunInv, Runs, Queue!Init, Messages

LEMMA StepType == TypeOK /\ [Next]_vars => TypeOK'
  <1> SUFFICES ASSUME TypeOK, [Next]_vars
               PROVE  TypeOK'
    OBVIOUS
  <1> USE DEF TypeOK
  <1>1. ASSUME NEW k \in Keys, Compose(k)
        PROVE  TypeOK'
    BY <1>1 DEF Compose, jobVars
  <1>2. ASSUME NEW k \in Keys, Send(k)
        PROVE  TypeOK'
    BY <1>2 DEF Send, jobVars
  <1>3. ASSUME NEW k \in Keys, BeginTurn(k)
        PROVE  TypeOK'
    <2>1. admitted' \in [Keys -> Nat] /\ stored' \subseteq Keys
      BY <1>3 DEF BeginTurn
    <2>2. asks' \in [Keys -> Nat]
      <3>1. Len(messages) + 1 \in Nat
        OBVIOUS
      <3> QED
        BY <1>3, <3>1 DEF BeginTurn
    <2>3. messages' \in Seq(Messages)
      <3>1. CASE messages' = Append(messages, Question(k)) /\ draft[k] = last
        BY <3>1, AppendAsks
      <3> QED
        BY <1>3, <3>1 DEF BeginTurn, Accepts, Question
    <2> QED
      BY <1>3, <2>1, <2>2, <2>3 DEF BeginTurn, jobVars
  <1>4. ASSUME NEW k \in Keys, ExpireKey(k)
        PROVE  TypeOK'
    BY <1>4 DEF ExpireKey, jobVars
  <1>5. ASSUME NEW j \in Keys, NEW k \in Keys, Retry(j, k)
        PROVE  TypeOK'
    BY <1>5 DEF Retry, jobVars, requestVars
  <1>6. ASSUME NEW k \in Keys, Claim(k)
        PROVE  TypeOK'
    <2>1. /\ claims[k] \in 0 .. MaxAttempts
          /\ claims[k] < MaxAttempts
          /\ claims' = [claims EXCEPT ![k] = claims[k] + 1]
          /\ phase' = [phase EXCEPT ![k] = "owned"]
      BY <1>6 DEF Claim, Queue!Take
    <2>2. claims[k] + 1 \in 0 .. MaxAttempts
      BY <2>1, ConversationAssumption
    <2>3. /\ pc' = [pc EXCEPT ![<<k, claims[k] + 1>>] = "composing"]
          /\ UNCHANGED <<messages, last, requestVars, asks, outcome>>
      BY <1>6 DEF Claim, Moves
    <2> QED
      BY <2>1, <2>2, <2>3 DEF requestVars
  <1>7. ASSUME NEW k \in Keys, NEW n \in Runs, InsertAnswer(k, n)
        PROVE  TypeOK'
    <2>1. messages' \in Seq(Messages)
      BY <1>7, AppendAnswers DEF InsertAnswer, Answer
    <2>2. Len(messages) + 1 \in Nat
      OBVIOUS
    <2> QED
      BY <1>7, <2>1, <2>2 DEF InsertAnswer, Moves, requestVars, jobVars
  <1>8. ASSUME NEW k \in Keys, NEW n \in Runs,
               NEW verdict \in {"succeeded"} \cup Retryable, Ends(k, n, verdict)
        PROVE  TypeOK'
    BY <1>8 DEF Ends, Moves, requestVars, jobVars, Queue!Close
  <1>9. ASSUME NEW k \in Keys, NEW n \in Runs, Stop(k, n)
        PROVE  TypeOK'
    BY <1>9 DEF Stop, Moves, requestVars, jobVars
  <1>10. ASSUME NEW k \in Keys, Reclaim(k)
         PROVE  TypeOK'
    BY <1>10 DEF Reclaim, requestVars, Queue!GiveBack, Queue!Close, Retryable
  <1>11. CASE UNCHANGED vars
    BY <1>11 DEF vars, requestVars, jobVars
  <1> QED
    BY <1>1, <1>2, <1>3, <1>4, <1>5, <1>6, <1>7, <1>8, <1>9, <1>10, <1>11
    DEF Next, RunStep, Finish, Fail

-----------------------------------------------------------------------------
(* The list and the jobs' view of it.                                       *)

\* The newest answer before a position depends only on the roles before it.
LEMMA ChainKept ==
    ASSUME NEW ms, NEW ns, NEW p \in Nat, NEW i \in Nat,
           \A q \in 1 .. i - 1 : ns[q].role = ms[q].role,
           NewestAnswer(ms, p, i)
    PROVE  NewestAnswer(ns, p, i)
  BY DEF NewestAnswer

\* The invariants that speak of the list only through what an unchanged or
\* extended list keeps.
ListInv == PendingIsLast /\ AnswerChain /\ SettledBehind

LEMMA QuietList ==
    ASSUME ListInv, UNCHANGED <<messages, last>>
    PROVE  ListInv'
  BY DEF ListInv, PendingIsLast, AnswerChain, SettledBehind, NewestAnswer, Pending

LEMMA QuestionList ==
    ASSUME TypeOK, ListInv, NEW k \in Keys, Asks(k), SlotFree, draft[k] = last,
           last' = last
    PROVE  ListInv'
  <1>1. /\ Len(messages) \in Nat
        /\ last \in Nat
        /\ \A i \in 1 .. Len(messages) : messages[i].parent \in Nat
    BY MessageShape DEF TypeOK
  <1>2. /\ Pending(messages'[Len(messages) + 1])
        /\ messages'[Len(messages) + 1].role = "user"
        /\ messages'[Len(messages) + 1].parent = last
    BY DEF Asks, Question, Pending
  <1>3. PendingIsLast'
    BY <1>1, <1>2 DEF Asks, SlotFree, PendingIsLast, Pending
  <1>4. SettledBehind'
    BY <1>1, <1>2 DEF Asks, ListInv, SettledBehind, Pending
  <1>5. NewestAnswer(messages', last, Len(messages) + 1)
    <2>1. NewestAnswer(messages, last, Len(messages) + 1)
      BY DEF ListInv, AnswerChain
    <2>2. \A q \in 1 .. (Len(messages) + 1) - 1 : messages'[q].role = messages[q].role
      BY <1>1 DEF Asks
    <2> QED
      BY <1>1, <2>1, <2>2, ChainKept
  <1>6. NewestAnswer(messages', last', Len(messages') + 1)
    BY <1>1, <1>2, <1>5 DEF Asks, NewestAnswer
  <1>7. ASSUME NEW i \in 1 .. Len(messages)
        PROVE  NewestAnswer(messages', messages'[i].parent, i)
    <2>1. NewestAnswer(messages, messages[i].parent, i)
      BY DEF ListInv, AnswerChain
    <2>2. \A q \in 1 .. i - 1 : messages'[q].role = messages[q].role
      BY <1>1 DEF Asks
    <2>3. messages'[i].parent = messages[i].parent
      BY DEF Asks
    <2> QED
      BY <1>1, <2>1, <2>2, <2>3, ChainKept
  <1>8. NewestAnswer(messages', messages'[Len(messages) + 1].parent, Len(messages) + 1)
    BY <1>2, <1>5
  <1> QED
    BY <1>1, <1>3, <1>4, <1>6, <1>7, <1>8 DEF Asks, ListInv, AnswerChain

LEMMA AnswerList ==
    ASSUME TypeOK, ListInv, NEW k \in Keys, Answers(k), last' = Len(messages) + 1
    PROVE  ListInv'
  <1>1. /\ Len(messages) \in Nat
        /\ last \in Nat
        /\ \A i \in 1 .. Len(messages) : messages[i].parent \in Nat
    BY MessageShape DEF TypeOK
  <1>2. /\ ~Pending(messages'[Len(messages) + 1])
        /\ messages'[Len(messages) + 1].role = "assistant"
        /\ messages'[Len(messages) + 1].parent = last
    BY DEF Answers, Answer, Pending
  <1>8. /\ Len(messages') = Len(messages) + 1
        /\ \A i \in 1 .. Len(messages) : ~Pending(messages'[i])
        /\ \A i \in 1 .. Len(messages) : messages'[i].role = messages[i].role
    BY DEF Answers
  <1>3. PendingIsLast'
    BY <1>1, <1>2, <1>8 DEF PendingIsLast
  <1>4. SettledBehind'
    BY <1>1, <1>2 DEF Answers, SettledBehind
  <1>5. NewestAnswer(messages', last', Len(messages') + 1)
    BY <1>1, <1>2 DEF Answers, NewestAnswer
  <1>6. ASSUME NEW i \in 1 .. Len(messages)
        PROVE  NewestAnswer(messages', messages'[i].parent, i)
    <2>1. NewestAnswer(messages, messages[i].parent, i)
      BY DEF ListInv, AnswerChain
    <2>2. \A q \in 1 .. i - 1 : messages'[q].role = messages[q].role
      BY <1>1, <1>8
    <2>3. messages'[i].parent = messages[i].parent
      BY DEF Answers
    <2> QED
      BY <1>1, <2>1, <2>2, <2>3, ChainKept
  <1>7. NewestAnswer(messages', last, Len(messages) + 1)
    <2>1. NewestAnswer(messages, last, Len(messages) + 1)
      BY DEF ListInv, AnswerChain
    <2>2. \A q \in 1 .. (Len(messages) + 1) - 1 : messages'[q].role = messages[q].role
      BY <1>1, <1>8
    <2> QED
      BY <1>1, <2>1, <2>2, ChainKept
  <1> QED
    BY <1>1, <1>2, <1>3, <1>4, <1>5, <1>6, <1>7 DEF Answers, ListInv, AnswerChain

\* The two ways a step can extend the list, with what goes with them.
Accepted(k) ==
    /\ admitted[k] > 0 /\ Accepts(k)
    /\ Asks(k)
    /\ admitted' = [admitted EXCEPT ![k] = @ - 1]
    /\ asks' = [asks EXCEPT ![k] = IF @ = 0 THEN Len(messages) + 1 ELSE @]
    /\ UNCHANGED <<last, draft, outcome, pc>>

AnswerStep(k, n) ==
    /\ pc[<<k, n>>] = "composing"
    /\ Answers(k)
    /\ last' = Len(messages) + 1
    /\ pc' = [pc EXCEPT ![<<k, n>>] = "answered"]
    /\ UNCHANGED <<draft, admitted, asks, outcome>>

LEMMA StepShape ==
    ASSUME TypeOK, [Next]_vars
    PROVE  \/ UNCHANGED <<messages, last>>
           \/ \E k \in Keys : Accepted(k)
           \/ \E k \in Keys, n \in Runs : AnswerStep(k, n)
  <1>1. ASSUME NEW k \in Keys, BeginTurn(k)
        PROVE  UNCHANGED <<messages, last>> \/ Accepted(k)
    <2>1. CASE Accepts(k) /\ messages' = Append(messages, Question(k))
      <3>1. draft[k] \in Nat /\ messages \in Seq(Messages)
        BY <2>1 DEF Accepts, TypeOK
      <3>2. Asks(k)
        BY <2>1, <3>1, AppendAsks
      <3> QED
        BY <1>1, <2>1, <3>2 DEF BeginTurn, Accepted, jobVars
    <2> QED
      BY <1>1, <2>1 DEF BeginTurn, Question
  <1>2. ASSUME NEW k \in Keys, NEW n \in Runs, InsertAnswer(k, n)
        PROVE  AnswerStep(k, n)
    <2>1. Answers(k)
      BY <1>2, AppendAnswers DEF InsertAnswer, Answer, TypeOK
    <2> QED
      BY <1>2, <2>1 DEF InsertAnswer, AnswerStep, Moves, requestVars, jobVars
  <1> QED
    BY <1>1, <1>2
    DEF Next, RunStep, Compose, Send, ExpireKey, Retry, Claim, Finish, Fail, Ends,
        Stop, Reclaim, vars

LEMMA StepList ==
    ASSUME TypeOK, ListInv, [Next]_vars
    PROVE  ListInv'
  <1>1. ASSUME NEW k \in Keys, Accepted(k)
        PROVE  ListInv'
    BY <1>1, QuestionList DEF Accepted, Accepts
  <1>2. ASSUME NEW k \in Keys, NEW n \in Runs, AnswerStep(k, n)
        PROVE  ListInv'
    BY <1>2, AnswerList DEF AnswerStep
  <1> QED
    BY <1>1, <1>2, StepShape, QuietList

-----------------------------------------------------------------------------
(* Keys and turns.                                                          *)

KeysInv == KeyInv /\ TurnHasItsJob

\* A turn is accepted only for a key that has no job yet: the first turn of
\* the key would still be pending, or answered behind the draft's parent.
LEMMA FreshTurn ==
    ASSUME TypeOK, ListInv, KeysInv, NEW k \in Keys, admitted[k] > 0, Accepts(k)
    PROVE  asks[k] = 0
  <1> SUFFICES ASSUME asks[k] # 0
               PROVE  FALSE
    OBVIOUS
  <1>1. /\ asks[k] \in 1 .. Len(messages)
        /\ messages[asks[k]].role = "user"
        /\ messages[asks[k]].parent = last
    BY DEF KeysInv, KeyInv, Accepts
  <1>2. asks[k] < last
    BY <1>1 DEF Accepts, SlotFree, ListInv, SettledBehind
  <1>3. NewestAnswer(messages, last, asks[k])
    BY <1>1 DEF ListInv, AnswerChain
  <1>4. last \in Nat /\ Len(messages) \in Nat
    BY MessageShape DEF TypeOK
  <1> QED
    BY <1>1, <1>2, <1>3, <1>4 DEF NewestAnswer

LEMMA StepKeys ==
    ASSUME TypeOK, ListInv, KeysInv, [Next]_vars
    PROVE  KeysInv'
  <1> USE DEF KeysInv, KeyInv, TurnHasItsJob
  <1>0. Len(messages) \in Nat
    BY MessageShape DEF TypeOK
  <1>1. ASSUME NEW k \in Keys, Accepted(k)
        PROVE  KeysInv'
    <2>1. asks[k] = 0
      BY <1>1, FreshTurn DEF Accepted
    <2>2. /\ asks'[k] = Len(messages) + 1
          /\ \A j \in Keys : j # k => asks'[j] = asks[j] /\ admitted'[j] = admitted[j]
          /\ draft' = draft
          /\ draft[k] # NoDraft
      BY <1>1, <2>1 DEF Accepted, TypeOK
    <2>3. /\ Len(messages') = Len(messages) + 1
          /\ \A i \in 1 .. Len(messages) : messages'[i] = messages[i]
          /\ messages'[Len(messages) + 1].role = "user"
          /\ messages'[Len(messages) + 1].parent = draft[k]
          /\ messages'[Len(messages) + 1].key = k
      BY <1>1 DEF Accepted, Asks, Question
    <2>4. TurnHasItsJob'
      <3> SUFFICES ASSUME NEW i \in 1 .. Len(messages) + 1, messages'[i].role = "user"
                   PROVE  asks'[messages'[i].key] = i
        BY <2>3
      <3>1. CASE i = Len(messages) + 1
        BY <2>2, <2>3, <3>1
      <3>2. CASE i \in 1 .. Len(messages)
        <4>1. messages[i].key \in Keys
          BY <3>2, MessageShape DEF TypeOK, Messages
        <4>2. asks[messages[i].key] = i /\ i # 0
          BY <2>3, <3>2
        <4> QED
          BY <2>1, <2>2, <2>3, <3>2, <4>1, <4>2
      <3> QED
        BY <1>0, <3>1, <3>2
    <2>5. KeyInv'
      BY <1>0, <2>1, <2>2, <2>3
    <2> QED
      BY <2>4, <2>5
  <1>2. ASSUME NEW k \in Keys, NEW n \in Runs, AnswerStep(k, n)
        PROVE  KeysInv'
    <2>1. /\ Len(messages') = Len(messages) + 1
          /\ messages'[Len(messages) + 1].role = "assistant"
          /\ \A i \in 1 .. Len(messages) : /\ messages'[i].role = messages[i].role
                                           /\ messages'[i].parent = messages[i].parent
                                           /\ messages'[i].key = messages[i].key
          /\ UNCHANGED <<draft, admitted, asks>>
      <3>1. Answers(k) /\ UNCHANGED <<draft, admitted, asks>>
        BY <1>2 DEF AnswerStep
      <3>2. messages'[Len(messages) + 1].role = "assistant"
        BY <3>1 DEF Answers, Answer
      <3>3. /\ Len(messages') = Len(messages) + 1
            /\ \A i \in 1 .. Len(messages) : /\ messages'[i].role = messages[i].role
                                             /\ messages'[i].parent = messages[i].parent
                                             /\ messages'[i].key = messages[i].key
        BY <3>1 DEF Answers
      <3> QED
        BY <3>1, <3>2, <3>3
    <2> QED
      BY <1>0, <2>1
  <1>3. ASSUME NEW k \in Keys, Compose(k)
        PROVE  KeysInv'
    BY <1>3, ConversationAssumption DEF Compose, TypeOK
  <1>4. ASSUME NEW k \in Keys, Send(k)
        PROVE  KeysInv'
    BY <1>4 DEF Send, TypeOK
  <1>5. ASSUME NEW k \in Keys, BeginTurn(k), UNCHANGED <<messages, last>>
        PROVE  KeysInv'
    <2>1. ~Accepts(k)
      BY <1>0, <1>5, AppendAsks DEF BeginTurn, Accepts, Asks, Question, TypeOK
    <2>2. /\ UNCHANGED <<messages, last, draft, asks>>
          /\ admitted' = [admitted EXCEPT ![k] = @ - 1]
          /\ admitted[k] > 0
      BY <1>5, <2>1 DEF BeginTurn
    <2> QED
      BY <2>2 DEF TypeOK
  <1>6. ASSUME NEW j \in Keys, NEW k \in Keys, Retry(j, k)
        PROVE  KeysInv'
    <2>1. /\ asks[k] = 0 /\ draft[k] = NoDraft
          /\ asks' = [asks EXCEPT ![k] = asks[j]]
          /\ UNCHANGED <<messages, draft, admitted>>
      BY <1>6 DEF Retry, requestVars
    <2> QED
      BY <1>0, <2>1 DEF TypeOK
  <1>7. ASSUME UNCHANGED <<messages, draft, admitted, asks>>
        PROVE  KeysInv'
    BY <1>7
  <1>8. ASSUME UNCHANGED <<messages, last>>
        PROVE  KeysInv'
    <2>1. ASSUME NEW k \in Keys, NEW n \in Runs, InsertAnswer(k, n)
          PROVE  UNCHANGED <<messages, draft, admitted, asks>>
      BY <1>8, <2>1 DEF InsertAnswer, requestVars
    <2> QED
      BY <1>3, <1>4, <1>5, <1>6, <1>7, <1>8, <2>1
      DEF Next, RunStep, ExpireKey, Claim, Finish, Fail, Ends, Stop, Reclaim, vars,
          requestVars
  <1> QED
    BY <1>1, <1>2, <1>8, StepShape

-----------------------------------------------------------------------------
(* Succeeded jobs have answered.                                            *)

\* Once answered, always answered: a question is settled for good.
LEMMA AnsweredKept ==
    ASSUME TypeOK, ListInv, KeysInv, [Next]_vars, NEW k \in Keys, Answered(k)
    PROVE  Answered(k)'
  <1>0. Len(messages) \in Nat
    BY MessageShape DEF TypeOK
  <1>1. asks[k] \in 1 .. Len(messages)
    BY DEF Answered, KeysInv, KeyInv
  <1>2. asks'[k] = asks[k]
    <2>1. ASSUME NEW j \in Keys, BeginTurn(j)
          PROVE  asks'[k] = asks[k]
      BY <1>1, <2>1 DEF BeginTurn, TypeOK
    <2>2. ASSUME NEW i \in Keys, NEW j \in Keys, Retry(i, j)
          PROVE  asks'[k] = asks[k]
      BY <1>1, <2>2 DEF Retry, TypeOK
    <2> QED
      BY <2>1, <2>2
      DEF Next, RunStep, Compose, Send, ExpireKey, Claim, InsertAnswer, Finish, Fail,
          Ends, Stop, Reclaim, vars
  <1>3. PICK i \in 1 .. Len(messages) :
           messages[i].role = "assistant" /\ messages[i].key = k
    BY DEF Answered
  <1>4. CASE UNCHANGED <<messages, last>>
    BY <1>2, <1>4 DEF Answered, Pending
  <1>5. ASSUME NEW j \in Keys, Accepted(j)
        PROVE  Answered(k)'
    <2>1. /\ Len(messages') = Len(messages) + 1
          /\ \A q \in 1 .. Len(messages) : messages'[q] = messages[q]
      BY <1>5 DEF Accepted, Asks
    <2> QED
      BY <1>0, <1>1, <1>2, <1>3, <2>1 DEF Answered, Pending
  <1>6. ASSUME NEW j \in Keys, NEW n \in Runs, AnswerStep(j, n)
        PROVE  Answered(k)'
    <2>1. Answers(j)
      BY <1>6 DEF AnswerStep
    <2>2. /\ Len(messages') = Len(messages) + 1
          /\ \A q \in 1 .. Len(messages) : /\ ~Pending(messages'[q])
                                           /\ messages'[q].role = messages[q].role
                                           /\ messages'[q].key = messages[q].key
      BY <2>1 DEF Answers
    <2>3. i \in 1 .. Len(messages') /\ ~Pending(messages'[asks[k]])
      BY <1>0, <1>1, <2>2
    <2> QED
      BY <1>1, <1>2, <1>3, <2>2, <2>3 DEF Answered, Pending
  <1> QED
    BY <1>4, <1>5, <1>6, StepShape

\* The run that inserts the answer makes its job answered.
LEMMA AnswerAnswers ==
    ASSUME TypeOK, KeysInv, NEW k \in Keys, NEW n \in Runs, AnswerStep(k, n),
           asks[k] # 0
    PROVE  Answered(k)'
  <1>0. Len(messages) \in Nat
    BY MessageShape DEF TypeOK
  <1>1. asks[k] \in 1 .. Len(messages) /\ asks' = asks /\ Answers(k)
    BY DEF KeysInv, KeyInv, AnswerStep
  <1>2. /\ Len(messages') = Len(messages) + 1
        /\ ~Pending(messages'[asks[k]])
    BY <1>1 DEF Answers
  <1>3. /\ messages'[Len(messages) + 1].role = "assistant"
        /\ messages'[Len(messages) + 1].key = k
    BY <1>1 DEF Answers, Answer
  <1> QED
    BY <1>0, <1>1, <1>2, <1>3 DEF Answered, Pending

LEMMA StepRuns ==
    ASSUME TypeOK, ListInv, KeysInv, RunInv, [Next]_vars
    PROVE  RunInv'
  <1>1. \A k \in Keys : asks[k] # 0 => asks'[k] # 0
    <2>1. ASSUME NEW j \in Keys, BeginTurn(j)
          PROVE  \A k \in Keys : asks[k] # 0 => asks'[k] # 0
      BY <2>1 DEF BeginTurn, TypeOK
    <2>2. ASSUME NEW i \in Keys, NEW j \in Keys, Retry(i, j)
          PROVE  \A k \in Keys : asks[k] # 0 => asks'[k] # 0
      BY <2>2 DEF Retry, TypeOK
    <2> QED
      BY <2>1, <2>2
      DEF Next, RunStep, Compose, Send, ExpireKey, Claim, InsertAnswer, Finish, Fail,
          Ends, Stop, Reclaim, vars
  <1>2. ASSUME \A k \in Keys : outcome'[k] = "succeeded" =>
                   outcome[k] = "succeeded" \/ Answered(k),
               \A k \in Keys, n \in Runs :
                   /\ pc'[<<k, n>>] # "off" => pc[<<k, n>>] # "off" \/ asks[k] # 0
                   /\ pc'[<<k, n>>] = "answered" =>
                         pc[<<k, n>>] = "answered" \/ Answered(k)'
        PROVE  RunInv'
    BY <1>1, <1>2, AnsweredKept DEF RunInv
  <1>3. ASSUME UNCHANGED <<outcome, pc>>
        PROVE  RunInv'
    BY <1>2, <1>3
  <1>4. ASSUME NEW k \in Keys, Claim(k)
        PROVE  RunInv'
    <2>1. /\ asks[k] # 0
          /\ pc' = [pc EXCEPT ![<<k, claims[k] + 1>>] = "composing"]
          /\ outcome' = outcome
      BY <1>4 DEF Claim, Moves
    <2> QED
      BY <1>2, <2>1 DEF TypeOK
  <1>5. ASSUME NEW k \in Keys, NEW n \in Runs, InsertAnswer(k, n)
        PROVE  RunInv'
    <2>1. AnswerStep(k, n)
      BY <1>5, AppendAnswers
      DEF InsertAnswer, AnswerStep, Answer, Moves, requestVars, jobVars, TypeOK
    <2>2. asks[k] # 0
      BY <1>5 DEF InsertAnswer, RunInv
    <2>3. Answered(k)'
      BY <2>1, <2>2, AnswerAnswers
    <2> QED
      BY <1>2, <2>1, <2>2, <2>3 DEF AnswerStep, TypeOK
  <1>6. ASSUME NEW k \in Keys, NEW n \in Runs, NEW verdict, Ends(k, n, verdict),
               verdict = "succeeded" => Answered(k)
        PROVE  RunInv'
    BY <1>2, <1>6 DEF Ends, Moves, jobVars, TypeOK
  <1>7. ASSUME NEW k \in Keys, NEW n \in Runs, Stop(k, n)
        PROVE  RunInv'
    BY <1>2, <1>7 DEF Stop, Moves, jobVars, TypeOK
  <1>8. ASSUME NEW k \in Keys, Reclaim(k)
        PROVE  RunInv'
    BY <1>2, <1>8 DEF Reclaim, TypeOK
  <1>9. ASSUME NEW k \in Keys, NEW n \in Runs, Finish(k, n)
        PROVE  RunInv'
    BY <1>6, <1>9 DEF Finish, RunInv
  <1>10. ASSUME NEW k \in Keys, NEW n \in Runs, Fail(k, n)
         PROVE  RunInv'
    BY <1>6, <1>10 DEF Fail, Retryable
  <1> QED
    BY <1>3, <1>4, <1>5, <1>7, <1>8, <1>9, <1>10
    DEF Next, RunStep, Compose, Send, BeginTurn, ExpireKey, Retry, jobVars, vars

-----------------------------------------------------------------------------
(* The theorems.                                                            *)

LEMMA StepInv == Inv /\ [Next]_vars => Inv'
  BY StepType, StepList, StepKeys, StepRuns DEF Inv, ListInv, KeysInv

\* THEOREM.  Turns are serial: one question is open at a time and it is the
\* newest message, the messages form one chain of answers, a repeated POST
\* opens one turn, and a succeeded job has answered.
THEOREM SerialTurns ==
    Spec => [](PendingIsLast /\ AnswerChain /\ TurnHasItsJob /\ SucceededIsAnswered)
  <1>1. Inv => PendingIsLast /\ AnswerChain /\ TurnHasItsJob /\ SucceededIsAnswered
    BY DEF Inv, RunInv, Answered, SucceededIsAnswered
  <1> QED
    BY InitInv, StepInv, <1>1, PTL DEF Spec

\* THEOREM.  Questions, jobs and answers match: each message answers the one
\* before it, a key that was accepted has the job of its turn, and a job that
\* succeeded has answered.
THEOREM TurnsMatchJobs == Spec => []TurnsMatch
  <1> QED
    BY SerialTurns, PTL DEF TurnsMatch

\* THEOREM.  The history is append-only.
THEOREM HistoryAppendOnly == Spec => HistoryKept
  <1>1. Inv /\ [Next]_vars =>
          /\ Len(messages') >= Len(messages)
          /\ \A i \in 1 .. Len(messages) :
                \/ messages'[i] = messages[i]
                \/ messages'[i] = [messages[i] EXCEPT !.status = "ready"]
    <2> SUFFICES ASSUME TypeOK, [Next]_vars
                 PROVE  /\ Len(messages') >= Len(messages)
                        /\ \A i \in 1 .. Len(messages) :
                              \/ messages'[i] = messages[i]
                              \/ messages'[i] = [messages[i] EXCEPT !.status = "ready"]
      BY DEF Inv
    <2>1. Len(messages) \in Nat
      BY MessageShape DEF TypeOK
    <2>2. ASSUME NEW k \in Keys, Asks(k)
          PROVE  /\ Len(messages') >= Len(messages)
                 /\ \A i \in 1 .. Len(messages) : messages'[i] = messages[i]
      BY <2>1, <2>2 DEF Asks
    <2>3. ASSUME NEW k \in Keys, Answers(k)
          PROVE  /\ Len(messages') >= Len(messages)
                 /\ \A i \in 1 .. Len(messages) :
                       \/ messages'[i] = messages[i]
                       \/ messages'[i] = [messages[i] EXCEPT !.status = "ready"]
      BY <2>1, <2>3 DEF Answers
    <2>4. CASE UNCHANGED <<messages, last>>
      BY <2>1, <2>4
    <2> QED
      BY <2>2, <2>3, <2>4, StepShape DEF Accepted, AnswerStep
  <1> QED
    BY <1>1, InitInv, StepInv, PTL DEF Spec, HistoryKept
=============================================================================
