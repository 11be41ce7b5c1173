---------------------------- MODULE EventStream -----------------------------
(***************************************************************************)
(* One client following one job over server-sent events (api/sse.py).      *)
(*                                                                         *)
(* The job's side is what JobQueue commits: events, numbered 1, 2, ... in  *)
(* commit order because every writer holds the row's lock, until the job   *)
(* is closed for good.  The generator reads in short READ COMMITTED        *)
(* transactions whose two statements see two snapshots, so other commits   *)
(* may fall between them.  The connection may break at any time and loses  *)
(* what is in flight; the client then sends the last id it received.       *)
(***************************************************************************)
EXTENDS Naturals, Sequences

CONSTANTS
    BatchLimit,    \* sse_stream's batch_limit
    MaxEvents,     \* bound: events of the job
    MaxConnects    \* bound: how often the client connects

ASSUME StreamAssumption ==
    /\ BatchLimit \in Nat \ {0}
    /\ MaxEvents \in Nat
    /\ MaxConnects \in Nat

VARIABLES
    log,       \* the committed events are those of seq 1 .. log
    active,    \* the job is in no terminal state
    pc,        \* generator: "gone", "reading", "checking" or "done"
    current,   \* generator: the seq of the last event it yielded
    batch,     \* generator: the seqs events_after returned
    wire,      \* seqs yielded and not yet received
    connects,  \* client: how often it connected
    got,       \* client: the seqs it received
    ended      \* client: it received stream_end

jobVars == <<log, active>>
serverVars == <<pc, current, batch>>
clientVars == <<connects, got, ended>>
vars == <<jobVars, serverVars, wire, clientVars>>

-----------------------------------------------------------------------------
Init ==
    /\ log = 0
    /\ active = TRUE
    /\ pc = "gone"
    /\ current = 0
    /\ batch = << >>
    /\ wire = << >>
    /\ connects = 0
    /\ got = << >>
    /\ ended = FALSE

\* append_event in any transaction that leaves the job open.
Announce ==
    /\ active /\ log < MaxEvents
    /\ log' = log + 1
    /\ UNCHANGED <<active, serverVars, wire, clientVars>>

\* A finish, a final failure or a cancel: the last event and the terminal
\* state in one transaction.
CloseAnnounced ==
    /\ active /\ log < MaxEvents
    /\ log' = log + 1
    /\ active' = FALSE
    /\ UNCHANGED <<serverVars, wire, clientVars>>

\* reap_expired, out of attempts: the state alone.
CloseSilently ==
    /\ active
    /\ active' = FALSE
    /\ UNCHANGED <<log, serverVars, wire, clientVars>>

-----------------------------------------------------------------------------
\* _last_event_id; without the header the stream starts from 0.
LastEventId == IF got = << >> THEN 0 ELSE got[Len(got)]

\* earliest_seq: nothing prunes job_events, so the first event stays.
EarliestSeq == IF log = 0 THEN 0 ELSE 1

CursorExpired == LastEventId + 1 < EarliestSeq

\* Mutant: the new stream resumes where the old generator had got to.
ConnectAtServer ==
    /\ pc = "gone" /\ ~ended /\ connects < MaxConnects /\ ~CursorExpired
    /\ connects' = connects + 1
    /\ pc' = "reading"
    /\ UNCHANGED <<jobVars, current, batch, wire, got, ended>>

\* GET /jobs/{id}/events: the handshake, and generate() up to its loop.
Connect ==
    /\ pc = "gone"
    /\ ~ended
    /\ connects < MaxConnects
    /\ ~CursorExpired
    /\ connects' = connects + 1
    /\ pc' = "reading"
    /\ current' = LastEventId
    /\ batch' = << >>
    /\ UNCHANGED <<jobVars, wire, got, ended>>

\* list_events_after: seq > after, ascending, limited.
EventsAfter(after) ==
    LET n == IF log - after < BatchLimit THEN log - after ELSE BatchLimit
    IN  [i \in 1 .. n |-> after + i]

ReadEvents ==
    /\ pc = "reading"
    /\ batch' = EventsAfter(current)
    /\ pc' = "checking"
    /\ UNCHANGED <<jobVars, current, wire, clientVars>>

\* Mutant: only a batch can end the stream.
EndsWithBatch == ~active /\ batch # << >>

\* not active and not batch
EndsStream == ~active /\ batch = << >>

\* job_is_active, then the batch is yielded, and stream_end or the next poll.
CheckActive ==
    /\ pc = "checking"
    /\ wire' = wire \o batch
    /\ current' = current + Len(batch)
    /\ batch' = << >>
    /\ pc' = IF EndsStream THEN "done" ELSE "reading"
    /\ UNCHANGED <<jobVars, clientVars>>

\* The client receives the next event ...
Receive ==
    /\ wire # << >>
    /\ got' = Append(got, Head(wire))
    /\ wire' = Tail(wire)
    /\ UNCHANGED <<jobVars, serverVars, connects, ended>>

\* ... or, behind the last one, stream_end.
ReceiveEnd ==
    /\ pc = "done"
    /\ wire = << >>
    /\ ended' = TRUE
    /\ pc' = "gone"
    /\ UNCHANGED <<jobVars, current, batch, wire, connects, got>>

\* The connection breaks; the generator's cursor is gone with it.
Disconnect ==
    /\ pc # "gone"
    /\ pc' = "gone"
    /\ wire' = << >>
    /\ UNCHANGED <<jobVars, current, batch, clientVars>>

Next ==
    \/ Announce \/ CloseAnnounced \/ CloseSilently
    \/ Connect \/ ReadEvents \/ CheckActive
    \/ Receive \/ ReceiveEnd \/ Disconnect

Spec == Init /\ [][Next]_vars

\* The generator and the connection make progress.  Nothing is assumed of
\* the job, and of the client only that one of its connections stays up.
Fairness ==
    /\ WF_vars(ReadEvents)
    /\ WF_vars(CheckActive)
    /\ WF_vars(Receive)
    /\ WF_vars(ReceiveEnd)

FairSpec == Spec /\ Fairness

-----------------------------------------------------------------------------
(* Properties.                                                              *)

\* Every variable has the type its column or field has.
TypeOK ==
    /\ log \in 0 .. MaxEvents
    /\ active \in BOOLEAN
    /\ pc \in {"gone", "reading", "checking", "done"}
    /\ current \in Nat
    /\ batch \in Seq(Nat)
    /\ wire \in Seq(Nat)
    /\ connects \in 0 .. MaxConnects
    /\ got \in Seq(Nat)
    /\ ended \in BOOLEAN

\* What the client has is the beginning of the log, each event once and in
\* order, however often the connection broke (docs/design/api.md:82).
NoGap ==
    /\ Len(got) <= log
    /\ \A i \in 1 .. Len(got) : got[i] = i

\* stream_end is sent for a closed job only: a client that stops following
\* misses no later run of the job.
EndIsFinal == pc = "done" \/ ended => ~active

\* What the client is told is true, of the events and of their end.
Delivered == NoGap /\ EndIsFinal

\* Once the job is closed, with or without an event, a connection that stays
\* up comes to its end.
StreamEnds == [](~active /\ pc # "gone" => <>(ended \/ pc = "gone"))

=============================================================================
