------------------------------ MODULE Indexing ------------------------------
(***************************************************************************)
(* The index job of one parse: retrieval/indexer.py.                       *)
(*                                                                         *)
(* A run reads the parse, cuts it into chunks, has them embedded without a *)
(* transaction, and in one transaction compares the rows there are with    *)
(* its own, inserts what is missing and counts itself in the coverage      *)
(* batch; a last transaction finishes the job.  An index job is keyed by   *)
(* parse and chunker version, so during a deployment workers of two        *)
(* versions may index one parse at a time; a job whose worker dies or is   *)
(* slow is delivered again.                                                *)
(*                                                                         *)
(* All workers embed with one version: the comparison of that version with *)
(* the rows there are (retrieval/indexer.py:402-412) then refuses nothing. *)
(***************************************************************************)
EXTENDS Naturals, FiniteSets

CONSTANTS Versions,       \* chunker versions that are deployed
          Ordinals,       \* the chunk ordinals a version gives for the parse
          Texts,          \* the text it gives each of them
          Workers,        \* index runs at a time
          MaxDeliveries,  \* bound: deliveries of one job
          None

\* Of the constants (assumed where the module is instantiated).
IndexingAssumption ==
    /\ \A v \in Versions : \A o \in Ordinals[v] : Texts[v][o] # None
    /\ None \notin Workers
    /\ MaxDeliveries \in Nat

AllOrdinals == UNION {Ordinals[v] : v \in Versions}

VARIABLES
    rows,   \* chunks: the row of each ordinal, or NoRow
    jobs,   \* the index job of each version
    done,   \* coverage_batches.done_count
    runs    \* the runs

vars == <<rows, jobs, done, runs>>

NoRow == [text |-> None, embedded |-> FALSE]

JobStates == {"queued", "running", "succeeded", "failed"}

\* status: embedding_status of the manifest in the job's progress.
Job == [state : JobStates, deliveries : Nat, holder : Workers \cup {None},
        status : {"ok", "pending", None}]

\* The job of a version goes on to a state.
Moved(v, state, deliveries, holder, status) ==
    [jobs EXCEPT ![v] = [state |-> state, deliveries |-> deliveries,
                         holder |-> holder, status |-> status]]

\* A run goes on to a point.
Went(w, pc, version, vectors, existing) ==
    [runs EXCEPT ![w] = [pc |-> pc, version |-> version,
                         vectors |-> vectors, existing |-> existing]]

NoRun == [pc |-> "idle", version |-> None, vectors |-> {}, existing |-> {}]

Init ==
    /\ rows = [o \in AllOrdinals |-> NoRow]
    /\ jobs = [v \in Versions |-> [state |-> "queued", deliveries |-> 0,
                                   holder |-> None, status |-> None]]
    /\ done = 0
    /\ runs = [w \in Workers |-> NoRun]

Present == {o \in AllOrdinals : rows[o].text # None}

----------------------------------------------------------------------------

\* A worker that runs another chunker than the job names ends the job.
Mismatch(v) ==
    /\ jobs[v].state = "queued"
    /\ jobs[v].deliveries < MaxDeliveries
    /\ Versions # {v}
    /\ jobs' = Moved(v, "failed", jobs[v].deliveries + 1, jobs[v].holder, jobs[v].status)
    /\ UNCHANGED <<rows, done, runs>>

Begin(w, v) ==
    /\ runs[w].pc = "idle"
    /\ jobs[v].state = "queued"
    /\ jobs[v].deliveries < MaxDeliveries
    /\ jobs' = Moved(v, "running", jobs[v].deliveries + 1, w, jobs[v].status)
    /\ runs' = Went(w, "begun", v, {}, {})
    /\ UNCHANGED <<rows, done>>

\* The embedder gives a vector or, for an item it could not embed, none.
Embed(w) ==
    /\ runs[w].pc = "begun"
    /\ \E vectors \in SUBSET Ordinals[runs[w].version] :
         runs' = Went(w, "embedded", runs[w].version, vectors, {})
    /\ UNCHANGED <<rows, jobs, done>>

\* get_parse_chunks: the first statement of the transaction.
ReadChunks(w) ==
    /\ runs[w].pc = "embedded"
    /\ runs' = Went(w, "read", runs[w].version, runs[w].vectors,
                    {<<o, rows[o].text>> : o \in Present})
    /\ UNCHANGED <<rows, jobs, done>>

Own(v) == {<<o, Texts[v][o]>> : o \in Ordinals[v]}

\* Rows of another chunker output: other ordinals, or another text.
Drifts(existing, v) == existing # {} /\ existing # Own(v)

RefuseDrift(w) ==
    /\ runs[w].pc = "read"
    /\ Drifts(runs[w].existing, runs[w].version)
    /\ runs' = Went(w, "refused", runs[w].version, runs[w].vectors, runs[w].existing)
    /\ UNCHANGED <<rows, jobs, done>>

\* Mutant: a chunk without a vector is left for later.
InsertedEmbedded(v, vectors) ==
    [o \in AllOrdinals |->
        IF o \in Ordinals[v] \cap vectors /\ rows[o] = NoRow
        THEN [text |-> Texts[v][o], embedded |-> o \in vectors]
        ELSE rows[o]]

\* on_conflict_do_nothing: a row that is there stays as it is.
Inserted(v, vectors) ==
    [o \in AllOrdinals |->
        IF o \in Ordinals[v] /\ rows[o] = NoRow
        THEN [text |-> Texts[v][o], embedded |-> o \in vectors]
        ELSE rows[o]]

InsertChunks(w) ==
    /\ runs[w].pc = "read"
    /\ ~Drifts(runs[w].existing, runs[w].version)
    /\ rows' = Inserted(runs[w].version, runs[w].vectors)
    /\ done' = done + 1
    /\ runs' = Went(w, "inserted", runs[w].version, runs[w].vectors, runs[w].existing)
    /\ UNCHANGED jobs

\* The manifest is made of this run's own records.
Status(v, vectors) == IF Ordinals[v] \subseteq vectors THEN "ok" ELSE "pending"

Finish(w) ==
    LET v == runs[w].version
    IN  /\ runs[w].pc \in {"inserted", "refused"}
        /\ jobs' = IF jobs[v].state # "running" \/ jobs[v].holder # w THEN jobs
                   ELSE IF runs[w].pc = "refused"
                        THEN Moved(v, "failed", jobs[v].deliveries, None, jobs[v].status)
                        ELSE Moved(v, "succeeded", jobs[v].deliveries, None,
                                   Status(v, runs[w].vectors))
        /\ runs' = [runs EXCEPT ![w] = NoRun]
        /\ UNCHANGED <<rows, done>>

\* The reaper puts the job back; the run is dead, or slow and goes on.
Redeliver(w) ==
    LET v == runs[w].version
    IN  /\ runs[w].pc # "idle"
        /\ jobs[v].state = "running"
        /\ jobs[v].holder = w
        /\ jobs' = Moved(v, "queued", jobs[v].deliveries, None, jobs[v].status)
        /\ runs' \in {runs, [runs EXCEPT ![w] = NoRun]}
        /\ UNCHANGED <<rows, done>>

RunStep(w) ==
    \/ \E v \in Versions : Begin(w, v)
    \/ Embed(w)
    \/ ReadChunks(w)
    \/ RefuseDrift(w)
    \/ InsertChunks(w)
    \/ Finish(w)
    \/ Redeliver(w)

Next ==
    \/ \E v \in Versions : Mismatch(v)
    \/ \E w \in Workers : RunStep(w)

Spec == Init /\ [][Next]_vars

----------------------------------------------------------------------------
(* Properties.                                                              *)

\* 缺任意 chunk 不标 index 完整: a job that succeeded has a row for each chunk
\* of its manifest, whichever runs raced it.
SucceededIsWhole ==
    \A v \in Versions : jobs[v].state = "succeeded" => Ordinals[v] \subseteq Present

\* No parse is half indexed.
NothingInPart ==
    Present # {} => \E v \in Versions : Ordinals[v] \subseteq Present

\* A chunker's output never passes for another's: a run that found rows when it
\* looked commits only if all its chunks are stored, as it cut them.  (Two runs
\* that both find none may still mix, the comparison and the insert being two
\* statements.)
DriftIsRefused ==
    [][\A w \in Workers :
         runs[w].pc = "read" /\ runs'[w].pc = "inserted"
         => \/ runs[w].existing = {}
            \/ Own(runs[w].version) \subseteq {<<o, rows'[o].text>> : o \in AllOrdinals}]_vars

=============================================================================
