----------------------------- MODULE Knowledge -----------------------------
(***************************************************************************)
(* Claims, events and event merges of one industry: workflows/extract.py,  *)
(* workflows/event_build.py and services/knowledge.py over                 *)
(* repositories/knowledge.py.                                              *)
(*                                                                         *)
(* An extract run commits claims with their source family and spawns the   *)
(* event_build job.  An event_build run reads the claims of its extraction *)
(* and resolves one proposal after the other, each in a transaction that   *)
(* looks for an active event of the proposal's identity key and then links *)
(* to it or inserts a new one.  Jobs are delivered at least once, runs of  *)
(* one job may overlap and die between two steps.  An owner merges events  *)
(* and undoes merges, in transactions that read versions statement by      *)
(* statement and write last.  Transactions are READ COMMITTED and lock     *)
(* nothing they only read, so what one has read another may have written   *)
(* before it writes itself.                                                *)
(***************************************************************************)
EXTENDS Naturals, FiniteSets, Sequences

CONSTANTS Extractions,  \* extract jobs, each of a parse of the same document
          Keys,         \* strong identity keys
          Workers,      \* runs at a time
          Owners,       \* merge and undo transactions at a time
          MaxCommits,   \* bound: commits of one extraction
          MaxEvents,    \* bound: events
          MaxMerges,    \* bound: merge operations
          None

ASSUME KnowledgeAssumption ==
    /\ MaxCommits \in Nat /\ MaxEvents \in Nat /\ MaxMerges \in Nat
    /\ None \notin Keys \cup Extractions
    /\ None \notin Nat
    /\ IsFiniteSet(Workers)

VARIABLES
    families,   \* rows of source_families of the document
    claims,     \* claims: <<extraction, number of the commit>>
    builds,     \* event_build jobs, by extraction
    events,     \* events, in the order of their insertion
    links,      \* event_revision_claims: <<event, claim>>
    merges,     \* event_merge_operations, in the order of their insertion
    stale,      \* claims whose reports have a stale mark
    run,        \* extract and event_build runs
    act         \* transactions of merge and undo

vars == <<families, claims, builds, events, links, merges, stale, run, act>>

Claims == Extractions \X (1 .. MaxCommits)
EventIds == 1 .. MaxEvents
Exists(e) == e \in DOMAIN events

\* source, target: of the merge that is to be, or that is to be undone (merge).
\* sourceVersion, targetVersion: the row versions it goes by, 0 if none: those
\* the client expects, then those save_merge notes, or those an undo found.
\* unchecked: what is left of expected_row_versions.
NoAct == [pc |-> "idle", source |-> None, target |-> None, merge |-> None,
          sourceVersion |-> 0, targetVersion |-> 0, unchecked |-> {}]

NoRun == [pc |-> "idle", job |-> None, key |-> None, found |-> None, known |-> {}]

Init ==
    /\ families = 0
    /\ claims = {}
    /\ builds = {}
    /\ events = << >>
    /\ links = {}
    /\ merges = << >>
    /\ stale = {}
    /\ run = [w \in Workers |-> NoRun]
    /\ act = [o \in Owners |-> NoAct]

----------------------------------------------------------------------------
(* Extract.                                                                 *)

Commits(x) == {c \in claims : c[1] = x}

\* The first statement of the commit: find_source_family.
BeginCommit(w, x) ==
    /\ run[w].pc = "idle"
    /\ Cardinality(Commits(x)) < MaxCommits
    /\ run' = [run EXCEPT ![w] = [NoRun EXCEPT !.pc = "extracting", !.job = x,
                                     !.found = IF families > 0 THEN 1 ELSE None]]
    /\ UNCHANGED <<families, claims, builds, events, links, merges, stale, act>>

\* accepted: validation left some of the proposed claims; the commit's claims
\* count as one.  The family is inserted either way.
CommitExtraction(w, accepted) ==
    LET x == run[w].job
        c == <<x, 1 + Cardinality(Commits(x))>>
    IN
    /\ run[w].pc = "extracting"
    /\ c \in Claims
    /\ families' = IF run[w].found = None THEN families + 1 ELSE families
    /\ claims' = IF accepted THEN claims \cup {c} ELSE claims
    /\ builds' = IF accepted THEN builds \cup {x} ELSE builds
    /\ run' = [run EXCEPT ![w] = NoRun]
    /\ UNCHANGED <<events, links, merges, stale, act>>

----------------------------------------------------------------------------
(* Event build.                                                             *)

\* Mutant: the ids the model gives are taken as they are.
CommittedUnverified(r, named) == named

\* The claims a proposal names, less those the run did not read.
Committed(r, named) == named \cap r.known

\* Mutant: the lookup joins the event's claims.
FindEventWithClaims(key) ==
    {e \in DOMAIN events : /\ key # None
                           /\ events[e].lifecycle = "active"
                           /\ events[e].key = key
                           /\ \E c \in claims : <<e, c>> \in links}

\* find_event_by_key: any active event of the key, nothing without a key.
FindEvent(key) ==
    {e \in DOMAIN events : /\ key # None
                           /\ events[e].lifecycle = "active"
                           /\ events[e].key = key}

\* The run has read the extraction's claims, takes a proposal of the model, with a
\* key or none, and its transaction looks for the event.  A run remembers nothing from one proposal to the next:
\* each is a run of its own here.
Propose(w, x, key) ==
    /\ run[w].pc = "idle"
    /\ x \in builds
    /\ \E e \in IF FindEvent(key) = {} THEN {None} ELSE FindEvent(key) :
          run' = [run EXCEPT ![w] = [pc |-> "resolving", job |-> x, key |-> key,
                                     found |-> e, known |-> Commits(x)]]
    /\ UNCHANGED <<families, claims, builds, events, links, merges, stale, act>>

NewEvent(key) == [key |-> key, lifecycle |-> "active", into |-> None, version |-> 1]

\* link_event_claims: the event's row is not touched.
LinkEvent(w, named) ==
    LET r == run[w] IN
    /\ r.pc = "resolving"
    /\ r.found # None
    /\ links' = links \cup ({r.found} \X Committed(r, named))
    /\ run' = [run EXCEPT ![w] = NoRun]
    /\ UNCHANGED <<families, claims, builds, events, merges, stale, act>>

InsertEvent(w, named) ==
    LET r == run[w]
        e == Len(events) + 1
    IN
    /\ r.pc = "resolving"
    /\ r.found = None
    /\ e <= MaxEvents
    /\ events' = Append(events, NewEvent(r.key))
    /\ links' = links \cup ({e} \X Committed(r, named))
    /\ run' = [run EXCEPT ![w] = NoRun]
    /\ UNCHANGED <<families, claims, builds, merges, stale, act>>

\* A worker dies: what it committed stays.
Crash(w) ==
    /\ run[w].pc # "idle"
    /\ run' = [run EXCEPT ![w] = NoRun]
    /\ UNCHANGED <<families, claims, builds, events, links, merges, stale, act>>

----------------------------------------------------------------------------
(* Merge.                                                                   *)

\* What the transaction o does next; the rest stays.
Goes(o, a) ==
    /\ act' = [act EXCEPT ![o] = a]
    /\ UNCHANGED <<families, claims, builds, events, links, merges, stale, run>>

\* The client has read both rows and sends their versions.  An event is not
\* merged into itself.
Expect(o, s, t) ==
    /\ act[o].pc = "idle"
    /\ s # t
    /\ Len(merges) < MaxMerges
    /\ Goes(o, [pc |-> "check", source |-> s, target |-> t, merge |-> None,
                sourceVersion |-> events[s].version, targetVersion |-> events[t].version,
                unchecked |-> {s, t}])

Expected(a, e) == IF e = a.source THEN a.sourceVersion ELSE a.targetVersion

\* One SELECT for each of expected_row_versions; a row that has moved is a
\* MergeConflict.  Nothing asks whether either event is merged already.
CheckVersion(o, e) ==
    LET a == act[o] IN
    /\ a.pc = "check"
    /\ e \in a.unchecked
    /\ Goes(o, IF events[e].version # Expected(a, e) THEN NoAct
               ELSE [a EXCEPT !.pc = IF a.unchecked = {e} THEN "noteTarget" ELSE "check",
                              !.unchecked = @ \ {e}])

\* save_merge reads the versions once more for its snapshot: first the
\* target's, then the source's.
NoteTarget(o) ==
    LET a == act[o] IN
    /\ a.pc = "noteTarget"
    /\ Goes(o, [a EXCEPT !.pc = "noteSource", !.targetVersion = events[a.target].version])

NoteSource(o) ==
    LET a == act[o] IN
    /\ a.pc = "noteSource"
    /\ Goes(o, [a EXCEPT !.pc = "save", !.sourceVersion = events[a.source].version])

\* mark_merged
Merged(event, t) ==
    [key |-> event.key, lifecycle |-> "merged", into |-> t, version |-> event.version + 1]

\* The statements that write: save_merge's INSERT, mark_merged's UPDATE, which
\* takes the row as it is by then, and mark_derived_stale, which finds the
\* reports that cite the events' evidence.
ApplyMerge(o) ==
    LET a == act[o] IN
    /\ a.pc = "save"
    /\ Len(merges) < MaxMerges
    /\ merges' = Append(merges,
          [source |-> a.source, target |-> a.target, status |-> "applied",
           sourceVersion |-> a.sourceVersion, targetVersion |-> a.targetVersion])
    /\ events' = [events EXCEPT ![a.source] = Merged(events[a.source], a.target)]
    /\ stale' = stale \cup {k[2] : k \in {k \in links : k[1] \in {a.source, a.target}}}
    /\ act' = [act EXCEPT ![o] = NoAct]
    /\ UNCHANGED <<families, claims, builds, links, run>>

----------------------------------------------------------------------------
(* Undo.                                                                    *)

\* post_merge_modifications, in two SELECTs: a modification of either event is
\* an UndoConflict, which rolls the compensation it recorded back.  Nothing
\* asks whether the merge is undone already.
TargetModified(m) == events[m.target].version > m.targetVersion

\* Mutant: the source is not compared.
SourceNeverModified(m) == FALSE

\* The merge itself raised the source's version by 1.
SourceModified(m) == events[m.source].version > m.sourceVersion + 1

LookTarget(o, n) ==
    /\ act[o].pc = "idle"
    /\ ~TargetModified(merges[n])
    /\ Goes(o, [NoAct EXCEPT !.pc = "look", !.source = merges[n].source,
                             !.target = merges[n].target, !.merge = n])

LookSource(o) ==
    LET a == act[o] IN
    /\ a.pc = "look"
    /\ Goes(o, IF SourceModified(merges[a.merge]) THEN NoAct
               ELSE [a EXCEPT !.pc = "undo", !.sourceVersion = events[a.source].version])

\* mark_active
Active(event) ==
    [key |-> event.key, lifecycle |-> "active", into |-> None, version |-> event.version + 1]

\* The UPDATEs of undo_merge have no condition but the ids.
UndoMerge(o) ==
    LET a == act[o] IN
    /\ a.pc = "undo"
    /\ events' = [events EXCEPT ![a.source] = Active(events[a.source])]
    /\ merges' = [merges EXCEPT ![a.merge] = [merges[a.merge] EXCEPT !.status = "undone"]]
    /\ act' = [act EXCEPT ![o] = NoAct]
    /\ UNCHANGED <<families, claims, builds, links, stale, run>>

----------------------------------------------------------------------------
RunStep(w) ==
    \/ \E x \in Extractions : BeginCommit(w, x)
    \/ \E accepted \in BOOLEAN : CommitExtraction(w, accepted)
    \/ \E x \in Extractions, key \in Keys \cup {None} : Propose(w, x, key)
    \/ \E named \in SUBSET claims : LinkEvent(w, named) \/ InsertEvent(w, named)
    \/ Crash(w)

OwnerStep(o) ==
    \/ \E s, t \in DOMAIN events : Expect(o, s, t)
    \/ \E e \in DOMAIN events : CheckVersion(o, e)
    \/ NoteTarget(o)
    \/ NoteSource(o)
    \/ ApplyMerge(o)
    \/ \E n \in DOMAIN merges : LookTarget(o, n)
    \/ LookSource(o)
    \/ UndoMerge(o)

Next ==
    \/ \E w \in Workers : RunStep(w)
    \/ \E o \in Owners : OwnerStep(o)

Spec == Init /\ [][Next]_vars

----------------------------------------------------------------------------
(* Properties.                                                              *)

\* Whatever claims the model names, a run links only committed claims of its
\* own extraction: the chain event, claim, evidence, parse never crosses over.
LinksOwnClaims ==
    [][\A k \in links' \ links :
          /\ k[2] \in claims
          /\ \E w \in Workers : run[w].pc = "resolving" /\ run[w].job = k[2][1]]_vars

\* The source still points to the target of its merge.
InPlace(m) == events[m.source].lifecycle = "merged" /\ events[m.source].into = m.target

Undone(n) == merges[n].status = "applied" /\ merges'[n].status = "undone"

\* An undo is refused if the merge was modified afterwards (EVT-04,
\* services/knowledge.py:456): what it takes back is the merge it is for,
\* through any merges and undos before it, overlapping or not.  Only one thing
\* defeats it: another transaction writes the source between this undo's
\* comparison and its UPDATE, which names no version.
UndoOnlyOwnOrRaced ==
    [][\A n \in DOMAIN merges : Undone(n) =>
          \/ InPlace(merges[n])
          \/ \E o \in Owners : /\ act'[o] # act[o]
                               /\ act[o].pc = "undo" /\ act[o].merge = n
                               /\ events[merges[n].source].version > act[o].sourceVersion]_vars

\* Two runs that look before either inserts may both insert; nothing else
\* duplicates a source family or an identity.  However often jobs are
\* repeated, there are at most as many as runs at a time, and with one run at a
\* time there is one (EVT-01).  A key whose event was merged away may come back.
OnlyRacesDuplicate ==
    /\ families <= Cardinality(Workers)
    /\ \A key \in Keys :
          LET own == {e \in DOMAIN events : events[e].key = key} IN
          (\A n \in DOMAIN merges : merges[n].source \notin own)
              => Cardinality(own) <= Cardinality(Workers)
============================================================================
