--------------------------- MODULE KnowledgeProofs ---------------------------
(***************************************************************************)
(* Proofs about Knowledge, for any number of extractions, keys, runs,      *)
(* events, merges and transactions that merge and undo at a time.  A merge *)
(* that is applied has moved its source's version past the one it wrote    *)
(* down, and as long as it is the only one to have done so the source      *)
(* still points to its target; and what a run remembers of claims was      *)
(* committed by its own extraction.                                        *)
(***************************************************************************)
EXTENDS Knowledge, FiniteSetTheorems, TLAPS

RunRow == [pc : {"idle", "extracting", "resolving"}, job : Extractions \cup {None},
           key : Keys \cup {None}, found : Nat \cup {None}, known : SUBSET Claims]

Events == [key : Keys \cup {None}, lifecycle : {"active", "merged"},
           into : Nat \cup {None}, version : Nat]

Merges == [source : Nat, target : Nat, status : {"applied", "undone"},
           sourceVersion : Nat, targetVersion : Nat]

RowsOK ==
    /\ claims \subseteq Claims
    /\ run \in [Workers -> RunRow]
    /\ events \in Seq(Events)
    /\ merges \in Seq(Merges)
    /\ \A n \in DOMAIN merges : merges[n].source \in DOMAIN events

\* The merge m is the last one to have touched the event e.
Points(e, m) == e.version = m.sourceVersion + 1 => e.lifecycle = "merged" /\ e.into = m.target

AppliedStands ==
    \A n \in DOMAIN merges : merges[n].status = "applied" =>
        /\ events[merges[n].source].version > merges[n].sourceVersion
        /\ Points(events[merges[n].source], merges[n])

KnownOwn ==
    \A w \in Workers : \A c \in run[w].known : c \in claims /\ c[1] = run[w].job

ActRow == [pc : {"idle", "check", "noteTarget", "noteSource", "save", "look", "undo"},
           source : Nat \cup {None}, target : Nat \cup {None}, merge : Nat \cup {None},
           sourceVersion : Nat, targetVersion : Nat, unchecked : SUBSET Nat]

\* What a transaction of merge or undo goes by is in the rows, and rows only
\* get newer: what a merge noted of its source is not newer than the row, and
\* what an undo found there is at most the write of its merge.
ActFits(a) ==
    /\ a.pc \in {"check", "noteTarget", "noteSource", "save"} =>
          /\ a.source \in DOMAIN events
          /\ a.target \in DOMAIN events
    /\ a.pc = "save" => a.sourceVersion <= events[a.source].version
    /\ a.pc \in {"look", "undo"} =>
          /\ a.merge \in DOMAIN merges
          /\ a.source = merges[a.merge].source
    /\ a.pc = "undo" => a.sourceVersion <= merges[a.merge].sourceVersion + 1

ActsOK == act \in [Owners -> ActRow] /\ \A o \in Owners : ActFits(act[o])

KnowledgeInv == RowsOK /\ AppliedStands /\ KnownOwn /\ ActsOK

\* The rows of the two tables.
LEMMA EventOf ==
    ASSUME NEW f \in Seq(Events), NEW e \in DOMAIN f
    PROVE  e \in Nat /\ f[e] \in Events /\ f[e].version \in Nat
<1>1. e \in Nat /\ f[e] \in Events
  OBVIOUS
<1> QED
  BY <1>1 DEF Events

LEMMA MergeOf ==
    ASSUME NEW f \in Seq(Merges), NEW n \in DOMAIN f
    PROVE  n \in Nat /\ f[n] \in Merges /\ f[n].sourceVersion \in Nat
<1>1. n \in Nat /\ f[n] \in Merges
  OBVIOUS
<1> QED
  BY <1>1 DEF Merges

LEMMA KnowledgeInit == Init => KnowledgeInv
<1> SUFFICES ASSUME Init PROVE KnowledgeInv
  OBVIOUS
<1>1. NoRun \in RunRow /\ NoRun.known = {}
  BY DEF NoRun, RunRow
<1>2. run = [w \in Workers |-> NoRun] /\ claims = {} /\ events = << >> /\ merges = << >>
  BY DEF Init
<1>3. events \in Seq(Events) /\ merges \in Seq(Merges) /\ DOMAIN merges = {}
  BY <1>2
<1>4. NoAct \in ActRow /\ ActFits(NoAct)
  BY DEF NoAct, ActRow, ActFits
<1>5. ActsOK
  BY <1>4 DEF Init, ActsOK
<1> QED
  BY <1>1, <1>2, <1>3, <1>5 DEF KnowledgeInv, RowsOK, AppliedStands, KnownOwn

\* The row of an event that is merged, and of one that is active again.
LEMMA RowWrites ==
    ASSUME NEW e \in Events, NEW t \in Nat
    PROVE  /\ Merged(e, t) \in Events /\ Merged(e, t).version = e.version + 1
           /\ Merged(e, t).lifecycle = "merged" /\ Merged(e, t).into = t
           /\ Active(e) \in Events /\ Active(e).version = e.version + 1
  BY DEF Merged, Active, Events

\* An applied merge of an event stays behind the event's row when it is written.
LEMMA Overtaken ==
    ASSUME NEW e \in Events, NEW row \in Events, NEW m \in Merges,
           row.version = e.version + 1, e.version > m.sourceVersion
    PROVE  row.version > m.sourceVersion /\ Points(row, m)
<1>1. e.version \in Nat /\ m.sourceVersion \in Nat
  BY DEF Events, Merges
<1>2. row.version > m.sourceVersion /\ row.version # m.sourceVersion + 1
  BY <1>1
<1> QED
  BY <1>2 DEF Points

\* A run that takes up or drops its work, while claims only grow.
LEMMA RunsKept ==
    ASSUME RowsOK, KnownOwn, NEW w \in Workers, NEW r \in RunRow,
           run' = [run EXCEPT ![w] = r],
           claims \subseteq claims', claims' \subseteq Claims,
           \A c \in r.known : c \in claims' /\ c[1] = r.job
    PROVE  run' \in [Workers -> RunRow] /\ KnownOwn'
<1>1. run' \in [Workers -> RunRow]
  BY DEF RowsOK
<1>2. ASSUME NEW v \in Workers, NEW c \in run'[v].known
      PROVE  c \in claims' /\ c[1] = run'[v].job
  <2>1. CASE v = w
    BY <1>2, <2>1 DEF RowsOK
  <2>2. CASE v # w
    BY <1>2, <2>2 DEF RowsOK, KnownOwn
  <2> QED
    BY <2>1, <2>2
<1> QED
  BY <1>1, <1>2 DEF KnownOwn

\* Events that are there keep their rows, and the operations stay as they are.
LEMMA MergesKept ==
    ASSUME RowsOK, AppliedStands, UNCHANGED merges, events' \in Seq(Events),
           \A e \in DOMAIN events : e \in DOMAIN events' /\ events'[e] = events[e]
    PROVE  /\ \A n \in DOMAIN merges' : merges'[n].source \in DOMAIN events'
           /\ AppliedStands'
  BY DEF RowsOK, AppliedStands, Points

LEMMA TablesNext ==
    KnowledgeInv /\ [Next]_vars => RowsOK' /\ AppliedStands' /\ KnownOwn'
<1> SUFFICES ASSUME KnowledgeInv, [Next]_vars
             PROVE  RowsOK' /\ AppliedStands' /\ KnownOwn'
  OBVIOUS
<1> USE DEF KnowledgeInv
<1>n. NoRun \in RunRow /\ NoRun.known = {}
  BY DEF NoRun, RunRow
<1>1. ASSUME NEW w \in Workers, NEW x \in Extractions, BeginCommit(w, x) PROVE RowsOK' /\ AppliedStands' /\ KnownOwn'
  <2> DEFINE r == [NoRun EXCEPT !.pc = "extracting", !.job = x,
                                !.found = IF families > 0 THEN 1 ELSE None]
  <2>1. r \in RunRow /\ r.known = {}
    BY DEF NoRun, RunRow
  <2>2. run' = [run EXCEPT ![w] = r] /\ UNCHANGED <<claims, events, merges>>
    BY <1>1 DEF BeginCommit
  <2> HIDE DEF r
  <2>3. claims' \subseteq Claims /\ events' \in Seq(Events)
    BY <2>2 DEF RowsOK
  <2>4. run' \in [Workers -> RunRow] /\ KnownOwn'
    BY <2>1, <2>2, <2>3, RunsKept
  <2> QED
    BY <2>2, <2>3, <2>4, MergesKept DEF RowsOK
<1>2. ASSUME NEW w \in Workers, NEW accepted \in BOOLEAN, CommitExtraction(w, accepted)
      PROVE  RowsOK' /\ AppliedStands' /\ KnownOwn'
  <2>1. /\ run' = [run EXCEPT ![w] = NoRun] /\ UNCHANGED <<events, merges>>
        /\ claims \subseteq claims' /\ claims' \subseteq Claims
    BY <1>2 DEF CommitExtraction, RowsOK
  <2>2. events' \in Seq(Events)
    BY <2>1 DEF RowsOK
  <2>3. run' \in [Workers -> RunRow] /\ KnownOwn'
    BY <1>n, <2>1, RunsKept
  <2> QED
    BY <2>1, <2>2, <2>3, MergesKept DEF RowsOK
<1>3. ASSUME NEW w \in Workers, NEW x \in Extractions, NEW key \in Keys \cup {None},
             Propose(w, x, key)
      PROVE  RowsOK' /\ AppliedStands' /\ KnownOwn'
  <2>1. PICK e \in IF FindEvent(key) = {} THEN {None} ELSE FindEvent(key) :
           run' = [run EXCEPT ![w] = [pc |-> "resolving", job |-> x, key |-> key,
                                      found |-> e, known |-> Commits(x)]]
    BY <1>3 DEF Propose
  <2>2. UNCHANGED <<claims, events, merges>>
    BY <1>3 DEF Propose
  <2>3. e \in Nat \cup {None}
    BY DEF FindEvent, RowsOK
  <2>4. Commits(x) \subseteq Claims /\ \A c \in Commits(x) : c \in claims /\ c[1] = x
    BY DEF Commits, RowsOK
  <2> DEFINE r == [pc |-> "resolving", job |-> x, key |-> key,
                   found |-> e, known |-> Commits(x)]
  <2>5. r \in RunRow /\ r.known = Commits(x) /\ r.job = x
    BY <2>3, <2>4 DEF RunRow
  <2>6. run' = [run EXCEPT ![w] = r]
    BY <2>1
  <2> HIDE DEF r
  <2>7. claims' \subseteq Claims /\ events' \in Seq(Events)
    BY <2>2 DEF RowsOK
  <2>8. run' \in [Workers -> RunRow] /\ KnownOwn'
    BY <2>2, <2>4, <2>5, <2>6, <2>7, RunsKept
  <2> QED
    BY <2>2, <2>7, <2>8, MergesKept DEF RowsOK
<1>4. ASSUME NEW w \in Workers, NEW named \in SUBSET claims, LinkEvent(w, named)
      PROVE  RowsOK' /\ AppliedStands' /\ KnownOwn'
  <2>1. run' = [run EXCEPT ![w] = NoRun] /\ UNCHANGED <<claims, events, merges>>
    BY <1>4 DEF LinkEvent
  <2>2. claims' \subseteq Claims /\ events' \in Seq(Events)
    BY <2>1 DEF RowsOK
  <2>3. run' \in [Workers -> RunRow] /\ KnownOwn'
    BY <1>n, <2>1, <2>2, RunsKept
  <2> QED
    BY <2>1, <2>2, <2>3, MergesKept DEF RowsOK
<1>5. ASSUME NEW w \in Workers, NEW named \in SUBSET claims, InsertEvent(w, named)
      PROVE  RowsOK' /\ AppliedStands' /\ KnownOwn'
  <2>1. /\ run' = [run EXCEPT ![w] = NoRun] /\ UNCHANGED <<claims, merges>>
        /\ events' = Append(events, NewEvent(run[w].key))
    BY <1>5 DEF InsertEvent
  <2>2. NewEvent(run[w].key) \in Events
    BY DEF NewEvent, Events, RowsOK, RunRow
  <2>3. claims' \subseteq Claims /\ events' \in Seq(Events)
    BY <2>1, <2>2 DEF RowsOK
  <2>4. \A e \in DOMAIN events : e \in DOMAIN events' /\ events'[e] = events[e]
    BY <2>1, <2>2 DEF RowsOK
  <2>5. run' \in [Workers -> RunRow] /\ KnownOwn'
    BY <1>n, <2>1, <2>3, RunsKept
  <2> QED
    BY <2>1, <2>3, <2>4, <2>5, MergesKept DEF RowsOK
<1>6. ASSUME NEW w \in Workers, Crash(w) PROVE RowsOK' /\ AppliedStands' /\ KnownOwn'
  <2>1. run' = [run EXCEPT ![w] = NoRun] /\ UNCHANGED <<claims, events, merges>>
    BY <1>6 DEF Crash
  <2>2. claims' \subseteq Claims /\ events' \in Seq(Events)
    BY <2>1 DEF RowsOK
  <2>3. run' \in [Workers -> RunRow] /\ KnownOwn'
    BY <1>n, <2>1, <2>2, RunsKept
  <2> QED
    BY <2>1, <2>2, <2>3, MergesKept DEF RowsOK
<1>7. ASSUME NEW o \in Owners, ApplyMerge(o)
      PROVE  RowsOK' /\ AppliedStands' /\ KnownOwn'
  <2>0. PICK s, t, v, u : s = act[o].source /\ t = act[o].target
                          /\ v = act[o].sourceVersion /\ u = act[o].targetVersion
    OBVIOUS
  <2> DEFINE m == [source |-> s, target |-> t, status |-> "applied",
                   sourceVersion |-> v, targetVersion |-> u]
             row == Merged(events[s], t)
  <2>01. act[o] \in ActRow /\ ActFits(act[o]) /\ act[o].pc = "save"
    BY <1>7 DEF ActsOK, ApplyMerge
  <2>02. v \in Nat /\ u \in Nat
    BY <2>0, <2>01 DEF ActRow
  <2>1. s \in Nat /\ t \in Nat /\ s \in DOMAIN events /\ events[s] \in Events
    BY <2>0, <2>01 DEF RowsOK, ActFits
  <2>10. v <= events[s].version
    BY <2>0, <2>01 DEF ActFits
  <2>2. m \in Merges /\ row \in Events
    BY <2>02, <2>1, RowWrites DEF Merges, Events
  <2>3. /\ row.version = events[s].version + 1 /\ row.lifecycle = "merged" /\ row.into = t
        /\ m.source = s /\ m.target = t /\ m.sourceVersion = v
    BY <2>1, RowWrites
  <2>4. merges' = Append(merges, m) /\ events' = [events EXCEPT ![s] = row]
    BY <1>7, <2>0 DEF ApplyMerge
  <2>5. UNCHANGED <<claims, run>>
    BY <1>7 DEF ApplyMerge
  <2> HIDE DEF m, row
  <2>6. /\ merges' \in Seq(Merges) /\ Len(merges') = Len(merges) + 1
        /\ merges'[Len(merges')] = m
        /\ \A n \in DOMAIN merges : merges'[n] = merges[n]
    BY <2>2, <2>4 DEF RowsOK
  <2>7. /\ events' \in Seq(Events) /\ DOMAIN events' = DOMAIN events
        /\ events'[s] = row
        /\ \A e \in DOMAIN events : e # s => events'[e] = events[e]
    BY <2>1, <2>2, <2>4 DEF RowsOK
  <2>8. ASSUME NEW n \in DOMAIN merges'
        PROVE  /\ merges'[n].source \in DOMAIN events'
               /\ merges'[n].status = "applied" =>
                     /\ events'[merges'[n].source].version > merges'[n].sourceVersion
                     /\ Points(events'[merges'[n].source], merges'[n])
    <3>1. CASE n = Len(merges')
      BY <2>02, <2>1, <2>10, <2>3, <2>6, <2>7, <3>1 DEF Points, Events
    <3>2. CASE n # Len(merges')
      <4>1. n \in DOMAIN merges /\ merges'[n] = merges[n] /\ merges[n] \in Merges
        BY <2>6, <3>2 DEF RowsOK
      <4>2. CASE merges[n].source = s
        <5>1. merges[n].status = "applied" => events[s].version > merges[n].sourceVersion
          BY <4>1, <4>2 DEF AppliedStands
        <5>2. events'[s] \in Events /\ events'[s].version = events[s].version + 1
          BY <2>2, <2>3, <2>7
        <5> QED
          BY <2>1, <2>7, <4>1, <4>2, <5>1, <5>2, Overtaken DEF RowsOK
      <4>3. CASE merges[n].source # s
        BY <2>7, <4>1, <4>3 DEF RowsOK, AppliedStands
      <4> QED
        BY <4>2, <4>3
    <3> QED
      BY <3>1, <3>2
  <2> QED
    BY <2>5, <2>6, <2>7, <2>8 DEF RowsOK, AppliedStands, KnownOwn
<1>8. ASSUME NEW o \in Owners, UndoMerge(o)
      PROVE  RowsOK' /\ AppliedStands' /\ KnownOwn'
  <2>0. PICK k, s : k = act[o].merge /\ s = act[o].source
    OBVIOUS
  <2> DEFINE row == Active(events[s])
             m == [merges[k] EXCEPT !.status = "undone"]
  <2>01. k \in DOMAIN merges /\ s = merges[k].source
    BY <1>8, <2>0 DEF UndoMerge, ActsOK, ActFits
  <2>1. merges[k] \in Merges /\ s \in DOMAIN events /\ events[s] \in Events
    BY <2>01 DEF RowsOK
  <2>2. row \in Events /\ row.version = events[s].version + 1
    BY <2>1, RowWrites DEF RowsOK
  <2>3. m \in Merges /\ m.source = s /\ m.status = "undone"
    BY <2>01, <2>1 DEF Merges
  <2>4. merges' = [merges EXCEPT ![k] = m] /\ events' = [events EXCEPT ![s] = row]
    BY <1>8, <2>0 DEF UndoMerge
  <2>5. UNCHANGED <<claims, run>>
    BY <1>8 DEF UndoMerge
  <2> HIDE DEF m, row
  <2>6. /\ merges' \in Seq(Merges) /\ DOMAIN merges' = DOMAIN merges
        /\ merges'[k] = m
        /\ \A n \in DOMAIN merges : n # k => merges'[n] = merges[n]
    BY <2>01, <2>3, <2>4 DEF RowsOK
  <2>7. /\ events' \in Seq(Events) /\ DOMAIN events' = DOMAIN events
        /\ events'[s] = row
        /\ \A e \in DOMAIN events : e # s => events'[e] = events[e]
    BY <2>1, <2>2, <2>4 DEF RowsOK
  <2>8. ASSUME NEW n \in DOMAIN merges'
        PROVE  /\ merges'[n].source \in DOMAIN events'
               /\ merges'[n].status = "applied" =>
                     /\ events'[merges'[n].source].version > merges'[n].sourceVersion
                     /\ Points(events'[merges'[n].source], merges'[n])
    <3>1. CASE n = k
      BY <2>1, <2>3, <2>6, <2>7, <3>1
    <3>2. CASE n # k
      <4>1. n \in DOMAIN merges /\ merges'[n] = merges[n] /\ merges[n] \in Merges
        BY <2>6, <3>2 DEF RowsOK
      <4>2. CASE merges[n].source = s
        <5>1. merges[n].status = "applied" => events[s].version > merges[n].sourceVersion
          BY <4>1, <4>2 DEF AppliedStands
        <5>2. events'[s] \in Events /\ events'[s].version = events[s].version + 1
          BY <2>2, <2>7
        <5> QED
          BY <2>1, <2>7, <4>1, <4>2, <5>1, <5>2, Overtaken DEF RowsOK
      <4>3. CASE merges[n].source # s
        BY <2>7, <4>1, <4>3 DEF RowsOK, AppliedStands
      <4> QED
        BY <4>2, <4>3
    <3> QED
      BY <3>1, <3>2
  <2> QED
    BY <2>5, <2>6, <2>7, <2>8 DEF RowsOK, AppliedStands, KnownOwn
<1>9. CASE UNCHANGED vars
  BY <1>9 DEF vars, RowsOK, AppliedStands, KnownOwn
<1>10. ASSUME NEW o \in Owners, NEW a, Goes(o, a)
       PROVE  RowsOK' /\ AppliedStands' /\ KnownOwn'
  BY <1>10 DEF Goes, RowsOK, AppliedStands, KnownOwn
<1> QED
  BY <1>1, <1>2, <1>3, <1>4, <1>5, <1>6, <1>7, <1>8, <1>9, <1>10
     DEF Next, RunStep, OwnerStep, Expect, CheckVersion, NoteTarget, NoteSource, LookTarget,
         LookSource

\* What a merge or an undo goes by stays right: rows stay and get newer.
LEMMA RowsAge ==
    ASSUME RowsOK,
           events' \in Seq(Events), \A e \in DOMAIN events :
              e \in DOMAIN events' /\ events[e].version <= events'[e].version,
           \A n \in DOMAIN merges : /\ n \in DOMAIN merges'
                                    /\ merges'[n].source = merges[n].source
                                    /\ merges'[n].sourceVersion = merges[n].sourceVersion,
           NEW a \in ActRow, ActFits(a)
    PROVE  ActFits(a)'
<1>1. ASSUME a.pc = "save" PROVE a.sourceVersion <= events'[a.source].version
  <2>1. /\ a.source \in DOMAIN events /\ a.sourceVersion \in Nat
        /\ a.sourceVersion <= events[a.source].version
    BY <1>1 DEF ActFits, ActRow
  <2>2. events[a.source].version \in Nat /\ events'[a.source].version \in Nat
    BY <2>1, EventOf DEF RowsOK
  <2> QED
    BY <2>1, <2>2
<1> QED
  BY <1>1 DEF ActFits

\* One transaction of merge or undo goes on, or none.
LEMMA ActsKept ==
    ASSUME ActsOK, NEW o \in Owners, NEW b \in ActRow, ActFits(b)',
           \A a \in ActRow : ActFits(a) => ActFits(a)',
           act' = [act EXCEPT ![o] = b] \/ UNCHANGED act
    PROVE  ActsOK'
<1>1. act' \in [Owners -> ActRow]
  BY DEF ActsOK
<1>2. ASSUME NEW p \in Owners PROVE \E a \in ActRow : a = act'[p] /\ ActFits(a)'
  <2>1. CASE act'[p] = act[p]
    BY <2>1 DEF ActsOK
  <2>2. CASE act'[p] = b
    BY <2>2
  <2> QED
    BY <2>1, <2>2 DEF ActsOK
<1>3. ASSUME NEW p \in Owners PROVE ActFits(act[p])'
  <2>1. PICK a \in ActRow : a = act'[p] /\ ActFits(a)'
    BY <1>2
  <2> QED
    BY <2>1 DEF ActFits
<1> QED
  BY <1>1, <1>3 DEF ActsOK

\* The acts-only steps: nothing else changes.
LEMMA GoesKeeps ==
    ASSUME ActsOK, NEW o \in Owners, NEW b \in ActRow, ActFits(b), Goes(o, b)
    PROVE  ActsOK'
<1>1. UNCHANGED <<events, merges>> /\ act' = [act EXCEPT ![o] = b]
  BY DEF Goes
<1>2. \A a \in ActRow : ActFits(a) => ActFits(a)'
  BY <1>1 DEF ActFits
<1> QED
  BY <1>1, <1>2, ActsKept

LEMMA ActsNext == KnowledgeInv /\ RowsOK' /\ [Next]_vars => ActsOK'
<1> SUFFICES ASSUME KnowledgeInv, RowsOK', [Next]_vars PROVE ActsOK'
  OBVIOUS
<1>0. RowsOK /\ AppliedStands /\ ActsOK
  BY DEF KnowledgeInv
<1>a. \A o \in Owners : act[o] \in ActRow /\ ActFits(act[o])
  BY <1>0 DEF ActsOK
<1>n. NoAct \in ActRow /\ ActFits(NoAct) /\ ActFits(NoAct)'
  BY DEF NoAct, ActRow, ActFits
<1>1. ASSUME NEW o \in Owners, NEW s \in DOMAIN events, NEW t \in DOMAIN events,
             Expect(o, s, t)
      PROVE  ActsOK'
  <2> DEFINE b == [pc |-> "check", source |-> s, target |-> t, merge |-> None,
                   sourceVersion |-> events[s].version,
                   targetVersion |-> events[t].version, unchecked |-> {s, t}]
  <2>1. s \in Nat /\ t \in Nat /\ events[s].version \in Nat /\ events[t].version \in Nat
    BY <1>0, EventOf DEF RowsOK
  <2>2. b \in ActRow /\ ActFits(b)
    BY <2>1 DEF ActRow, ActFits
  <2>3. Goes(o, b)
    BY <1>1 DEF Expect
  <2> QED
    BY <1>0, <2>2, <2>3, GoesKeeps
<1>2. ASSUME NEW o \in Owners, NEW e \in DOMAIN events, CheckVersion(o, e) PROVE ActsOK'
  <2>1. PICK a \in ActRow : a = act[o] /\ ActFits(a) /\ a.pc = "check"
    BY <1>2, <1>a DEF CheckVersion
  <2> DEFINE b == [a EXCEPT !.pc = IF a.unchecked = {e} THEN "noteTarget" ELSE "check",
                            !.unchecked = @ \ {e}]
  <2>2. b \in ActRow /\ ActFits(b)
    BY <2>1 DEF ActRow, ActFits
  <2>3. Goes(o, NoAct) \/ Goes(o, b)
    BY <1>2, <2>1 DEF CheckVersion
  <2> HIDE DEF b
  <2> QED
    BY <1>0, <1>n, <2>2, <2>3, GoesKeeps
<1>3. ASSUME NEW o \in Owners, NoteTarget(o) PROVE ActsOK'
  <2>1. PICK a \in ActRow : a = act[o] /\ ActFits(a) /\ a.pc = "noteTarget"
    BY <1>3, <1>a DEF NoteTarget
  <2>2. events[a.target].version \in Nat
    BY <1>0, <2>1, EventOf DEF ActFits, RowsOK
  <2> DEFINE b == [a EXCEPT !.pc = "noteSource", !.targetVersion = events[a.target].version]
  <2>3. b \in ActRow /\ ActFits(b)
    BY <2>1, <2>2 DEF ActRow, ActFits
  <2>4. Goes(o, b)
    BY <1>3, <2>1 DEF NoteTarget
  <2> HIDE DEF b
  <2> QED
    BY <1>0, <2>3, <2>4, GoesKeeps
<1>4. ASSUME NEW o \in Owners, NoteSource(o) PROVE ActsOK'
  <2>1. PICK a \in ActRow : a = act[o] /\ ActFits(a) /\ a.pc = "noteSource"
    BY <1>4, <1>a DEF NoteSource
  <2>2. events[a.source].version \in Nat
    BY <1>0, <2>1, EventOf DEF ActFits, RowsOK
  <2> DEFINE b == [a EXCEPT !.pc = "save", !.sourceVersion = events[a.source].version]
  <2>3. b \in ActRow /\ ActFits(b)
    <3>1. /\ b \in ActRow /\ b.pc = "save" /\ b.source = a.source /\ b.target = a.target
          /\ b.sourceVersion = events[a.source].version
      BY <2>1, <2>2 DEF ActRow
    <3> HIDE DEF b
    <3> QED
      BY <2>1, <2>2, <3>1 DEF ActFits
  <2>4. Goes(o, b)
    BY <1>4, <2>1 DEF NoteSource
  <2> HIDE DEF b
  <2> QED
    BY <1>0, <2>3, <2>4, GoesKeeps
<1>5. ASSUME NEW o \in Owners, NEW n \in DOMAIN merges, LookTarget(o, n) PROVE ActsOK'
  <2> DEFINE b == [NoAct EXCEPT !.pc = "look", !.source = merges[n].source,
                                !.target = merges[n].target, !.merge = n]
  <2>1. n \in Nat /\ merges[n] \in Merges
    BY <1>0 DEF RowsOK
  <2>2. b \in ActRow /\ ActFits(b)
    BY <2>1 DEF NoAct, ActRow, ActFits, Merges
  <2>3. Goes(o, b)
    BY <1>5 DEF LookTarget
  <2> HIDE DEF b
  <2> QED
    BY <1>0, <2>2, <2>3, GoesKeeps
<1>6. ASSUME NEW o \in Owners, LookSource(o) PROVE ActsOK'
  <2>1. PICK a \in ActRow : a = act[o] /\ ActFits(a) /\ a.pc = "look"
    BY <1>6, <1>a DEF LookSource
  <2>2. /\ a.merge \in DOMAIN merges /\ a.source = merges[a.merge].source
        /\ a.source \in DOMAIN events
    BY <1>0, <2>1 DEF ActFits, RowsOK
  <2>3. events[a.source].version \in Nat /\ merges[a.merge].sourceVersion \in Nat
    BY <1>0, <2>2, EventOf, MergeOf DEF RowsOK
  <2>4. CASE SourceModified(merges[a.merge])
    BY <1>0, <1>6, <1>n, <2>1, <2>4, GoesKeeps DEF LookSource
  <2>5. CASE ~SourceModified(merges[a.merge])
    <3> DEFINE b == [a EXCEPT !.pc = "undo", !.sourceVersion = events[a.source].version]
    <3>1. events[a.source].version <= merges[a.merge].sourceVersion + 1
      BY <2>2, <2>3, <2>5 DEF SourceModified
    <3>2. b \in ActRow /\ ActFits(b)
      BY <2>1, <2>2, <2>3, <3>1 DEF ActRow, ActFits
    <3>3. Goes(o, b)
      BY <1>6, <2>1, <2>5 DEF LookSource
    <3> HIDE DEF b
    <3> QED
      BY <1>0, <3>2, <3>3, GoesKeeps
  <2> QED
    BY <2>4, <2>5
<1>7. ASSUME UNCHANGED <<events, merges, act>> PROVE ActsOK'
  BY <1>0, <1>7 DEF ActsOK, ActFits
<1>8. ASSUME NEW w \in Workers, NEW named \in SUBSET claims, InsertEvent(w, named)
      PROVE  ActsOK'
  <2>1. /\ events' = Append(events, NewEvent(run[w].key)) /\ UNCHANGED <<merges, act>>
    BY <1>8 DEF InsertEvent
  <2>2. \A e \in DOMAIN events : e \in DOMAIN events' /\ events'[e] = events[e]
    BY <1>0, <2>1 DEF RowsOK
  <2> QED
    BY <1>0, <2>1, <2>2 DEF ActsOK, ActFits
<1>9. ASSUME NEW o \in Owners, ApplyMerge(o) PROVE ActsOK'
  <2>1. PICK a \in ActRow : a = act[o] /\ ActFits(a) /\ a.pc = "save"
    BY <1>9, <1>a DEF ApplyMerge
  <2> DEFINE s == a.source
  <2>2. s \in DOMAIN events /\ events[s] \in Events
    BY <1>0, <2>1 DEF ActFits, RowsOK
  <2>3. PICK row, m : /\ row = Merged(events[s], a.target)
                      /\ events' = [events EXCEPT ![s] = row] /\ merges' = Append(merges, m)
                      /\ act' = [act EXCEPT ![o] = NoAct]
    BY <1>9, <2>1 DEF ApplyMerge
  <2>4. row.version = events[s].version + 1
    BY <2>3 DEF Merged
  <2>5. \A n \in DOMAIN merges : n \in DOMAIN merges' /\ merges'[n] = merges[n]
    BY <1>0, <2>3 DEF RowsOK
  <2>6. events' \in Seq(Events)
    BY DEF RowsOK
  <2>7. \A e \in DOMAIN events : e \in DOMAIN events' /\ events[e].version <= events'[e].version
    <3>1. \A e \in DOMAIN events : events[e].version \in Nat
      BY <1>0, EventOf DEF RowsOK
    <3>2. /\ DOMAIN events' = DOMAIN events /\ events'[s] = row
          /\ \A e \in DOMAIN events : e # s => events'[e] = events[e]
      BY <1>0, <2>2, <2>3 DEF RowsOK
    <3> QED
      BY <2>2, <2>4, <3>1, <3>2
  <2>8. \A b \in ActRow : ActFits(b) => ActFits(b)'
    BY <1>0, <2>5, <2>6, <2>7, RowsAge
  <2> QED
    BY <1>0, <1>n, <2>3, <2>8, ActsKept
<1>10. ASSUME NEW o \in Owners, UndoMerge(o) PROVE ActsOK'
  <2>1. PICK a \in ActRow : a = act[o] /\ ActFits(a) /\ a.pc = "undo"
    BY <1>10, <1>a DEF UndoMerge
  <2> DEFINE s == a.source
             k == a.merge
  <2>2. k \in DOMAIN merges /\ s \in DOMAIN events /\ events[s] \in Events /\ merges[k] \in Merges
    BY <1>0, <2>1 DEF ActFits, RowsOK
  <2>3. PICK row, m : /\ row = Active(events[s]) /\ m = [merges[k] EXCEPT !.status = "undone"]
                      /\ events' = [events EXCEPT ![s] = row]
                      /\ merges' = [merges EXCEPT ![k] = m]
                      /\ act' = [act EXCEPT ![o] = NoAct]
    BY <1>10, <2>1 DEF UndoMerge
  <2>4. row.version = events[s].version + 1
    BY <2>3 DEF Active
  <2>5. m.source = merges[k].source /\ m.sourceVersion = merges[k].sourceVersion
    BY <2>2, <2>3 DEF Merges
  <2>6. \A n \in DOMAIN merges : /\ n \in DOMAIN merges'
                                 /\ merges'[n].source = merges[n].source
                                 /\ merges'[n].sourceVersion = merges[n].sourceVersion
    BY <1>0, <2>3, <2>5 DEF RowsOK
  <2>7. events' \in Seq(Events)
    BY DEF RowsOK
  <2>8. \A e \in DOMAIN events : e \in DOMAIN events' /\ events[e].version <= events'[e].version
    <3>1. \A e \in DOMAIN events : events[e].version \in Nat
      BY <1>0, EventOf DEF RowsOK
    <3>2. /\ DOMAIN events' = DOMAIN events /\ events'[s] = row
          /\ \A e \in DOMAIN events : e # s => events'[e] = events[e]
      BY <1>0, <2>2, <2>3 DEF RowsOK
    <3> QED
      BY <2>2, <2>4, <3>1, <3>2
  <2>9. \A b \in ActRow : ActFits(b) => ActFits(b)'
    BY <1>0, <2>6, <2>7, <2>8, RowsAge
  <2> QED
    BY <1>0, <1>n, <2>3, <2>9, ActsKept
<1> QED
  BY <1>1, <1>2, <1>3, <1>4, <1>5, <1>6, <1>7, <1>8, <1>9, <1>10
     DEF Next, RunStep, OwnerStep, BeginCommit, CommitExtraction, Propose, LinkEvent, Crash, vars

LEMMA KnowledgeNext == KnowledgeInv /\ [Next]_vars => KnowledgeInv'
  BY TablesNext, ActsNext DEF KnowledgeInv

\* An undo that writes the version of the source it compared takes back its own
\* merge: at that version nothing but the merge has written the source.
THEOREM UndoIsExact == Spec => UndoOnlyOwnOrRaced
<1>1. ASSUME KnowledgeInv, [Next]_vars, NEW n \in DOMAIN merges, Undone(n)
      PROVE  \/ InPlace(merges[n])
             \/ \E o \in Owners : /\ act'[o] # act[o]
                                  /\ act[o].pc = "undo" /\ act[o].merge = n
                                  /\ events[merges[n].source].version > act[o].sourceVersion
  <2> USE DEF KnowledgeInv
  <2>1. PICK o \in Owners : UndoMerge(o)
    <3>1. merges' # merges
      BY <1>1 DEF Undone
    <3>2. ASSUME NEW o \in Owners, ApplyMerge(o) PROVE FALSE
      BY <1>1, <3>2 DEF ApplyMerge, RowsOK, Undone
    <3> QED
      BY <1>1, <3>1, <3>2 DEF Next, RunStep, OwnerStep, BeginCommit, CommitExtraction, Propose,
                              LinkEvent, InsertEvent, Crash, Goes, Expect, CheckVersion,
                              NoteTarget, NoteSource, LookTarget, LookSource, vars
  <2>0. act[o] \in ActRow /\ ActFits(act[o]) /\ act[o].pc = "undo"
    BY <1>1, <2>1 DEF UndoMerge, ActsOK
  <2>2. PICK a \in ActRow : a = act[o] /\ ActFits(a) /\ a.pc = "undo"
    BY <2>0
  <2>3. a.merge = n
    BY <1>1, <2>1, <2>2 DEF UndoMerge, RowsOK, Undone
  <2>4. act'[o] # act[o]
    <3>1. act'[o] = NoAct /\ NoAct.pc = "idle"
      BY <1>1, <2>1 DEF UndoMerge, ActsOK, NoAct
    <3> QED
      BY <2>0, <3>1
  <2>5. merges[n] \in Merges /\ events[merges[n].source] \in Events
    BY <1>1 DEF RowsOK
  <2>6. merges[n].sourceVersion \in Nat /\ events[merges[n].source].version \in Nat
        /\ a.sourceVersion \in Nat
    BY <2>2, <2>5 DEF Merges, Events, ActRow
  <2>7. a.sourceVersion <= merges[n].sourceVersion + 1
    BY <2>2, <2>3 DEF ActFits
  <2>8. events[merges[n].source].version > merges[n].sourceVersion
        /\ Points(events[merges[n].source], merges[n])
    BY <1>1 DEF AppliedStands, Undone
  <2>9. CASE events[merges[n].source].version > a.sourceVersion
    BY <2>2, <2>3, <2>4, <2>9
  <2>10. CASE ~(events[merges[n].source].version > a.sourceVersion)
    <3>1. events[merges[n].source].version = merges[n].sourceVersion + 1
      BY <2>6, <2>7, <2>8, <2>10
    <3> QED
      BY <2>8, <3>1 DEF Points, InPlace
  <2> QED
    BY <2>9, <2>10
<1>2. KnowledgeInv /\ [Next]_vars =>
         [\A n \in DOMAIN merges : Undone(n) =>
             \/ InPlace(merges[n])
             \/ \E o \in Owners : /\ act'[o] # act[o]
                                  /\ act[o].pc = "undo" /\ act[o].merge = n
                                  /\ events[merges[n].source].version > act[o].sourceVersion]_vars
  BY <1>1
<1> QED
  BY <1>2, KnowledgeInit, KnowledgeNext, PTL DEF Spec, UndoOnlyOwnOrRaced

\* A run links only claims that are committed and of its own extraction.
THEOREM LinksStayHome == Spec => LinksOwnClaims
<1>1. ASSUME KnowledgeInv, [Next]_vars, NEW k \in links' \ links
      PROVE  /\ k[2] \in claims
             /\ \E w \in Workers : run[w].pc = "resolving" /\ run[w].job = k[2][1]
  <2> USE DEF KnowledgeInv
  <2>1. PICK w \in Workers, named \in SUBSET claims : LinkEvent(w, named) \/ InsertEvent(w, named)
    BY <1>1 DEF Next, RunStep, OwnerStep, BeginCommit, CommitExtraction, Propose, Crash, Goes,
                Expect, CheckVersion, NoteTarget, NoteSource, ApplyMerge, LookTarget,
                LookSource, UndoMerge, vars
  <2>2. run[w].pc = "resolving" /\ k[2] \in Committed(run[w], named)
    BY <1>1, <2>1 DEF LinkEvent, InsertEvent
  <2>3. k[2] \in run[w].known
    BY <2>2 DEF Committed
  <2>4. k[2] \in claims /\ run[w].job = k[2][1]
    BY <1>1, <2>3 DEF KnownOwn
  <2> QED
    BY <2>2, <2>4
<1>2. KnowledgeInv /\ [Next]_vars =>
         [\A k \in links' \ links :
             /\ k[2] \in claims
             /\ \E w \in Workers : run[w].pc = "resolving" /\ run[w].job = k[2][1]]_vars
  BY <1>1
<1> QED
  BY <1>2, KnowledgeInit, KnowledgeNext, PTL DEF Spec, LinksOwnClaims

-----------------------------------------------------------------------------
(* Only a race duplicates.  A run that looked and found nothing may still   *)
(* insert, so it counts with the rows that are there; it found nothing only *)
(* when there was nothing, and then the runs themselves are the bound.      *)

\* Runs that found no family and may still insert one.
FamilyRuns == {w \in Workers : run[w].pc = "extracting" /\ run[w].found = None}

\* Events of a key, and the runs that found none and may still insert one.
Own(key) == {e \in DOMAIN events : events[e].key = key}
EventRuns(key) ==
    {w \in Workers : run[w].pc = "resolving" /\ run[w].key = key /\ run[w].found = None}

\* No event of the key was ever merged away.
Unmerged(key) == \A n \in DOMAIN merges : merges[n].source \notin Own(key)

FamilyInv ==
    families \in Nat /\ families + Cardinality(FamilyRuns) <= Cardinality(Workers)

OnlyMergesMove ==
    \A e \in DOMAIN events :
        (\A n \in DOMAIN merges : merges[n].source # e) => events[e].lifecycle = "active"

KeyInv ==
    \A key \in Keys :
        Unmerged(key) =>
            Cardinality(Own(key)) + Cardinality(EventRuns(key)) <= Cardinality(Workers)

RaceInv == RowsOK /\ FamilyInv /\ OnlyMergesMove /\ KeyInv

LEMMA SomeWorkers ==
    ASSUME NEW S \in SUBSET Workers
    PROVE  /\ IsFiniteSet(S) /\ Cardinality(S) \in Nat
           /\ Cardinality(Workers) \in Nat /\ Cardinality(S) <= Cardinality(Workers)
  BY KnowledgeAssumption, FS_Subset, FS_CardinalityType

LEMMA OwnFinite ==
    ASSUME RowsOK, NEW key
    PROVE  IsFiniteSet(Own(key)) /\ Cardinality(Own(key)) \in Nat
<1>1. DOMAIN events = 1 .. Len(events) /\ Len(events) \in Nat
  BY DEF RowsOK
<1>2. IsFiniteSet(1 .. Len(events))
  BY <1>1, FS_Interval
<1>3. Own(key) \in SUBSET (1 .. Len(events))
  BY <1>1 DEF Own
<1> QED
  BY <1>2, <1>3, FS_Subset, FS_CardinalityType

LEMMA RaceInit == Init => RaceInv
<1> SUFFICES ASSUME Init PROVE RaceInv
  OBVIOUS
<1>1. RowsOK
  BY KnowledgeInit DEF KnowledgeInv
<1>2. FamilyRuns = {} /\ \A key \in Keys : Own(key) = {} /\ EventRuns(key) = {}
  BY DEF Init, NoRun, FamilyRuns, EventRuns, Own
<1>3. Cardinality({}) = 0 /\ Cardinality(Workers) \in Nat
  BY FS_EmptySet, SomeWorkers
<1>4. FamilyInv
  BY <1>2, <1>3 DEF Init, FamilyInv
<1>5. OnlyMergesMove
  BY DEF Init, OnlyMergesMove
<1>6. KeyInv
  BY <1>2, <1>3 DEF KeyInv
<1> QED
  BY <1>1, <1>4, <1>5, <1>6 DEF RaceInv

\* A run leaves a set of runs, or joins it.
LEMMA RunLeaves ==
    ASSUME NEW S \in SUBSET Workers, NEW T \in SUBSET S
    PROVE  Cardinality(T) <= Cardinality(S) /\ Cardinality(T) \in Nat
  BY SomeWorkers, FS_Subset

\* What the run w does next is not an insertion of a family.
LEMMA FamilyKept ==
    ASSUME FamilyInv, UNCHANGED families, NEW w \in Workers, NEW r,
           run \in [Workers -> RunRow], run' = [run EXCEPT ![w] = r],
           \/ ~(r.pc = "extracting" /\ r.found = None)
           \/ families = 0
    PROVE  FamilyInv'
<1>1. CASE ~(r.pc = "extracting" /\ r.found = None)
  <2>1. FamilyRuns' \in SUBSET FamilyRuns
    BY <1>1 DEF FamilyRuns
  <2>2. /\ Cardinality(FamilyRuns') <= Cardinality(FamilyRuns)
        /\ Cardinality(FamilyRuns') \in Nat
    BY <2>1, RunLeaves DEF FamilyRuns
  <2>3. Cardinality(Workers) \in Nat /\ Cardinality(FamilyRuns) \in Nat
    BY SomeWorkers DEF FamilyRuns
  <2> QED
    BY <2>2, <2>3 DEF FamilyInv
<1>2. CASE families = 0
  <2>1. FamilyRuns' \in SUBSET Workers
    BY DEF FamilyRuns
  <2>2. /\ Cardinality(FamilyRuns') <= Cardinality(Workers)
        /\ Cardinality(FamilyRuns') \in Nat
    BY <2>1, SomeWorkers
  <2> QED
    BY <1>2, <2>2 DEF FamilyInv
<1> QED
  BY <1>1, <1>2

\* What the run w does next is not an insertion of an event.
LEMMA KeysKept ==
    ASSUME RowsOK, KeyInv, UNCHANGED <<events, merges>>, NEW w \in Workers, NEW r,
           run' = [run EXCEPT ![w] = r],
           \A key \in Keys :
              \/ ~(r.pc = "resolving" /\ r.key = key /\ r.found = None)
              \/ Unmerged(key) => Own(key) = {}
    PROVE  KeyInv'
<1> SUFFICES ASSUME NEW key \in Keys, Unmerged(key)'
             PROVE  Cardinality(Own(key))' + Cardinality(EventRuns(key))'
                       <= Cardinality(Workers)
  BY DEF KeyInv
<1>1. Own(key)' = Own(key) /\ Unmerged(key)
  BY DEF Own, Unmerged
<1>2. run \in [Workers -> RunRow]
  BY DEF RowsOK
<1>3. CASE ~(r.pc = "resolving" /\ r.key = key /\ r.found = None)
  <2>1. EventRuns(key)' \in SUBSET EventRuns(key)
    BY <1>2, <1>3 DEF EventRuns
  <2>2. /\ Cardinality(EventRuns(key)') <= Cardinality(EventRuns(key))
        /\ Cardinality(EventRuns(key)') \in Nat
    BY <2>1, RunLeaves DEF EventRuns
  <2>3. Cardinality(Workers) \in Nat /\ Cardinality(EventRuns(key)) \in Nat
    BY SomeWorkers DEF EventRuns
  <2>4. Cardinality(Own(key)) + Cardinality(EventRuns(key)) <= Cardinality(Workers)
    BY <1>1 DEF KeyInv
  <2> QED
    BY <1>1, <2>2, <2>3, <2>4, OwnFinite
<1>4. CASE Own(key) = {}
  <2>1. EventRuns(key)' \in SUBSET Workers
    BY DEF EventRuns
  <2>2. /\ Cardinality(EventRuns(key)') <= Cardinality(Workers)
        /\ Cardinality(EventRuns(key)') \in Nat
    BY <2>1, SomeWorkers
  <2>3. Cardinality(Own(key)') = 0
    BY <1>1, <1>4, FS_EmptySet
  <2> QED
    BY <2>2, <2>3
<1> QED
  BY <1>1, <1>3, <1>4

LEMMA RaceNext == KnowledgeInv /\ RaceInv /\ [Next]_vars => RaceInv'
<1> SUFFICES ASSUME KnowledgeInv, RaceInv, [Next]_vars
             PROVE  FamilyInv' /\ OnlyMergesMove' /\ KeyInv'
  BY KnowledgeNext DEF RaceInv, KnowledgeInv
<1>0. RowsOK /\ FamilyInv /\ OnlyMergesMove /\ KeyInv /\ run \in [Workers -> RunRow]
  BY DEF RaceInv, RowsOK
<1>n. NoRun.pc = "idle"
  BY DEF NoRun
<1>1. ASSUME NEW w \in Workers, NEW x \in Extractions, BeginCommit(w, x)
      PROVE  FamilyInv' /\ OnlyMergesMove' /\ KeyInv'
  <2> DEFINE r == [NoRun EXCEPT !.pc = "extracting", !.job = x,
                                !.found = IF families > 0 THEN 1 ELSE None]
  <2>1. r.pc = "extracting" /\ (families > 0 => r.found = 1)
    BY DEF NoRun
  <2>2. run' = [run EXCEPT ![w] = r] /\ UNCHANGED <<families, events, merges>>
    BY <1>1 DEF BeginCommit
  <2> HIDE DEF r
  <2>3. ~(r.pc = "extracting" /\ r.found = None) \/ families = 0
    <3>1. CASE families > 0
      BY <2>1, <3>1, KnowledgeAssumption
    <3>2. CASE ~(families > 0)
      BY <1>0, <3>2 DEF FamilyInv
    <3> QED
      BY <3>1, <3>2
  <2> QED
    BY <1>0, <2>1, <2>2, <2>3, FamilyKept, KeysKept DEF OnlyMergesMove
<1>2. ASSUME NEW w \in Workers, NEW accepted \in BOOLEAN, CommitExtraction(w, accepted)
      PROVE  FamilyInv' /\ OnlyMergesMove' /\ KeyInv'
  <2>1. /\ run' = [run EXCEPT ![w] = NoRun] /\ UNCHANGED <<events, merges>>
        /\ run[w].pc = "extracting"
        /\ families' = IF run[w].found = None THEN families + 1 ELSE families
    BY <1>2 DEF CommitExtraction
  <2>2. FamilyRuns' = FamilyRuns \ {w}
    BY <1>0, <1>n, <2>1 DEF FamilyRuns
  <2>3. /\ IsFiniteSet(FamilyRuns) /\ Cardinality(FamilyRuns) \in Nat
        /\ Cardinality(Workers) \in Nat
    BY SomeWorkers DEF FamilyRuns
  <2>4. Cardinality(FamilyRuns') = IF w \in FamilyRuns THEN Cardinality(FamilyRuns) - 1
                                                       ELSE Cardinality(FamilyRuns)
    BY <2>2, <2>3, FS_RemoveElement
  <2>5. w \in FamilyRuns <=> run[w].found = None
    BY <2>1 DEF FamilyRuns
  <2>6. FamilyInv'
    BY <1>0, <2>1, <2>3, <2>4, <2>5 DEF FamilyInv
  <2> QED
    BY <1>0, <1>n, <2>1, <2>6, KeysKept DEF OnlyMergesMove
<1>3. ASSUME NEW w \in Workers, NEW x \in Extractions, NEW key \in Keys \cup {None},
             Propose(w, x, key)
      PROVE  FamilyInv' /\ OnlyMergesMove' /\ KeyInv'
  <2>1. PICK e \in IF FindEvent(key) = {} THEN {None} ELSE FindEvent(key) :
           run' = [run EXCEPT ![w] = [pc |-> "resolving", job |-> x, key |-> key,
                                      found |-> e, known |-> Commits(x)]]
    BY <1>3 DEF Propose
  <2>2. UNCHANGED <<families, events, merges>>
    BY <1>3 DEF Propose
  <2> DEFINE r == [pc |-> "resolving", job |-> x, key |-> key,
                   found |-> e, known |-> Commits(x)]
  <2>3. r.pc = "resolving" /\ r.key = key /\ r.found = e /\ run' = [run EXCEPT ![w] = r]
    BY <2>1
  <2> HIDE DEF r
  <2>4. e = None => FindEvent(key) = {}
    BY <2>1, KnowledgeAssumption DEF FindEvent, RowsOK, RaceInv
  <2>5. ASSUME NEW k \in Keys, r.key = k, r.found = None, Unmerged(k)
        PROVE  Own(k) = {}
    <3>1. FindEvent(k) = {} /\ k # None
      BY <2>3, <2>4, <2>5, KnowledgeAssumption
    <3>2. ASSUME NEW i \in Own(k) PROVE FALSE
      <4>1. i \in DOMAIN events /\ events[i].key = k
        BY <3>2 DEF Own
      <4>2. events[i].lifecycle = "active"
        BY <1>0, <2>5, <3>2, <4>1 DEF OnlyMergesMove, Unmerged
      <4> QED
        BY <3>1, <4>1, <4>2 DEF FindEvent
    <3> QED
      BY <3>2
  <2>6. FamilyInv'
    BY <1>0, <2>2, <2>3, FamilyKept
  <2>7. KeyInv'
    BY <1>0, <2>2, <2>3, <2>5, KeysKept
  <2> QED
    BY <1>0, <2>2, <2>6, <2>7 DEF OnlyMergesMove
<1>4. ASSUME NEW w \in Workers, NEW named \in SUBSET claims, LinkEvent(w, named)
      PROVE  FamilyInv' /\ OnlyMergesMove' /\ KeyInv'
  <2>1. run' = [run EXCEPT ![w] = NoRun] /\ UNCHANGED <<families, events, merges>>
    BY <1>4 DEF LinkEvent
  <2> QED
    BY <1>0, <1>n, <2>1, FamilyKept, KeysKept DEF OnlyMergesMove
<1>5. ASSUME NEW w \in Workers, NEW named \in SUBSET claims, InsertEvent(w, named)
      PROVE  FamilyInv' /\ OnlyMergesMove' /\ KeyInv'
  <2> DEFINE row == NewEvent(run[w].key)
             last == Len(events) + 1
  <2>1. /\ run' = [run EXCEPT ![w] = NoRun] /\ UNCHANGED <<families, merges>>
        /\ run[w].pc = "resolving" /\ run[w].found = None
        /\ events' = Append(events, row)
    BY <1>5 DEF InsertEvent
  <2>2. row \in Events /\ row.lifecycle = "active" /\ row.key = run[w].key
    BY <1>0 DEF NewEvent, Events, RowsOK, RunRow
  <2> HIDE DEF row
  <2>3. /\ DOMAIN events' = DOMAIN events \cup {last} /\ last \notin DOMAIN events
        /\ events'[last] = row
        /\ \A e \in DOMAIN events : events'[e] = events[e]
    BY <1>0, <2>1, <2>2 DEF RowsOK
  <2>4. FamilyInv'
    BY <1>0, <1>n, <2>1, FamilyKept
  <2>5. OnlyMergesMove'
    BY <1>0, <2>1, <2>2, <2>3 DEF OnlyMergesMove
  <2>6. ASSUME NEW key \in Keys, Unmerged(key)'
        PROVE  Cardinality(Own(key))' + Cardinality(EventRuns(key))' <= Cardinality(Workers)
    <3>1. Own(key)' = IF run[w].key = key THEN Own(key) \cup {last} ELSE Own(key)
      BY <2>2, <2>3 DEF Own
    <3>2. EventRuns(key)' = EventRuns(key) \ {w}
      BY <1>0, <1>n, <2>1 DEF EventRuns
    <3>3. w \in EventRuns(key) <=> run[w].key = key
      BY <2>1 DEF EventRuns
    <3>4. last \notin Own(key) /\ Own(key) \subseteq Own(key)'
      BY <2>3, <3>1 DEF Own
    <3>5. Unmerged(key)
      BY <2>1, <2>6, <3>4 DEF Unmerged
    <3>6. /\ IsFiniteSet(EventRuns(key)) /\ Cardinality(EventRuns(key)) \in Nat
          /\ Cardinality(Workers) \in Nat
      BY SomeWorkers DEF EventRuns
    <3>7. Cardinality(EventRuns(key)') =
             IF w \in EventRuns(key) THEN Cardinality(EventRuns(key)) - 1
                                     ELSE Cardinality(EventRuns(key))
      BY <3>2, <3>6, FS_RemoveElement
    <3>8. IsFiniteSet(Own(key)) /\ Cardinality(Own(key)) \in Nat
      BY <1>0, OwnFinite
    <3>9. Cardinality(Own(key)') =
             IF run[w].key = key THEN Cardinality(Own(key)) + 1 ELSE Cardinality(Own(key))
      BY <3>1, <3>4, <3>8, FS_AddElement
    <3> QED
      BY <1>0, <3>3, <3>5, <3>6, <3>7, <3>8, <3>9 DEF KeyInv
  <2> QED
    BY <2>4, <2>5, <2>6 DEF KeyInv
<1>6. ASSUME NEW w \in Workers, Crash(w)
      PROVE  FamilyInv' /\ OnlyMergesMove' /\ KeyInv'
  <2>1. run' = [run EXCEPT ![w] = NoRun] /\ UNCHANGED <<families, events, merges>>
    BY <1>6 DEF Crash
  <2> QED
    BY <1>0, <1>n, <2>1, FamilyKept, KeysKept DEF OnlyMergesMove
<1>7. ASSUME UNCHANGED <<families, run>>, DOMAIN events' = DOMAIN events,
             \A e \in DOMAIN events : events'[e].key = events[e].key,
             \A n \in DOMAIN merges : n \in DOMAIN merges' /\ merges'[n].source = merges[n].source,
             OnlyMergesMove'
      PROVE  FamilyInv' /\ OnlyMergesMove' /\ KeyInv'
  <2>1. FamilyInv'
    BY <1>0, <1>7 DEF FamilyInv, FamilyRuns
  <2>2. ASSUME NEW key \in Keys, Unmerged(key)'
        PROVE  Cardinality(Own(key))' + Cardinality(EventRuns(key))' <= Cardinality(Workers)
    <3>1. Own(key)' = Own(key) /\ EventRuns(key)' = EventRuns(key)
      BY <1>7 DEF Own, EventRuns
    <3>2. Unmerged(key)
      BY <1>7, <2>2, <3>1 DEF Unmerged
    <3> QED
      BY <1>0, <3>1, <3>2 DEF KeyInv
  <2> QED
    BY <1>7, <2>1, <2>2 DEF KeyInv
<1>8. ASSUME NEW o \in Owners, ApplyMerge(o)
      PROVE  FamilyInv' /\ OnlyMergesMove' /\ KeyInv'
  <2>0. PICK s, t, v, u : s = act[o].source /\ t = act[o].target
                          /\ v = act[o].sourceVersion /\ u = act[o].targetVersion
    OBVIOUS
  <2> DEFINE m == [source |-> s, target |-> t, status |-> "applied",
                   sourceVersion |-> v, targetVersion |-> u]
             row == Merged(events[s], t)
  <2>01. s \in DOMAIN events
    BY <1>8, <2>0 DEF KnowledgeInv, ActsOK, ActFits, ApplyMerge
  <2>1. m.source = s /\ row.key = events[s].key
    BY DEF Merged
  <2>2. /\ merges' = Append(merges, m) /\ events' = [events EXCEPT ![s] = row]
        /\ UNCHANGED <<families, run>>
    BY <1>8, <2>0 DEF ApplyMerge
  <2> HIDE DEF m, row
  <2>3. /\ \A n \in DOMAIN merges : n \in DOMAIN merges' /\ merges'[n] = merges[n]
        /\ Len(merges) + 1 \in DOMAIN merges' /\ merges'[Len(merges) + 1] = m
    BY <1>0, <2>2 DEF RowsOK
  <2>4. /\ DOMAIN events' = DOMAIN events /\ events'[s] = row
        /\ \A e \in DOMAIN events : e # s => events'[e] = events[e]
    BY <1>0, <2>01, <2>2 DEF RowsOK
  <2>5. OnlyMergesMove'
    BY <1>0, <2>1, <2>3, <2>4 DEF OnlyMergesMove
  <2>6. \A e \in DOMAIN events : events'[e].key = events[e].key
    BY <2>1, <2>4
  <2> QED
    BY <1>7, <2>2, <2>3, <2>4, <2>5, <2>6
<1>9. ASSUME NEW o \in Owners, UndoMerge(o)
      PROVE  FamilyInv' /\ OnlyMergesMove' /\ KeyInv'
  <2>0. PICK k, s : k = act[o].merge /\ s = act[o].source
    OBVIOUS
  <2> DEFINE row == Active(events[s])
             m == [merges[k] EXCEPT !.status = "undone"]
  <2>01. k \in DOMAIN merges /\ s = merges[k].source
    BY <1>9, <2>0 DEF KnowledgeInv, ActsOK, ActFits, UndoMerge
  <2>1. merges[k] \in Merges /\ s \in DOMAIN events
    BY <1>0, <2>01 DEF RowsOK
  <2>2. m.source = s /\ row.key = events[s].key /\ row.lifecycle = "active"
    BY <2>01, <2>1 DEF Active, Merges
  <2>3. /\ merges' = [merges EXCEPT ![k] = m] /\ events' = [events EXCEPT ![s] = row]
        /\ UNCHANGED <<families, run>>
    BY <1>9, <2>0 DEF UndoMerge
  <2> HIDE DEF m, row
  <2>4. /\ DOMAIN merges' = DOMAIN merges
        /\ \A n \in DOMAIN merges : merges'[n].source = merges[n].source
    BY <1>0, <2>01, <2>2, <2>3 DEF RowsOK
  <2>5. /\ DOMAIN events' = DOMAIN events /\ events'[s] = row
        /\ \A e \in DOMAIN events : e # s => events'[e] = events[e]
    BY <1>0, <2>1, <2>3 DEF RowsOK
  <2>6. OnlyMergesMove'
    BY <1>0, <2>2, <2>4, <2>5 DEF OnlyMergesMove
  <2>7. \A e \in DOMAIN events : events'[e].key = events[e].key
    BY <2>2, <2>5
  <2> QED
    BY <1>7, <2>3, <2>4, <2>5, <2>6, <2>7
<1>10. CASE UNCHANGED vars
  <2>1. UNCHANGED <<families, events, merges, run>>
    BY <1>10 DEF vars
  <2> QED
    BY <1>0, <1>7, <2>1 DEF OnlyMergesMove
<1>11. ASSUME NEW o \in Owners, NEW a, Goes(o, a)
       PROVE  FamilyInv' /\ OnlyMergesMove' /\ KeyInv'
  <2>1. UNCHANGED <<families, events, merges, run>>
    BY <1>11 DEF Goes
  <2> QED
    BY <1>0, <1>7, <2>1 DEF OnlyMergesMove
<1> QED
  BY <1>1, <1>2, <1>3, <1>4, <1>5, <1>6, <1>8, <1>9, <1>10, <1>11
     DEF Next, RunStep, OwnerStep, Expect, CheckVersion, NoteTarget, NoteSource, LookTarget,
         LookSource

\* THEOREM.  Whatever is repeated, overlaps or dies, a document has at most as
\* many source families as there are runs at a time, and a key whose events were
\* never merged away at most as many events.
THEOREM OnlyARaceDuplicates == Spec => []OnlyRacesDuplicate
<1>1. RaceInv => OnlyRacesDuplicate
  <2> SUFFICES ASSUME RaceInv PROVE OnlyRacesDuplicate
    OBVIOUS
  <2>1. families <= Cardinality(Workers)
    <3>1. Cardinality(FamilyRuns) \in Nat /\ Cardinality(Workers) \in Nat
      BY SomeWorkers DEF FamilyRuns
    <3> QED
      BY <3>1 DEF RaceInv, FamilyInv
  <2>2. ASSUME NEW key \in Keys, Unmerged(key)
        PROVE  Cardinality(Own(key)) <= Cardinality(Workers)
    <3>1. Cardinality(EventRuns(key)) \in Nat /\ Cardinality(Workers) \in Nat
      BY SomeWorkers DEF EventRuns
    <3>2. Cardinality(Own(key)) \in Nat
      BY OwnFinite DEF RaceInv
    <3> QED
      BY <2>2, <3>1, <3>2 DEF RaceInv, KeyInv
  <2> QED
    BY <2>1, <2>2 DEF OnlyRacesDuplicate, Own, Unmerged
<1> QED
  BY <1>1, KnowledgeInit, KnowledgeNext, RaceInit, RaceNext, PTL DEF Spec
=============================================================================
