---------------------------- MODULE ParsedProofs ----------------------------
(***************************************************************************)
(* Proofs about Parsed: routing, indexing and the validation of what is    *)
(* extracted, for any industries, workers, chunkers, texts and proposals.  *)
(***************************************************************************)
EXTENDS Parsed, FiniteSetTheorems, SequenceTheorems, TLAPS

\* Among finitely many numbers there is a greatest one.
LEMMA GreatestExists ==
    ASSUME NEW S, IsFiniteSet(S), S # {}, S \subseteq Int
    PROVE  \E n \in S : \A m \in S : m <= n
<1> DEFINE R == StrictSubsetOrdering(S)
           T == {{m \in S : n < m} : n \in S}
<1>1. T \subseteq SUBSET S /\ T # {}
  OBVIOUS
<1>2. IsWellFoundedOn(R, SUBSET S)
  BY FS_StrictSubsetOrderingWellFounded, FS_FiniteSubsetsOfFinite, Zenon
<1> HIDE DEF R
<1>3. PICK t \in T : \A y \in T : ~ (<<y, t>> \in R)
  BY <1>1, <1>2, WFMin, Zenon
<1>4. PICK n \in S : t = {m \in S : n < m}
  BY <1>3
<1>5. \A m \in S : m <= n
  <2> SUFFICES ASSUME NEW m \in S, ~ (m <= n)
               PROVE  FALSE
    OBVIOUS
  <2>1. {k \in S : m < k} \in T
    OBVIOUS
  <2>2. n \in Int /\ m \in Int /\ n < m /\ \A k \in S : k \in Int
    OBVIOUS
  <2>3. \A k \in S : m < k => n < k
    BY <2>2
  <2>4. ~ (m < m)
    BY <2>2
  <2>5. {k \in S : m < k} \subseteq t /\ m \in t /\ m \notin {k \in S : m < k}
    BY <1>4, <2>2, <2>3, <2>4
  <2>6. <<{k \in S : m < k}, t>> \in R
    BY <1>1, <1>3, <2>1, <2>5 DEF R, StrictSubsetOrdering
  <2> QED
    BY <1>3, <2>1, <2>6
<1> QED
  BY <1>5

\* Among bounded numbers there is a greatest one.
LEMMA MaxExists ==
    ASSUME NEW S, NEW B \in Nat, S # {}, S \subseteq 0 .. B
    PROVE  \E n \in S : \A m \in S : m <= n
<1>1. IsFiniteSet(0 .. B)
  BY FS_Interval, 0 \in Int, B \in Int
<1>2. IsFiniteSet(S)
  BY <1>1, FS_Subset
<1>3. S \subseteq Int
  OBVIOUS
<1> QED
  BY <1>2, <1>3, GreatestExists

-----------------------------------------------------------------------------
(* The route job.  What makes a success mean that all was judged is that a *)
(* run takes an industry off its list in the transaction that records its  *)
(* decision, and that decisions are never deleted.                         *)

RunRow == [pc : {"idle", "claimed", "judging"}, parse : Parses \cup {None},
           listed : SUBSET Industries, todo : SUBSET Industries]

RouteRow == [status : {"queued", "succeeded", "failed", "internal_error"},
             attempt : Nat, owner : Workers \cup {None}]

RowsOK ==
    /\ active \subseteq Industries
    /\ route \in [Parses -> RouteRow]
    /\ run \in [Workers -> RunRow]

Judged(p, i) == \E d \in decisions : d.parse = p /\ d.industry = i

\* What a run has taken off its list has a decision.
OffTheList ==
    \A w \in Workers : run[w].pc = "judging" =>
        \A i \in run[w].listed \ run[w].todo : Judged(run[w].parse, i)

RoutingInv == RowsOK /\ OffTheList /\ DirectIsExtracted /\ DecidedOnce

LEMMA RoutingInit == Init => RoutingInv
<1> SUFFICES ASSUME Init PROVE RoutingInv
  OBVIOUS
<1>1. RowsOK
  BY RoutingAssumption DEF Init, RowsOK, NoRun, RunRow, RouteRow
<1>2. OffTheList
  BY DEF Init, OffTheList, NoRun
<1>3. DirectIsExtracted /\ DecidedOnce
  BY DEF Init, DirectIsExtracted, DecidedOnce
<1> QED
  BY <1>1, <1>2, <1>3 DEF RoutingInv

\* A worker goes on with another record of its run, and no decision is lost.
LEMMA RunMoves ==
    ASSUME RowsOK, OffTheList, NEW w \in Workers, NEW r \in RunRow,
           run' = [run EXCEPT ![w] = r],
           decisions \subseteq decisions',
           r.pc = "judging" =>
               \A i \in r.listed \ r.todo :
                   \E d \in decisions' : d.parse = r.parse /\ d.industry = i
    PROVE  run' \in [Workers -> RunRow] /\ OffTheList'
<1>1. run' \in [Workers -> RunRow]
  BY DEF RowsOK
<1>2. ASSUME NEW v \in Workers, run'[v].pc = "judging",
             NEW i \in run'[v].listed \ run'[v].todo
      PROVE  \E d \in decisions' : d.parse = run'[v].parse /\ d.industry = i
  <2>1. CASE v = w
    BY <1>2, <2>1 DEF RowsOK
  <2>2. CASE v # w
    <3>1. run'[v] = run[v]
      BY <2>2 DEF RowsOK
    <3> QED
      BY <1>2, <3>1 DEF OffTheList, Judged
  <2> QED
    BY <2>1, <2>2
<1> QED
  BY <1>1, <1>2 DEF OffTheList, Judged

\* A run that ends lets go of the list, and the job's row stays a row.
LEMMA RunEnds ==
    ASSUME RoutingInv, NEW w \in Workers,
           NEW status \in {"succeeded", "failed", "internal_error"}, End(w, status)
    PROVE  RoutingInv'
<1> USE DEF RoutingInv
<1>1. NoRun \in RunRow /\ NoRun.pc # "judging"
  BY DEF NoRun, RunRow
<1>2. run' = [run EXCEPT ![w] = NoRun] /\ UNCHANGED <<active, decisions, extracts>>
  BY DEF End
<1>3. run' \in [Workers -> RunRow] /\ OffTheList'
  BY <1>1, <1>2, RunMoves
<1>4. route' \in [Parses -> RouteRow]
  BY DEF End, RowsOK, RouteRow
<1> QED
  BY <1>2, <1>3, <1>4 DEF RowsOK, DirectIsExtracted, DecidedOnce

LEMMA RoutingNext == RoutingInv /\ [Next]_vars => RoutingInv'
<1> SUFFICES ASSUME RoutingInv, [Next]_vars PROVE RoutingInv'
  OBVIOUS
<1> USE DEF RoutingInv
<1>1. ASSUME NEW w \in Workers, NEW p \in Parses, Begin(w, p) PROVE RoutingInv'
  <2> DEFINE r == [pc |-> "claimed", parse |-> p, listed |-> {}, todo |-> {}]
  <2>1. r \in RunRow /\ r.pc # "judging"
    BY DEF RunRow
  <2>2. run' = [run EXCEPT ![w] = r] /\ UNCHANGED <<active, decisions, extracts>>
    BY <1>1 DEF Begin
  <2>3. route' \in [Parses -> RouteRow]
    BY <1>1 DEF Begin, RowsOK, RouteRow
  <2> HIDE DEF r
  <2>4. run' \in [Workers -> RunRow] /\ OffTheList'
    BY <2>1, <2>2, RunMoves
  <2> QED
    BY <2>2, <2>3, <2>4 DEF RowsOK, DirectIsExtracted, DecidedOnce
<1>2. ASSUME NEW w \in Workers, ListIndustries(w) PROVE RoutingInv'
  <2> DEFINE r == [pc |-> "judging", parse |-> run[w].parse,
                   listed |-> active, todo |-> active]
  <2>1. r \in RunRow /\ r.listed \ r.todo = {}
    BY DEF RunRow, RowsOK
  <2>2. run' = [run EXCEPT ![w] = r] /\ UNCHANGED <<active, decisions, extracts, route>>
    BY <1>2 DEF ListIndustries
  <2> HIDE DEF r
  <2>3. run' \in [Workers -> RunRow] /\ OffTheList'
    BY <2>1, <2>2, RunMoves
  <2> QED
    BY <2>2, <2>3 DEF RowsOK, DirectIsExtracted, DecidedOnce
<1>3. ASSUME NEW w \in Workers, Judge(w) PROVE RoutingInv'
  <2> DEFINE p == run[w].parse
  <2>1. PICK i \in run[w].todo, o \in Outcomes :
          /\ ~Decided(p, i)
          /\ decisions' = decisions \cup
                {[parse |-> p, industry |-> i, revision |-> revision[i], outcome |-> o]}
          /\ extracts' = extracts \cup SpawnedBy(p, i, o)
          /\ run' = [run EXCEPT ![w].todo = run[w].todo \ {i}]
    BY <1>3 DEF Judge
  <2>2. run[w].pc = "judging" /\ UNCHANGED <<active, revision, route>>
    BY <1>3 DEF Judge
  <2> DEFINE r == [run[w] EXCEPT !.todo = run[w].todo \ {i}]
             d == [parse |-> p, industry |-> i, revision |-> revision[i], outcome |-> o]
  <2>3. run[w] \in RunRow
    BY DEF RowsOK
  <2>4. /\ r \in RunRow /\ r.pc = "judging" /\ r.parse = p
        /\ r.listed = run[w].listed /\ r.todo = run[w].todo \ {i}
    BY <2>2, <2>3 DEF RunRow
  <2>5. run' = [run EXCEPT ![w] = r]
    BY <2>1
  <2>6. /\ d.parse = p /\ d.industry = i /\ d.revision = revision[i] /\ d.outcome = o
        /\ decisions' = decisions \cup {d}
    BY <2>1
  <2> HIDE DEF r, d
  <2>7. \A j \in r.listed \ r.todo : \E e \in decisions' : e.parse = r.parse /\ e.industry = j
    <3> TAKE j \in r.listed \ r.todo
    <3>1. CASE j = i
      BY <2>4, <2>6, <3>1
    <3>2. CASE j # i
      BY <2>2, <2>4, <2>6, <3>2 DEF OffTheList, Judged
    <3> QED
      BY <3>1, <3>2
  <2>8. run' \in [Workers -> RunRow] /\ OffTheList'
    BY <2>4, <2>5, <2>6, <2>7, RunMoves
  <2>9. extracts' = {<<e.parse, e.industry>> : e \in {e \in decisions' : e.outcome = "direct"}}
    <3>1. CASE o = "direct"
      BY <2>1, <2>6, <3>1 DEF SpawnedBy, DirectIsExtracted
    <3>2. CASE o # "direct"
      BY <2>1, <2>6, <3>2 DEF SpawnedBy, DirectIsExtracted
    <3> QED
      BY <3>1, <3>2
  <2>10. \A e, f \in decisions' :
           e.parse = f.parse /\ e.industry = f.industry /\ e.revision = f.revision => e = f
    BY <2>1, <2>6 DEF Decided, DecidedOnce
  <2> QED
    BY <2>2, <2>8, <2>9, <2>10 DEF RowsOK, DirectIsExtracted, DecidedOnce
<1>4. ASSUME NEW w \in Workers,
             RefuseTooMany(w) \/ JudgeAgain(w) \/ ModelRaises(w) \/ Finish(w)
      PROVE  RoutingInv'
  <2>1. PICK status \in {"succeeded", "failed", "internal_error"} : End(w, status)
    BY <1>4 DEF RefuseTooMany, JudgeAgain, ModelRaises, Finish
  <2> QED
    BY <2>1, RunEnds
<1>5. ASSUME NEW w \in Workers, Crash(w) PROVE RoutingInv'
  <2>1. NoRun \in RunRow /\ NoRun.pc # "judging"
    BY DEF NoRun, RunRow
  <2>2. run' = [run EXCEPT ![w] = NoRun] /\ UNCHANGED <<active, decisions, extracts, route>>
    BY <1>5 DEF Crash
  <2>3. run' \in [Workers -> RunRow] /\ OffTheList'
    BY <2>1, <2>2, RunMoves
  <2> QED
    BY <2>2, <2>3 DEF RowsOK, DirectIsExtracted, DecidedOnce
<1>6. ASSUME NEW p \in Parses, Reap(p) PROVE RoutingInv'
  <2>1. UNCHANGED <<active, decisions, extracts, run>>
    BY <1>6 DEF Reap
  <2>2. route' \in [Parses -> RouteRow]
    BY <1>6 DEF Reap, RowsOK, RouteRow
  <2> QED
    BY <2>1, <2>2 DEF RowsOK, OffTheList, Judged, DirectIsExtracted, DecidedOnce
<1>7. ASSUME NEW i \in Industries, Activate(i) \/ Deactivate(i) \/ Revise(i) PROVE RoutingInv'
  <2>1. UNCHANGED <<decisions, extracts, route, run>> /\ active' \subseteq Industries
    BY <1>7 DEF Activate, Deactivate, Revise, RowsOK
  <2> QED
    BY <2>1 DEF RowsOK, OffTheList, Judged, DirectIsExtracted, DecidedOnce
<1>8. CASE UNCHANGED vars
  BY <1>8 DEF vars, RowsOK, OffTheList, Judged, DirectIsExtracted, DecidedOnce
<1> QED
  BY <1>1, <1>2, <1>3, <1>4, <1>5, <1>6, <1>7, <1>8 DEF Next, RunStep

\* A route job that reports success has judged every industry of its run, and
\* every direct decision, and no other, has its extract job: for any crashes,
\* overlapping runs and edits of the industries.
THEOREM RoutingIsWhole == Spec => RoutedWhole
<1>1. ASSUME RoutingInv, [Next]_vars, NEW p \in Parses,
             route[p].status = "queued", route'[p].status = "succeeded"
      PROVE  \E w \in Workers :
                /\ w = route[p].owner
                /\ run[w].pc = "judging" /\ run[w].parse = p
                /\ \A i \in run[w].listed :
                      \E d \in decisions : d.parse = p /\ d.industry = i
  <2> USE DEF RoutingInv
  <2>1. ASSUME NEW w \in Workers, NEW status, End(w, status)
        PROVE  status = "succeeded" /\ route[p].owner = w /\ run[w].parse = p
    BY <1>1, <2>1 DEF End, RowsOK, RouteRow
  <2>2. ASSUME NEW w \in Workers, Finish(w)
        PROVE  /\ w = route[p].owner
               /\ run[w].pc = "judging" /\ run[w].parse = p
               /\ \A i \in run[w].listed : Judged(p, i)
    <3>1. w = route[p].owner /\ run[w].parse = p
      BY <2>1, <2>2 DEF Finish
    <3> QED
      BY <1>1, <2>2, <3>1 DEF Finish, Finished, OffTheList
  <2>3. ASSUME NEW w \in Workers, RefuseTooMany(w) \/ JudgeAgain(w) \/ ModelRaises(w)
        PROVE  FALSE
    BY <2>1, <2>3 DEF RefuseTooMany, JudgeAgain, ModelRaises
  <2>4. ASSUME NEW w \in Workers, NEW q \in Parses, Begin(w, q) PROVE FALSE
    BY <1>1, <2>4 DEF Begin, RowsOK, RouteRow
  <2>5. ASSUME NEW q \in Parses, Reap(q) PROVE FALSE
    BY <1>1, <2>5 DEF Reap, RowsOK, RouteRow
  <2>6. route' # route
    BY <1>1
  <2>7. PICK w \in Workers : Finish(w)
    BY <1>1, <2>3, <2>4, <2>5, <2>6
       DEF Next, RunStep, ListIndustries, Judge, Crash, Activate, Deactivate, Revise, vars
  <2> QED
    BY <2>2, <2>7 DEF Judged
<1>2. RoutingInv /\ [Next]_vars =>
         [\A p \in Parses :
             route[p].status = "queued" /\ route'[p].status = "succeeded" =>
                 \E w \in Workers :
                     /\ w = route[p].owner
                     /\ run[w].pc = "judging" /\ run[w].parse = p
                     /\ \A i \in run[w].listed :
                           \E d \in decisions : d.parse = p /\ d.industry = i]_vars
  BY <1>1
<1>3. RoutingInv => DirectIsExtracted /\ DecidedOnce
  BY DEF RoutingInv
<1> QED
  BY <1>2, <1>3, RoutingInit, RoutingNext, PTL DEF Spec, RoutedWhole, JudgedAll

-----------------------------------------------------------------------------
(* The index job.                                                          *)

\* The rows as a run may have read them.
Stored == {<<o, rows[o].text>> : o \in Index!Present}

IndexRowsOK ==
    /\ DOMAIN rows = Index!AllOrdinals
    /\ \A o \in Index!AllOrdinals : rows[o] # Index!NoRow => rows[o].text # None
    /\ jobs \in [Versions -> Index!Job]
    /\ DOMAIN runs = Workers
    /\ \A w \in Workers : runs[w].pc # "idle" => runs[w].version \in Versions

\* What a run has read is still there, and what it has inserted.
RunsSeeRows ==
    \A w \in Workers :
        /\ runs[w].pc \in {"read", "refused"} => runs[w].existing \subseteq Stored
        /\ runs[w].pc = "inserted" => Ordinals[runs[w].version] \subseteq Index!Present

IndexInv == /\ IndexRowsOK /\ RunsSeeRows
            /\ Index!SucceededIsWhole /\ Index!NothingInPart

LEMMA IndexAssumption ==
    /\ \A v \in Versions : \A o \in Ordinals[v] : ChunkTexts[v][o] # None
    /\ None \notin Workers
BY ParsedAssumption DEF Index!IndexingAssumption

LEMMA IndexInit == Index!Init => IndexInv
<1> SUFFICES ASSUME Index!Init PROVE IndexInv
  OBVIOUS
<1>1. Index!Present = {}
  BY DEF Index!Init, Index!Present, Index!NoRow
<1>2. /\ \A v \in Versions : jobs[v].state = "queued"
      /\ \A w \in Workers : runs[w].pc = "idle"
  BY DEF Index!Init, Index!NoRun
<1>3. jobs \in [Versions -> Index!Job]
  BY DEF Index!Init, Index!Job, Index!JobStates
<1>4. IndexRowsOK
  BY <1>2, <1>3 DEF Index!Init, IndexRowsOK
<1> QED
  BY <1>1, <1>2, <1>4 DEF IndexInv, RunsSeeRows, Index!SucceededIsWhole, Index!NothingInPart

\* A step that writes no row: one run may go on, and one job.
LEMMA NoRowWritten ==
    ASSUME IndexInv, UNCHANGED rows,
           jobs' \in [Versions -> Index!Job],
           \A v \in Versions : jobs'[v].state = "succeeded" =>
               jobs[v].state = "succeeded" \/ Ordinals[v] \subseteq Index!Present,
           DOMAIN runs' = Workers,
           \A w \in Workers :
               \/ runs'[w] = runs[w]
               \/ runs'[w].pc = "idle"
               \/ /\ runs'[w].version \in Versions
                  /\ runs'[w].pc # "inserted"
                  /\ runs'[w].pc \in {"read", "refused"} => runs'[w].existing \subseteq Stored
    PROVE  IndexInv'
<1> USE DEF IndexInv
<1>1. Index!Present' = Index!Present /\ Stored' = Stored
  BY DEF Index!Present, Stored
<1>2. IndexRowsOK'
  BY DEF IndexRowsOK
<1>3. RunsSeeRows'
  <2> SUFFICES ASSUME NEW w \in Workers
               PROVE  /\ runs'[w].pc \in {"read", "refused"} => runs'[w].existing \subseteq Stored
                      /\ runs'[w].pc = "inserted" =>
                            Ordinals[runs'[w].version] \subseteq Index!Present
    BY <1>1 DEF RunsSeeRows
  <2> QED
    BY DEF RunsSeeRows
<1>4. Index!SucceededIsWhole' /\ Index!NothingInPart'
  BY <1>1 DEF Index!SucceededIsWhole, Index!NothingInPart
<1> QED
  BY <1>2, <1>3, <1>4

LEMMA WentTo ==
    ASSUME IndexRowsOK, NEW w \in Workers, NEW pc, NEW v, NEW vectors, NEW existing,
           runs' = Index!Went(w, pc, v, vectors, existing)
    PROVE  /\ DOMAIN runs' = Workers
           /\ \A u \in Workers : u # w => runs'[u] = runs[u]
           /\ runs'[w].pc = pc /\ runs'[w].version = v /\ runs'[w].existing = existing
BY DEF Index!Went, IndexRowsOK

LEMMA MovedTo ==
    ASSUME IndexRowsOK, NEW v \in Versions, NEW st \in Index!JobStates, NEW n \in Nat,
           NEW holder \in Workers \cup {None}, NEW status \in {"ok", "pending", None},
           jobs' = Index!Moved(v, st, n, holder, status)
    PROVE  /\ jobs' \in [Versions -> Index!Job]
           /\ jobs'[v].state = st
           /\ \A u \in Versions : u # v => jobs'[u] = jobs[u]
BY DEF Index!Moved, IndexRowsOK, Index!Job

LEMMA JobIs ==
    ASSUME IndexRowsOK, NEW v \in Versions
    PROVE  /\ jobs[v].state \in Index!JobStates /\ jobs[v].deliveries \in Nat
           /\ jobs[v].holder \in Workers \cup {None}
           /\ jobs[v].status \in {"ok", "pending", None}
BY DEF IndexRowsOK, Index!Job

LEMMA RowText == \A t, e : [text |-> t, embedded |-> e].text = t
OBVIOUS

\* Rows only come, they are never changed, and a version's come all at once.
LEMMA InsertChunksInv ==
    ASSUME IndexInv, NEW w \in Workers, Index!InsertChunks(w)
    PROVE  IndexInv'
<1> USE DEF IndexInv
<1> DEFINE v == runs[w].version
<1>1. /\ runs[w].pc = "read" /\ UNCHANGED jobs
      /\ rows' = Index!Inserted(v, runs[w].vectors)
      /\ runs' = Index!Went(w, "inserted", v, runs[w].vectors, runs[w].existing)
  BY DEF Index!InsertChunks
<1>2. v \in Versions
  BY <1>1 DEF IndexRowsOK
<1> HIDE DEF v
<1>3. /\ DOMAIN rows' = Index!AllOrdinals
      /\ \A o \in Index!AllOrdinals : o \in Index!Present => rows'[o] = rows[o]
      /\ \A o \in Ordinals[v] : o \in Index!AllOrdinals /\ rows'[o].text # None
      /\ \A o \in Index!AllOrdinals : rows'[o] # Index!NoRow => rows'[o].text # None
  <2>1. \A o \in Ordinals[v] : o \in Index!AllOrdinals /\ ChunkTexts[v][o] # None
    BY <1>2, IndexAssumption DEF Index!AllOrdinals
  <2>2. \A o \in Index!AllOrdinals : rows'[o] =
           IF o \in Ordinals[v] /\ rows[o] = Index!NoRow
           THEN [text |-> ChunkTexts[v][o], embedded |-> o \in runs[w].vectors]
           ELSE rows[o]
    BY <1>1 DEF Index!Inserted
  <2>3. DOMAIN rows' = Index!AllOrdinals
    BY <1>1 DEF Index!Inserted
  <2>4. \A o \in Index!Present : rows[o] # Index!NoRow
    BY DEF Index!Present, Index!NoRow
  <2>5. \A o \in Index!AllOrdinals : o \in Index!Present => rows'[o] = rows[o]
    BY <2>2, <2>4
  <2>6. ASSUME NEW o \in Ordinals[v]
        PROVE  rows'[o].text # None
    <3>1. CASE rows[o] = Index!NoRow
      <4>1. rows'[o] = [text |-> ChunkTexts[v][o], embedded |-> o \in runs[w].vectors]
        BY <2>1, <2>2, <3>1
      <4>2. rows'[o].text = ChunkTexts[v][o]
        BY <4>1, RowText, Zenon
      <4> QED
        BY <2>1, <4>2
    <3>2. CASE rows[o] # Index!NoRow
      BY <2>1, <2>2, <3>2 DEF IndexRowsOK
    <3> QED
      BY <3>1, <3>2
  <2>7. ASSUME NEW o \in Index!AllOrdinals, rows'[o] # Index!NoRow
        PROVE  rows'[o].text # None
    <3>1. CASE o \in Ordinals[v]
      BY <2>6, <3>1
    <3>2. CASE o \notin Ordinals[v]
      BY <2>2, <2>7, <3>2 DEF IndexRowsOK
    <3> QED
      BY <3>1, <3>2
  <2> QED
    BY <2>1, <2>3, <2>5, <2>6, <2>7
<1>4. /\ Index!Present \subseteq Index!Present' /\ Stored \subseteq Stored'
      /\ Ordinals[v] \subseteq Index!Present'
  <2>1. Index!Present' = {o \in Index!AllOrdinals : rows'[o].text # None}
    BY DEF Index!Present
  <2>2. \A o \in Index!Present : o \in Index!Present' /\ rows'[o] = rows[o]
    BY <1>3, <2>1 DEF Index!Present
  <2> QED
    BY <1>3, <2>1, <2>2 DEF Stored
<1>5. /\ DOMAIN runs' = Workers
      /\ \A u \in Workers : u # w => runs'[u] = runs[u]
      /\ runs'[w].pc = "inserted" /\ runs'[w].version = v
  BY <1>1, WentTo
<1>6. IndexRowsOK'
  <2>1. \A u \in Workers : runs'[u].pc # "idle" => runs'[u].version \in Versions
    BY <1>2, <1>5 DEF IndexRowsOK
  <2> QED
    BY <1>1, <1>3, <1>5, <2>1 DEF IndexRowsOK
<1>7. RunsSeeRows'
  <2>1. ASSUME NEW u \in Workers
        PROVE  /\ runs'[u].pc \in {"read", "refused"} => runs'[u].existing \subseteq Stored'
               /\ runs'[u].pc = "inserted" => Ordinals[runs'[u].version] \subseteq Index!Present'
    <3>1. CASE u = w
      BY <1>4, <1>5, <3>1
    <3>2. CASE u # w
      BY <1>4, <1>5, <3>2 DEF RunsSeeRows
    <3> QED
      BY <3>1, <3>2
  <2> QED
    BY <2>1 DEF RunsSeeRows
<1>8. Index!SucceededIsWhole' /\ Index!NothingInPart'
  BY <1>1, <1>2, <1>4 DEF Index!SucceededIsWhole, Index!NothingInPart
<1> QED
  BY <1>6, <1>7, <1>8

LEMMA IndexNext == IndexInv /\ [Index!Next]_(Index!vars) => IndexInv'
<1> SUFFICES ASSUME IndexInv, [Index!Next]_(Index!vars) PROVE IndexInv'
  OBVIOUS
<1> USE DEF IndexInv
<1>0. jobs \in [Versions -> Index!Job] /\ DOMAIN runs = Workers
  BY DEF IndexRowsOK
<1>1. ASSUME NEW v \in Versions, Index!Mismatch(v)
      PROVE  IndexInv'
  <2>1. /\ UNCHANGED <<rows, runs>>
        /\ jobs' = Index!Moved(v, "failed", jobs[v].deliveries + 1, jobs[v].holder, jobs[v].status)
    BY <1>1 DEF Index!Mismatch
  <2>2. jobs[v].deliveries + 1 \in Nat /\ "failed" \in Index!JobStates
    BY JobIs DEF Index!JobStates
  <2>3. /\ jobs' \in [Versions -> Index!Job] /\ jobs'[v].state = "failed"
        /\ \A u \in Versions : u # v => jobs'[u] = jobs[u]
    BY <2>1, <2>2, JobIs, MovedTo
  <2> QED
    BY <1>0, <2>1, <2>3, NoRowWritten
<1>2. ASSUME NEW w \in Workers, NEW v \in Versions, Index!Begin(w, v)
      PROVE  IndexInv'
  <2>1. /\ UNCHANGED rows
        /\ jobs' = Index!Moved(v, "running", jobs[v].deliveries + 1, w, jobs[v].status)
        /\ runs' = Index!Went(w, "begun", v, {}, {})
    BY <1>2 DEF Index!Begin
  <2>2. jobs[v].deliveries + 1 \in Nat /\ "running" \in Index!JobStates
    BY JobIs DEF Index!JobStates
  <2>3. /\ jobs' \in [Versions -> Index!Job] /\ jobs'[v].state = "running"
        /\ \A u \in Versions : u # v => jobs'[u] = jobs[u]
    BY <2>1, <2>2, JobIs, MovedTo
  <2>4. /\ DOMAIN runs' = Workers /\ runs'[w].pc = "begun" /\ runs'[w].version = v
        /\ \A u \in Workers : u # w => runs'[u] = runs[u]
    BY <2>1, WentTo
  <2>5. \A x \in Versions : jobs'[x].state = "succeeded" => jobs[x].state = "succeeded"
    BY <2>3
  <2> QED
    BY <2>1, <2>3, <2>4, <2>5, NoRowWritten
<1>3. ASSUME NEW w \in Workers, Index!Embed(w)
      PROVE  IndexInv'
  <2>1. PICK vectors \in SUBSET Ordinals[runs[w].version] :
             runs' = Index!Went(w, "embedded", runs[w].version, vectors, {})
    BY <1>3 DEF Index!Embed
  <2>2. UNCHANGED <<rows, jobs>> /\ runs[w].version \in Versions
    BY <1>3 DEF Index!Embed, IndexRowsOK
  <2>3. /\ DOMAIN runs' = Workers /\ runs'[w].pc = "embedded"
        /\ runs'[w].version = runs[w].version
        /\ \A u \in Workers : u # w => runs'[u] = runs[u]
    BY <2>1, WentTo
  <2> QED
    BY <1>0, <2>2, <2>3, NoRowWritten
<1>4. ASSUME NEW w \in Workers, Index!ReadChunks(w)
      PROVE  IndexInv'
  <2>1. /\ UNCHANGED <<rows, jobs>> /\ runs[w].version \in Versions
        /\ runs' = Index!Went(w, "read", runs[w].version, runs[w].vectors, Stored)
    BY <1>4 DEF Index!ReadChunks, IndexRowsOK, Stored
  <2>2. /\ DOMAIN runs' = Workers /\ runs'[w].pc = "read"
        /\ runs'[w].version = runs[w].version /\ runs'[w].existing = Stored
        /\ \A u \in Workers : u # w => runs'[u] = runs[u]
    BY <2>1, WentTo
  <2> QED
    BY <1>0, <2>1, <2>2, NoRowWritten
<1>5. ASSUME NEW w \in Workers, Index!RefuseDrift(w)
      PROVE  IndexInv'
  <2>1. /\ UNCHANGED <<rows, jobs>> /\ runs[w].version \in Versions
        /\ runs' = Index!Went(w, "refused", runs[w].version, runs[w].vectors, runs[w].existing)
        /\ runs[w].existing \subseteq Stored
    BY <1>5 DEF Index!RefuseDrift, IndexRowsOK, RunsSeeRows
  <2>2. /\ DOMAIN runs' = Workers /\ runs'[w].pc = "refused"
        /\ runs'[w].version = runs[w].version /\ runs'[w].existing = runs[w].existing
        /\ \A u \in Workers : u # w => runs'[u] = runs[u]
    BY <2>1, WentTo
  <2> QED
    BY <1>0, <2>1, <2>2, NoRowWritten
<1>6. ASSUME NEW w \in Workers, Index!Finish(w)
      PROVE  IndexInv'
  <2> DEFINE v == runs[w].version
  <2>1. v \in Versions /\ (runs[w].pc = "inserted" => Ordinals[v] \subseteq Index!Present)
    BY <1>6 DEF Index!Finish, IndexRowsOK, RunsSeeRows
  <2>2. /\ UNCHANGED rows /\ runs' = [runs EXCEPT ![w] = Index!NoRun]
        /\ runs[w].pc \in {"inserted", "refused"}
        /\ \/ jobs' = jobs
           \/ /\ runs[w].pc = "refused"
              /\ jobs' = Index!Moved(v, "failed", jobs[v].deliveries, None, jobs[v].status)
           \/ /\ runs[w].pc = "inserted"
              /\ jobs' = Index!Moved(v, "succeeded", jobs[v].deliveries, None,
                                     Index!Status(v, runs[w].vectors))
    BY <1>6 DEF Index!Finish
  <2> HIDE DEF v
  <2>3. /\ DOMAIN runs' = Workers
        /\ \A u \in Workers : runs'[u] = runs[u] \/ runs'[u].pc = "idle"
    BY <1>0, <2>2 DEF Index!NoRun
  <2>4. /\ jobs' \in [Versions -> Index!Job]
        /\ \A x \in Versions : jobs'[x].state = "succeeded" =>
              jobs[x].state = "succeeded" \/ Ordinals[x] \subseteq Index!Present
    <3>0. /\ jobs[v].deliveries \in Nat /\ {"failed", "succeeded"} \subseteq Index!JobStates
          /\ jobs[v].status \in {"ok", "pending", None} /\ None \in Workers \cup {None}
          /\ Index!Status(v, runs[w].vectors) \in {"ok", "pending", None}
      BY <2>1, JobIs DEF Index!JobStates, Index!Status
    <3>1. CASE jobs' = jobs
      BY <1>0, <3>1
    <3>2. CASE jobs' = Index!Moved(v, "failed", jobs[v].deliveries, None, jobs[v].status)
      <4>1. /\ jobs' \in [Versions -> Index!Job] /\ jobs'[v].state = "failed"
            /\ \A u \in Versions : u # v => jobs'[u] = jobs[u]
        BY <2>1, <3>0, <3>2, MovedTo
      <4> QED
        BY <4>1
    <3>3. CASE /\ runs[w].pc = "inserted"
               /\ jobs' = Index!Moved(v, "succeeded", jobs[v].deliveries, None,
                                      Index!Status(v, runs[w].vectors))
      <4>1. /\ jobs' \in [Versions -> Index!Job] /\ jobs'[v].state = "succeeded"
            /\ \A u \in Versions : u # v => jobs'[u] = jobs[u]
        BY <2>1, <3>0, <3>3, MovedTo
      <4> QED
        BY <2>1, <3>3, <4>1
    <3> QED
      BY <2>2, <3>1, <3>2, <3>3
  <2> QED
    BY <2>2, <2>3, <2>4, NoRowWritten
<1>7. ASSUME NEW w \in Workers, Index!Redeliver(w)
      PROVE  IndexInv'
  <2> DEFINE v == runs[w].version
  <2>1. /\ UNCHANGED rows /\ runs[w].pc # "idle"
        /\ jobs' = Index!Moved(v, "queued", jobs[v].deliveries, None, jobs[v].status)
        /\ runs' = runs \/ runs' = [runs EXCEPT ![w] = Index!NoRun]
    BY <1>7 DEF Index!Redeliver
  <2>2. v \in Versions
    BY <2>1 DEF IndexRowsOK
  <2> HIDE DEF v
  <2>3. /\ jobs[v].deliveries \in Nat /\ "queued" \in Index!JobStates
        /\ jobs[v].status \in {"ok", "pending", None} /\ None \in Workers \cup {None}
    BY <2>2, JobIs DEF Index!JobStates
  <2>4. /\ jobs' \in [Versions -> Index!Job] /\ jobs'[v].state = "queued"
        /\ \A u \in Versions : u # v => jobs'[u] = jobs[u]
    BY <2>1, <2>2, <2>3, MovedTo
  <2>5. /\ DOMAIN runs' = Workers
        /\ \A u \in Workers : runs'[u] = runs[u] \/ runs'[u].pc = "idle"
    BY <1>0, <2>1 DEF Index!NoRun
  <2> QED
    BY <2>1, <2>4, <2>5, NoRowWritten
<1>8. CASE UNCHANGED Index!vars
  <2>1. UNCHANGED <<rows, jobs, runs>>
    BY <1>8 DEF Index!vars
  <2> QED
    BY <1>0, <2>1, NoRowWritten
<1> QED
  BY <1>1, <1>2, <1>3, <1>4, <1>5, <1>6, <1>7, <1>8, InsertChunksInv
     DEF Index!Next, Index!RunStep

\* The comparison of DriftIsRefused, for one step.
LEMMA DriftStep ==
    ASSUME IndexInv, [Index!Next]_(Index!vars), NEW w \in Workers,
           runs[w].pc = "read", runs'[w].pc = "inserted"
    PROVE  \/ runs[w].existing = {}
           \/ Index!Own(runs[w].version) \subseteq {<<o, rows'[o].text>> : o \in Index!AllOrdinals}
<1> USE DEF IndexInv
<1>1. DOMAIN runs = Workers
  BY DEF IndexRowsOK
\* No other step takes a run there.
<1>2. Index!InsertChunks(w)
  <2>1. ASSUME NEW u \in Workers, NEW pc, NEW x, NEW vectors, NEW existing,
               runs' = Index!Went(u, pc, x, vectors, existing)
        PROVE  u = w /\ pc = "inserted"
    BY <1>1, <2>1 DEF Index!Went
  <2>2. ASSUME NEW u \in Workers, NEW x \in Versions, Index!Begin(u, x)
        PROVE  FALSE
    <3>1. runs' = Index!Went(u, "begun", x, {}, {})
      BY <2>2 DEF Index!Begin
    <3> QED
      BY <2>1, <3>1
  <2>3. ASSUME NEW u \in Workers, Index!Embed(u)
        PROVE  FALSE
    <3>1. PICK vectors \in SUBSET Ordinals[runs[u].version] :
               runs' = Index!Went(u, "embedded", runs[u].version, vectors, {})
      BY <2>3 DEF Index!Embed
    <3> QED
      BY <2>1, <3>1
  <2>4. ASSUME NEW u \in Workers, Index!ReadChunks(u)
        PROVE  FALSE
    <3>1. runs' = Index!Went(u, "read", runs[u].version, runs[u].vectors,
                             {<<o, rows[o].text>> : o \in Index!Present})
      BY <2>4 DEF Index!ReadChunks
    <3> QED
      BY <2>1, <3>1
  <2>5. ASSUME NEW u \in Workers, Index!RefuseDrift(u)
        PROVE  FALSE
    <3>1. runs' = Index!Went(u, "refused", runs[u].version, runs[u].vectors, runs[u].existing)
      BY <2>5 DEF Index!RefuseDrift
    <3> QED
      BY <2>1, <3>1
  <2>6. ASSUME NEW u \in Workers, Index!Finish(u) \/ Index!Redeliver(u)
        PROVE  FALSE
    <3>1. runs' = runs \/ runs' = [runs EXCEPT ![u] = Index!NoRun]
      BY <2>6 DEF Index!Finish, Index!Redeliver
    <3> QED
      BY <1>1, <3>1 DEF Index!NoRun
  <2>7. ASSUME NEW u \in Workers, Index!InsertChunks(u)
        PROVE  u = w
    <3>1. runs' = Index!Went(u, "inserted", runs[u].version, runs[u].vectors, runs[u].existing)
      BY <2>7 DEF Index!InsertChunks
    <3> QED
      BY <2>1, <3>1
  <2>8. runs' # runs
    OBVIOUS
  <2> QED
    BY <2>2, <2>3, <2>4, <2>5, <2>6, <2>7, <2>8
       DEF Index!Next, Index!RunStep, Index!Mismatch, Index!vars
<1>3. runs[w].existing = {} \/ runs[w].existing = Index!Own(runs[w].version)
  BY <1>2 DEF Index!InsertChunks, Index!Drifts
<1>4. runs[w].existing \subseteq Stored
  BY DEF RunsSeeRows
<1>5. Stored \subseteq {<<o, rows'[o].text>> : o \in Index!AllOrdinals}
  <2>1. \A o \in Index!Present : o \in Index!AllOrdinals /\ rows'[o] = rows[o]
    <3> SUFFICES ASSUME NEW o \in Index!Present
                 PROVE  o \in Index!AllOrdinals /\ rows'[o] = rows[o]
      OBVIOUS
    <3>1. o \in Index!AllOrdinals /\ rows[o] # Index!NoRow
      BY DEF Index!Present, Index!NoRow
    <3>2. rows' = Index!Inserted(runs[w].version, runs[w].vectors)
      BY <1>2 DEF Index!InsertChunks
    <3> QED
      BY <3>1, <3>2 DEF Index!Inserted
  <2> QED
    BY <2>1 DEF Stored
<1> QED
  BY <1>3, <1>4, <1>5

-----------------------------------------------------------------------------
(* The validation of what is extracted.                                     *)

\* Among numbers there is a least one.
LEMMA MinExists ==
    ASSUME NEW S, S # {}, S \subseteq Nat
    PROVE  \E n \in S : \A m \in S : n <= m
<1>1. PICK b \in S : TRUE
  OBVIOUS
<1> DEFINE T == {b - s : s \in {x \in S : x <= b}}
<1>2. b \in Nat /\ T # {} /\ T \subseteq 0 .. b
  <2>1. b \in Nat
    BY <1>1
  <2>2. b - b \in T
    BY <2>1
  <2>3. \A x \in S : x \in Nat
    OBVIOUS
  <2>4. \A x \in Nat : x <= b => b - x \in 0 .. b
    BY <2>1
  <2>5. T \subseteq 0 .. b
    BY <2>3, <2>4
  <2> QED
    BY <2>1, <2>2, <2>5
<1> HIDE DEF T
<1>3. PICK t \in T : \A y \in T : y <= t
  BY <1>2, MaxExists
<1>4. PICK s \in S : s <= b /\ t = b - s
  BY <1>3 DEF T
<1>5. \A m \in S : s <= m
  <2> SUFFICES ASSUME NEW m \in S PROVE s <= m
    OBVIOUS
  <2>1. CASE m <= b
    <3>1. b - m \in T
      BY <2>1 DEF T
    <3> QED
      BY <1>2, <1>3, <1>4, <3>1
  <2>2. CASE ~(m <= b)
    BY <1>2, <1>4, <2>2
  <2> QED
    BY <2>1, <2>2
<1> QED
  BY <1>5

\* A quote that occurs is located where it does.
LEMMA LocatedThere ==
    ASSUME NEW text, Len(text) \in Nat, NEW quote,
           Extract!Occurrences(text, quote) # {}
    PROVE  SubSeq(text, Extract!locate_quote(text, quote),
                  Extract!locate_quote(text, quote) + Len(quote) - 1) = quote
<1> DEFINE S == Extract!Occurrences(text, quote)
<1>1. S \subseteq Nat
  BY DEF Extract!Occurrences
<1>2. \E n \in S : \A m \in S : n <= m
  BY <1>1, MinExists
<1>3. Extract!locate_quote(text, quote) \in S
  BY <1>2 DEF Extract!locate_quote
<1> QED
  BY <1>3 DEF Extract!Occurrences

\* What a claim that passes has.
LEMMA ClaimPasses ==
    ASSUME NEW claim \in Extract!Claims, Extract!validate_claim(claim) = "ok"
    PROVE  /\ claim.evidence \in Seq(Extract!Quotes) /\ claim.evidence # <<>>
           /\ \A n \in DOMAIN claim.evidence : Extract!CodeOf(claim.evidence[n]) = "ok"
           /\ Extract!_numeric_support(claim)
<1> DEFINE bad == {n \in DOMAIN claim.evidence : Extract!CodeOf(claim.evidence[n]) # "ok"}
           first == CHOOSE n \in bad : \A m \in bad : n <= m
<1>1. claim.evidence \in Seq(Extract!Quotes)
  BY DEF Extract!Claims
<1>2. claim.evidence # <<>> /\ Extract!validate_claim(claim) # "no_evidence"
  BY DEF Extract!validate_claim
<1>3. bad = {}
  <2> SUFFICES ASSUME bad # {} PROVE FALSE
    OBVIOUS
  <2>1. bad \subseteq Nat
    BY <1>1
  <2>2. first \in bad
    <3> HIDE DEF bad
    <3>1. \E n \in bad : \A m \in bad : n <= m
      BY <2>1, MinExists
    <3> QED
      BY <3>1
  <2>3. Extract!validate_claim(claim) = Extract!CodeOf(claim.evidence[first])
    BY <1>2 DEF Extract!validate_claim
  <2> QED
    BY <2>2, <2>3
<1>4. Extract!_numeric_support(claim)
  BY <1>2, <1>3 DEF Extract!validate_claim
<1> QED
  BY <1>1, <1>2, <1>3, <1>4

LEMMA QuotePasses ==
    ASSUME NEW e, Extract!CodeOf(e) = "ok"
    PROVE  e.block \in DOMAIN Blocks /\ Extract!Occurrences(Blocks[e.block], e.quote) # {}
BY DEF Extract!CodeOf

Passes(c) == Extract!validate_claim(proposal[c]) = "ok"

Entry(c) == [claim |-> c, starts |-> Extract!Located(c)]
Entries == {Entry(c) : c \in DOMAIN proposal}

Refusal(c) == [claim |-> c, code |-> Extract!validate_claim(proposal[c])]
Refusals == {Refusal(c) : c \in DOMAIN proposal}

Holds(seq, e) == \E k \in DOMAIN seq : seq[k] = e

\* Each claim that was looked at is in one of the two lists, and once in the
\* first.
Sorted ==
    /\ proposal \in Seq(Extract!Claims)
    /\ validated \in 0 .. Len(proposal)
    /\ accepted \in Seq(Entries) /\ rejected \in Seq(Refusals)
    /\ \A k \in DOMAIN accepted :
          \E c \in 1 .. validated : accepted[k] = Entry(c) /\ Passes(c)
    /\ \A k \in DOMAIN rejected :
          \E c \in 1 .. validated : rejected[k] = Refusal(c) /\ ~Passes(c)
    /\ \A c \in 1 .. validated : Holds(accepted, Entry(c)) \/ Holds(rejected, Refusal(c))
    /\ \A k, m \in DOMAIN accepted : accepted[k].claim = accepted[m].claim => k = m

\* The verdicts, by place and by claim.
JudgedOnce ==
    \/ judged = <<>> /\ verdicts = <<>>
    \/ /\ verdicts # <<>> /\ validated = Len(proposal)
       /\ DOMAIN judged = DOMAIN accepted
       /\ \A k \in DOMAIN accepted : verdicts[accepted[k].claim] = judged[k]

Committed ==
    IF committed
    THEN /\ validated = Len(proposal)
         /\ evidence = UNION {{Extract!Row(k, n) : n \in DOMAIN Extract!Evidence(accepted[k].claim)} :
                                 k \in DOMAIN accepted}
    ELSE evidence = {}

ExtractInv == Sorted /\ JudgedOnce /\ Committed

LEMMA ExtractAssumption ==
    /\ Blocks \in Seq(Seq(Words))
    /\ Proposals \subseteq Seq(Extract!Claims)
BY ParsedAssumption DEF Extract!ExtractionAssumption

LEMMA EntryClaim == \A c : Entry(c).claim = c /\ Refusal(c).claim = c
BY DEF Entry, Refusal

LEMMA ExtractInit == Extract!Init => ExtractInv
<1> SUFFICES ASSUME Extract!Init PROVE ExtractInv
  OBVIOUS
<1>1. /\ proposal \in Seq(Extract!Claims) /\ validated = 0
      /\ accepted = <<>> /\ rejected = <<>>
      /\ judged = <<>> /\ verdicts = <<>> /\ evidence = {} /\ ~committed
  BY ExtractAssumption DEF Extract!Init
<1>2. Sorted
  BY <1>1 DEF Sorted
<1> QED
  BY <1>1, <1>2 DEF ExtractInv, JudgedOnce, Committed

\* What Append does to a list.
LEMMA Appended ==
    ASSUME NEW S, NEW seq \in Seq(S), NEW e \in S
    PROVE  /\ Append(seq, e) \in Seq(S)
           /\ Holds(Append(seq, e), e)
           /\ \A x : Holds(seq, x) => Holds(Append(seq, e), x)
<1>1. /\ Append(seq, e) \in Seq(S)
      /\ DOMAIN Append(seq, e) = 1 .. Len(seq) + 1 /\ DOMAIN seq = 1 .. Len(seq) /\ Len(seq) \in Nat
      /\ \A k \in 1 .. Len(seq) : Append(seq, e)[k] = seq[k]
      /\ Append(seq, e)[Len(seq) + 1] = e
  BY AppendProperties
<1>2. Len(seq) + 1 \in DOMAIN Append(seq, e) /\ \A k \in DOMAIN seq : k \in DOMAIN Append(seq, e)
  BY <1>1
<1> QED
  BY <1>1, <1>2 DEF Holds

\* While the proposal stays, so does what is made of it.
LEMMA ProposalKept ==
    ASSUME UNCHANGED proposal
    PROVE  /\ \A c : Entry(c)' = Entry(c) /\ Refusal(c)' = Refusal(c) /\ (Passes(c)' <=> Passes(c))
           /\ Entries' = Entries /\ Refusals' = Refusals
BY DEF Entry, Refusal, Passes, Entries, Refusals, Extract!Located, Extract!Evidence

LEMMA ValidateInv ==
    ASSUME ExtractInv, Extract!Validate
    PROVE  ExtractInv'
<1>0. PICK c \in Nat : c = validated + 1
  BY DEF ExtractInv, Sorted
<1>1. /\ validated < Len(proposal) /\ validated' = c
      /\ UNCHANGED <<proposal, judged, verdicts, evidence, committed>>
  BY <1>0 DEF Extract!Validate
<1>a. \/ /\ Passes(c) /\ accepted' = Append(accepted, Entry(c)) /\ rejected' = rejected
      \/ /\ ~Passes(c) /\ rejected' = Append(rejected, Refusal(c)) /\ accepted' = accepted
  BY <1>0 DEF Extract!Validate, Passes, Entry, Refusal
<1>2. /\ proposal \in Seq(Extract!Claims) /\ Len(proposal) \in Nat /\ DOMAIN proposal = 1 .. Len(proposal)
      /\ validated \in 0 .. Len(proposal)
      /\ accepted \in Seq(Entries) /\ rejected \in Seq(Refusals)
  BY DEF ExtractInv, Sorted
<1>3. /\ c \in DOMAIN proposal /\ c \in 1 .. validated' /\ c \notin 1 .. validated
      /\ \A d \in 1 .. validated : d \in 1 .. validated'
      /\ \A d \in 1 .. validated' : d \in 1 .. validated \/ d = c
  BY <1>0, <1>1, <1>2
<1>4. Entry(c) \in Entries /\ Refusal(c) \in Refusals
  BY <1>3 DEF Entries, Refusals
<1>5. /\ \A d : Entry(d)' = Entry(d) /\ Refusal(d)' = Refusal(d) /\ (Passes(d)' <=> Passes(d))
      /\ Entries' = Entries /\ Refusals' = Refusals
  BY <1>1, ProposalKept
<1>6. JudgedOnce' /\ Committed'
  <2>0. validated # Len(proposal)
    <3>1. validated < Len(proposal) /\ Len(proposal) \in Nat
      BY <1>1, <1>2
    <3> QED
      BY <3>1
  <2>1. ~committed /\ judged = <<>> /\ verdicts = <<>> /\ evidence = {}
    BY <2>0 DEF ExtractInv, JudgedOnce, Committed
  <2> QED
    BY <1>1, <2>1 DEF JudgedOnce, Committed
<1>b. \A d \in 1 .. validated : Holds(accepted, Entry(d)) \/ Holds(rejected, Refusal(d))
  BY DEF ExtractInv, Sorted
<1>7. \A k \in DOMAIN accepted : accepted[k].claim \in 1 .. validated
  BY EntryClaim DEF ExtractInv, Sorted
<1>8. CASE Passes(c) /\ accepted' = Append(accepted, Entry(c)) /\ rejected' = rejected
  <2>1. /\ accepted' \in Seq(Entries) /\ DOMAIN accepted' = 1 .. Len(accepted) + 1
        /\ \A k \in DOMAIN accepted : accepted'[k] = accepted[k]
        /\ accepted'[Len(accepted) + 1] = Entry(c)
        /\ DOMAIN accepted = 1 .. Len(accepted) /\ Len(accepted) \in Nat
    BY <1>2, <1>4, <1>8, AppendProperties
  <2>0. PICK l \in Nat : l = Len(accepted) + 1
    BY <2>1
  <2>2. /\ DOMAIN accepted' = DOMAIN accepted \cup {l} /\ l \notin DOMAIN accepted
        /\ accepted'[l] = Entry(c)
    BY <2>0, <2>1
  <2>3. \A k \in DOMAIN accepted' : \E d \in 1 .. validated' : accepted'[k] = Entry(d) /\ Passes(d)
    BY <1>3, <1>8, <2>1, <2>2 DEF ExtractInv, Sorted
  <2>4. \A k \in DOMAIN rejected : \E d \in 1 .. validated' : rejected[k] = Refusal(d) /\ ~Passes(d)
    BY <1>3 DEF ExtractInv, Sorted
  <2>5. \A d \in 1 .. validated' : Holds(accepted', Entry(d)') \/ Holds(rejected', Refusal(d)')
    <3>1. /\ accepted' \in Seq(Entries) /\ Holds(accepted', Entry(c))
          /\ \A x : Holds(accepted, x) => Holds(accepted', x)
      BY <1>2, <1>4, <1>8, Appended
    <3>2. \A d \in 1 .. validated' : Holds(accepted', Entry(d)) \/ Holds(rejected, Refusal(d))
      BY <1>3, <1>b, <3>1
    <3> QED
      BY <1>5, <1>8, <3>2
  <2>6. \A k, m \in DOMAIN accepted' : accepted'[k].claim = accepted'[m].claim => k = m
    <3> SUFFICES ASSUME NEW k \in DOMAIN accepted', NEW m \in DOMAIN accepted',
                        accepted'[k].claim = accepted'[m].claim
                 PROVE  k = m
      OBVIOUS
    <3>1. accepted'[l].claim = c
      BY <2>2, EntryClaim
    <3>2. CASE k = l
      BY <1>3, <1>7, <2>1, <2>2, <3>1, <3>2
    <3>3. CASE m = l
      BY <1>3, <1>7, <2>1, <2>2, <3>1, <3>3
    <3>4. CASE k # l /\ m # l
      BY <2>1, <2>2, <3>4 DEF ExtractInv, Sorted
    <3> QED
      BY <3>2, <3>3, <3>4
  <2> QED
    <3>0. /\ proposal' \in Seq(Extract!Claims)
          /\ accepted' \in Seq(Entries) /\ rejected' \in Seq(Refusals)
      BY <1>1, <1>2, <1>8, <2>1
    <3>1. validated' \in 0 .. Len(proposal)
      BY <1>0, <1>1, <1>2
    <3>2. /\ \A k \in DOMAIN accepted' :
                \E d \in 1 .. validated' : accepted'[k] = Entry(d)' /\ Passes(d)'
          /\ \A k \in DOMAIN rejected' :
                \E d \in 1 .. validated' : rejected'[k] = Refusal(d)' /\ ~Passes(d)'
      BY <1>5, <1>8, <2>3, <2>4
    <3>3. \A k, m \in DOMAIN accepted' : accepted'[k].claim = accepted'[m].claim => k = m
      BY <1>8, <2>6
    <3>4. Sorted'
      BY <1>1, <1>5, <2>5, <3>0, <3>1, <3>2, <3>3 DEF Sorted
    <3> QED
      BY <1>6, <3>4 DEF ExtractInv
<1>9. CASE ~Passes(c) /\ rejected' = Append(rejected, Refusal(c)) /\ accepted' = accepted
  <2>1. /\ rejected' \in Seq(Refusals) /\ DOMAIN rejected' = 1 .. Len(rejected) + 1
        /\ \A k \in DOMAIN rejected : rejected'[k] = rejected[k]
        /\ rejected'[Len(rejected) + 1] = Refusal(c)
        /\ DOMAIN rejected = 1 .. Len(rejected) /\ Len(rejected) \in Nat
    BY <1>2, <1>4, <1>9, AppendProperties
  <2>0. PICK l \in Nat : l = Len(rejected) + 1
    BY <2>1
  <2>2. /\ DOMAIN rejected' = DOMAIN rejected \cup {l} /\ l \notin DOMAIN rejected
        /\ rejected'[l] = Refusal(c)
    BY <2>0, <2>1
  <2>3. \A k \in DOMAIN accepted : \E d \in 1 .. validated' : accepted[k] = Entry(d) /\ Passes(d)
    BY <1>3 DEF ExtractInv, Sorted
  <2>4. \A k \in DOMAIN rejected' : \E d \in 1 .. validated' : rejected'[k] = Refusal(d) /\ ~Passes(d)
    BY <1>3, <1>9, <2>1, <2>2 DEF ExtractInv, Sorted
  <2>5. \A d \in 1 .. validated' : Holds(accepted', Entry(d)') \/ Holds(rejected', Refusal(d)')
    <3>1. /\ rejected' \in Seq(Refusals) /\ Holds(rejected', Refusal(c))
          /\ \A x : Holds(rejected, x) => Holds(rejected', x)
      BY <1>2, <1>4, <1>9, Appended
    <3>2. \A d \in 1 .. validated' : Holds(accepted, Entry(d)) \/ Holds(rejected', Refusal(d))
      BY <1>3, <1>b, <3>1
    <3> QED
      BY <1>5, <1>9, <3>2
  <2>6. \A k, m \in DOMAIN accepted : accepted[k].claim = accepted[m].claim => k = m
    BY DEF ExtractInv, Sorted
  <2> QED
    <3>0. /\ proposal' \in Seq(Extract!Claims)
          /\ accepted' \in Seq(Entries) /\ rejected' \in Seq(Refusals)
      BY <1>1, <1>2, <1>9, <2>1
    <3>1. validated' \in 0 .. Len(proposal)
      BY <1>0, <1>1, <1>2
    <3>2. /\ \A k \in DOMAIN accepted' :
                \E d \in 1 .. validated' : accepted'[k] = Entry(d)' /\ Passes(d)'
          /\ \A k \in DOMAIN rejected' :
                \E d \in 1 .. validated' : rejected'[k] = Refusal(d)' /\ ~Passes(d)'
      BY <1>5, <1>9, <2>3, <2>4
    <3>3. \A k, m \in DOMAIN accepted' : accepted'[k].claim = accepted'[m].claim => k = m
      BY <1>9, <2>6
    <3>4. Sorted'
      BY <1>1, <1>5, <2>5, <3>0, <3>1, <3>2, <3>3 DEF Sorted
    <3> QED
      BY <1>6, <3>4 DEF ExtractInv
<1> QED
  BY <1>a, <1>8, <1>9

LEMMA SortedKept ==
    ASSUME Sorted, UNCHANGED <<proposal, validated, accepted, rejected>>
    PROVE  Sorted'
<1>1. /\ \A d : Entry(d)' = Entry(d) /\ Refusal(d)' = Refusal(d) /\ (Passes(d)' <=> Passes(d))
      /\ Entries' = Entries /\ Refusals' = Refusals
  BY ProposalKept
<1>2. \A d \in 1 .. validated : Holds(accepted, Entry(d)') \/ Holds(rejected, Refusal(d)')
  BY <1>1 DEF Sorted
<1>3. /\ \A k \in DOMAIN accepted :
            \E d \in 1 .. validated : accepted[k] = Entry(d)' /\ Passes(d)'
      /\ \A k \in DOMAIN rejected :
            \E d \in 1 .. validated : rejected[k] = Refusal(d)' /\ ~Passes(d)'
  BY <1>1 DEF Sorted
<1> QED
  BY <1>1, <1>2, <1>3 DEF Sorted

LEMMA JudgeInv ==
    ASSUME ExtractInv, Extract!Judge
    PROVE  ExtractInv'
<1>1. /\ validated = Len(proposal) /\ accepted # <<>> /\ ~committed
      /\ UNCHANGED <<proposal, validated, accepted, rejected, evidence, committed>>
  BY DEF Extract!Judge
<1>2. PICK said \in [DOMAIN accepted -> {"supports", "refutes", "maybe"}] :
         /\ judged' = said
         /\ verdicts' = [c \in {accepted[k].claim : k \in DOMAIN accepted} |->
                            said[CHOOSE k \in DOMAIN accepted : accepted[k].claim = c]]
  BY DEF Extract!Judge
<1>3. ASSUME NEW k \in DOMAIN accepted
      PROVE  verdicts'[accepted[k].claim] = judged'[k]
  <2>1. \A m \in DOMAIN accepted : accepted[m].claim = accepted[k].claim => m = k
    BY DEF ExtractInv, Sorted
  <2>2. (CHOOSE m \in DOMAIN accepted : accepted[m].claim = accepted[k].claim) = k
    BY <2>1
  <2> QED
    BY <1>2, <2>2
<1>4. verdicts' # <<>>
  <2>1. accepted \in Seq(Entries)
    BY DEF ExtractInv, Sorted
  <2>2. 1 \in DOMAIN accepted
    BY <1>1, <2>1
  <2>3. accepted[1].claim \in DOMAIN verdicts'
    BY <1>2, <2>2
  <2> QED
    BY <2>3
<1>5. DOMAIN judged' = DOMAIN accepted
  BY <1>2
<1>6. Sorted'
  BY <1>1, SortedKept DEF ExtractInv
<1>7. JudgedOnce' /\ Committed'
  BY <1>1, <1>3, <1>4, <1>5 DEF ExtractInv, JudgedOnce, Committed
<1> QED
  BY <1>6, <1>7 DEF ExtractInv

LEMMA ExtractNext == ExtractInv /\ [Extract!Next]_(Extract!vars) => ExtractInv'
<1> SUFFICES ASSUME ExtractInv, [Extract!Next]_(Extract!vars) PROVE ExtractInv'
  OBVIOUS
<1>1. ASSUME UNCHANGED <<proposal, validated, accepted, rejected, judged, verdicts>>
      PROVE  Sorted' /\ JudgedOnce'
  BY <1>1, SortedKept DEF ExtractInv, JudgedOnce
<1>2. CASE Extract!Commit
  <2>1. /\ validated = Len(proposal) /\ committed'
        /\ UNCHANGED <<proposal, validated, accepted, rejected, judged, verdicts>>
        /\ evidence' = UNION {{Extract!Row(k, n) : n \in DOMAIN Extract!Evidence(accepted[k].claim)} :
                                 k \in DOMAIN accepted}
    BY <1>2 DEF Extract!Commit
  <2>2. Committed'
    BY <2>1 DEF Committed, Extract!Row, Extract!Evidence, Extract!Status
  <2> QED
    BY <1>1, <2>1, <2>2 DEF ExtractInv
<1>3. CASE UNCHANGED Extract!vars
  <2>1. UNCHANGED <<proposal, validated, accepted, rejected, judged, verdicts, evidence, committed>>
    BY <1>3 DEF Extract!vars
  <2>2. Committed'
    BY <2>1 DEF ExtractInv, Committed, Extract!Row, Extract!Evidence, Extract!Status
  <2> QED
    BY <1>1, <2>1, <2>2 DEF ExtractInv
<1> QED
  BY <1>2, <1>3, ValidateInv, JudgeInv DEF Extract!Next

\* What stands in the list of the accepted.
LEMMA AcceptedIs ==
    ASSUME ExtractInv, NEW k \in DOMAIN accepted
    PROVE  \E c \in DOMAIN proposal :
              /\ accepted[k].claim = c /\ accepted[k].starts = Extract!Located(c) /\ Passes(c)
              /\ proposal[c] \in Extract!Claims
<1>1. PICK c \in 1 .. validated : accepted[k] = Entry(c) /\ Passes(c)
  BY DEF ExtractInv, Sorted
<1>2. c \in DOMAIN proposal /\ proposal[c] \in Extract!Claims
  BY DEF ExtractInv, Sorted
<1> QED
  BY <1>1, <1>2 DEF Entry

LEMMA RowIs ==
    ASSUME NEW k, NEW n
    PROVE  LET r == Extract!Row(k, n)
               e == Extract!Evidence(accepted[k].claim)[n]
           IN  /\ r.claim = accepted[k].claim /\ r.nth = n
               /\ r.block = e.block /\ r.quote = e.quote
               /\ r.start = accepted[k].starts[n]
               /\ r.status = Extract!Status(k)
BY DEF Extract!Row

\* The verdict found by place is the one on the claim.
LEMMA StatusIsVerdict ==
    ASSUME ExtractInv, NEW k \in DOMAIN accepted
    PROVE  Extract!Status(k) = Extract!Verdict(accepted[k].claim)
<1>1. CASE judged = <<>> /\ verdicts = <<>>
  BY <1>1 DEF Extract!Status, Extract!Verdict
<1>2. CASE verdicts # <<>> /\ k \in DOMAIN judged /\ verdicts[accepted[k].claim] = judged[k]
  BY <1>2 DEF Extract!Status, Extract!Verdict
<1> QED
  BY <1>1, <1>2 DEF ExtractInv, JudgedOnce

LEMMA QuotedFromInv == ExtractInv => EvidenceIsQuoted
<1> SUFFICES ASSUME ExtractInv, committed PROVE Extract!EvidenceIsQuoted
  BY DEF EvidenceIsQuoted, Extract!EvidenceIsQuoted
<1>1. /\ validated = Len(proposal)
      /\ proposal \in Seq(Extract!Claims) /\ DOMAIN proposal = 1 .. Len(proposal)
  BY DEF ExtractInv, Sorted, Committed
<1>2. \A r : r \in evidence <=> \E k \in DOMAIN accepted :
                \E n \in DOMAIN Extract!Evidence(accepted[k].claim) : r = Extract!Row(k, n)
  BY DEF ExtractInv, Committed
<1>3. ASSUME NEW k \in DOMAIN accepted
      PROVE  LET c == accepted[k].claim IN
             /\ c \in DOMAIN proposal /\ Passes(c)
             /\ accepted[k].starts = Extract!Located(c)
             /\ DOMAIN Extract!Evidence(c) # {}
             /\ \A n \in DOMAIN Extract!Evidence(c) :
                   Extract!CodeOf(Extract!Evidence(c)[n]) = "ok"
             /\ \A number \in proposal[c].numbers : \E n \in DOMAIN Extract!Evidence(c) :
                   number \in Extract!WordsOf(Extract!Evidence(c)[n].quote)
  <2>1. PICK c \in DOMAIN proposal :
              /\ accepted[k].claim = c /\ accepted[k].starts = Extract!Located(c) /\ Passes(c)
              /\ proposal[c] \in Extract!Claims
    BY <1>3, AcceptedIs
  <2>2. /\ proposal[c].evidence \in Seq(Extract!Quotes) /\ proposal[c].evidence # <<>>
        /\ \A n \in DOMAIN proposal[c].evidence : Extract!CodeOf(proposal[c].evidence[n]) = "ok"
        /\ Extract!_numeric_support(proposal[c])
    BY <2>1, ClaimPasses DEF Passes
  <2>3. 1 \in DOMAIN proposal[c].evidence
    BY <2>2
  <2> QED
    BY <2>1, <2>2, <2>3 DEF Extract!Evidence, Extract!_numeric_support
\* Each row, where it stands.
<1>4. ASSUME NEW r \in evidence
      PROVE  /\ r.block \in DOMAIN Blocks
             /\ SubSeq(Blocks[r.block], r.start, r.start + Len(r.quote) - 1) = r.quote
             /\ r.status = Extract!Verdict(r.claim)
             /\ \E k \in DOMAIN accepted : r.claim = accepted[k].claim
             /\ r.nth \in DOMAIN Extract!Evidence(r.claim)
             /\ r.quote = Extract!Evidence(r.claim)[r.nth].quote
  <2>1. PICK k \in DOMAIN accepted :
            \E n \in DOMAIN Extract!Evidence(accepted[k].claim) : r = Extract!Row(k, n)
    BY <1>2, <1>4
  <2>2. PICK c : c = accepted[k].claim
    OBVIOUS
  <2>3. PICK n \in DOMAIN Extract!Evidence(c) : r = Extract!Row(k, n)
    BY <2>1, <2>2
  <2>4. PICK e : e = Extract!Evidence(c)[n]
    OBVIOUS
  <2>5. /\ r.claim = c /\ r.nth = n /\ r.block = e.block /\ r.quote = e.quote
        /\ r.start = accepted[k].starts[n] /\ r.status = Extract!Status(k)
    BY <2>2, <2>3, <2>4, RowIs
  <2>6. Extract!CodeOf(e) = "ok" /\ accepted[k].starts = Extract!Located(c)
    BY <1>3, <2>2, <2>3, <2>4
  <2>7. e.block \in DOMAIN Blocks /\ Extract!Occurrences(Blocks[e.block], e.quote) # {}
    BY <2>6, QuotePasses
  <2>8. r.start = Extract!locate_quote(Blocks[e.block], e.quote)
    BY <2>3, <2>4, <2>5, <2>6 DEF Extract!Located
  <2>9. Len(Blocks[e.block]) \in Nat
    BY <2>7, ExtractAssumption
  <2>10. SubSeq(Blocks[e.block], r.start, r.start + Len(e.quote) - 1) = e.quote
    BY <2>7, <2>8, <2>9, LocatedThere
  <2>11. r.status = Extract!Verdict(c)
    BY <2>2, <2>5, StatusIsVerdict
  <2> QED
    BY <2>2, <2>3, <2>4, <2>5, <2>7, <2>10, <2>11
\* A row for each quote of an accepted claim.
<1>5. ASSUME NEW k \in DOMAIN accepted, NEW n \in DOMAIN Extract!Evidence(accepted[k].claim)
      PROVE  \E r \in evidence :
                r.claim = accepted[k].claim /\ r.nth = n
                /\ r.quote = Extract!Evidence(accepted[k].claim)[n].quote
  <2>1. Extract!Row(k, n) \in evidence
    BY <1>2, <1>5
  <2> QED
    BY <2>1, RowIs
<1>6. ASSUME NEW c \in Extract!Stored
      PROVE  \E k \in DOMAIN accepted : c = accepted[k].claim
  BY <1>4, <1>6 DEF Extract!Stored
<1>7. ASSUME NEW k \in DOMAIN accepted
      PROVE  accepted[k].claim \in Extract!Stored
  <2>1. PICK n \in DOMAIN Extract!Evidence(accepted[k].claim) : TRUE
    BY <1>3, <1>7
  <2> QED
    BY <1>5, <1>7, <2>1 DEF Extract!Stored
<1>8. ASSUME NEW c \in Extract!Stored
      PROVE  /\ \A n \in DOMAIN Extract!Evidence(c) :
                    \E r \in evidence : /\ r.claim = c /\ r.nth = n
                                        /\ r.quote = Extract!Evidence(c)[n].quote
             /\ \A number \in proposal[c].numbers :
                    \E r \in evidence : r.claim = c /\ number \in Extract!WordsOf(r.quote)
  <2>1. PICK k \in DOMAIN accepted : c = accepted[k].claim
    BY <1>6, <1>8
  <2>2. \A n \in DOMAIN Extract!Evidence(c) :
            \E r \in evidence : /\ r.claim = c /\ r.nth = n
                                /\ r.quote = Extract!Evidence(c)[n].quote
    BY <1>5, <2>1
  <2>3. ASSUME NEW number \in proposal[c].numbers
        PROVE  \E r \in evidence : r.claim = c /\ number \in Extract!WordsOf(r.quote)
    <3>1. PICK n \in DOMAIN Extract!Evidence(c) :
                 number \in Extract!WordsOf(Extract!Evidence(c)[n].quote)
      BY <1>3, <2>1, <2>3
    <3>2. PICK r \in evidence : r.claim = c /\ r.quote = Extract!Evidence(c)[n].quote
      BY <2>2
    <3> QED
      BY <3>1, <3>2
  <2> QED
    BY <2>2, <2>3
<1>9. Extract!Stored \cup Extract!Refused = DOMAIN proposal
  <2>1. \A c \in Extract!Stored : c \in DOMAIN proposal
    BY <1>3, <1>6
  <2>2. \A c \in Extract!Refused : c \in DOMAIN proposal
    <3> SUFFICES ASSUME NEW k \in DOMAIN rejected
                 PROVE  rejected[k].claim \in DOMAIN proposal
      BY DEF Extract!Refused
    <3>1. PICK c \in 1 .. validated : rejected[k] = Refusal(c)
      BY DEF ExtractInv, Sorted
    <3> QED
      BY <1>1, <3>1, EntryClaim
  <2>3. ASSUME NEW c \in DOMAIN proposal
        PROVE  c \in Extract!Stored \cup Extract!Refused
    <3>1. Holds(accepted, Entry(c)) \/ Holds(rejected, Refusal(c))
      BY <1>1, <2>3 DEF ExtractInv, Sorted
    <3>2. CASE Holds(accepted, Entry(c))
      <4>1. PICK k \in DOMAIN accepted : accepted[k] = Entry(c)
        BY <3>2 DEF Holds
      <4>2. accepted[k].claim = c
        BY <4>1, EntryClaim
      <4> QED
        BY <1>7, <4>2
    <3>3. CASE Holds(rejected, Refusal(c))
      <4>1. PICK k \in DOMAIN rejected : rejected[k] = Refusal(c)
        BY <3>3 DEF Holds
      <4>2. rejected[k].claim = c
        BY <4>1, EntryClaim
      <4> QED
        BY <4>2 DEF Extract!Refused
    <3> QED
      BY <3>1, <3>2, <3>3
  <2> QED
    BY <2>1, <2>2, <2>3
<1>10. Extract!Stored \cap Extract!Refused = {}
  <2> SUFFICES ASSUME NEW c \in Extract!Stored, c \in Extract!Refused PROVE FALSE
    OBVIOUS
  <2>1. Passes(c)
    BY <1>3, <1>6
  <2>2. PICK k \in DOMAIN rejected : rejected[k].claim = c
    BY DEF Extract!Refused
  <2>3. PICK d \in 1 .. validated : rejected[k] = Refusal(d) /\ ~Passes(d)
    BY DEF ExtractInv, Sorted
  <2>4. d = c
    BY <2>2, <2>3, EntryClaim
  <2> QED
    BY <2>1, <2>3, <2>4
<1>11. \A c \in Extract!Stored : \A r \in evidence : r.claim = c =>
           /\ r.nth \in DOMAIN Extract!Evidence(c)
           /\ r.quote = Extract!Evidence(c)[r.nth].quote
  BY <1>4
<1>12. \A r \in evidence :
           /\ r.block \in DOMAIN Blocks
           /\ SubSeq(Blocks[r.block], r.start, r.start + Len(r.quote) - 1) = r.quote
           /\ r.status = Extract!Verdict(r.claim)
  BY <1>4
<1> QED
  BY <1>8, <1>9, <1>10, <1>11, <1>12, Zenon DEF Extract!EvidenceIsQuoted

-----------------------------------------------------------------------------
(* The diff of two parses.                                                  *)

LEMMA DiffCardinality == \A S : Diff!Cardinality(S) = Cardinality(S)
  BY Zenon DEF Diff!Cardinality, Cardinality

Rank(k, S) == Cardinality({i \in S : i <= k})

\* The n-th of S in f reads like the n-th of T in g.
Alike(S, T, f, g) ==
    /\ Cardinality(S) = Cardinality(T)
    /\ \A i \in S, j \in T : Rank(i, S) = Rank(j, T) => f[i] = g[j]

Froms(entries) == {e.from : e \in entries}
Tos(entries) == {e.to : e \in entries}

EntryRows(m, n) == [from : 0 .. m, to : 0 .. n]

\* No block is mentioned twice.
OnceEach(entries) ==
    \A d, e \in entries :
        (d.from = e.from /\ d.from # 0) \/ (d.to = e.to /\ d.to # 0) => d = e

Walked ==
    /\ old \in Seq(BlockTexts) /\ new \in Seq(BlockTexts)
    /\ i1 \in 0 .. Len(old) /\ j1 \in 0 .. Len(new)
    /\ changed \subseteq EntryRows(i1, j1)

\* Of the blocks that have been walked those the diff does not mention are alike.
DiffInv ==
    /\ Walked
    /\ OnceEach(changed)
    /\ Alike((1 .. i1) \ Froms(changed), (1 .. j1) \ Tos(changed), old, new)
    /\ changed = {} => i1 = j1 /\ \A k \in 1 .. i1 : old[k] = new[k]
    /\ kind # None => /\ i1 = Len(old) /\ j1 = Len(new)
                      /\ kind # "parser_change" => fields \/ changed # {}

\* The places up to a bound, and a place behind them.
LEMMA RankBehind ==
    ASSUME NEW m \in Nat, NEW S, S \subseteq 1 .. m
    PROVE  /\ IsFiniteSet(S) /\ Cardinality(S) \in Nat
           /\ Cardinality(S \cup {m + 1}) = Cardinality(S) + 1
           /\ Rank(m + 1, S \cup {m + 1}) = Cardinality(S) + 1
           /\ \A i \in S : /\ Rank(i, S \cup {m + 1}) = Rank(i, S)
                           /\ Rank(i, S) \in Nat /\ Rank(i, S) <= Cardinality(S)
<1>1. IsFiniteSet(S)
  BY FS_Interval, FS_Subset, 1 \in Int, m \in Int
<1>2. m + 1 \notin S
  OBVIOUS
<1>3. Cardinality(S) \in Nat /\ Cardinality(S \cup {m + 1}) = Cardinality(S) + 1
  BY <1>1, <1>2, FS_AddElement, FS_CardinalityType
<1>4. {i \in S \cup {m + 1} : i <= m + 1} = S \cup {m + 1}
  <2>1. \A i \in S \cup {m + 1} : i <= m + 1
    OBVIOUS
  <2> QED
    BY <2>1, Zenon
<1>5. ASSUME NEW i \in S
      PROVE  /\ Rank(i, S \cup {m + 1}) = Rank(i, S)
             /\ Rank(i, S) \in Nat /\ Rank(i, S) <= Cardinality(S)
  <2>1. {k \in S \cup {m + 1} : k <= i} = {k \in S : k <= i}
    BY <1>5
  <2>2. {k \in S : k <= i} \in SUBSET S
    OBVIOUS
  <2>3. Cardinality({k \in S : k <= i}) \in Nat
        /\ Cardinality({k \in S : k <= i}) <= Cardinality(S)
    BY <1>1, <2>2, FS_Subset, FS_CardinalityType
  <2> QED
    BY <2>1, <2>3 DEF Rank
<1>6. Rank(m + 1, S \cup {m + 1}) = Cardinality(S \cup {m + 1})
  BY <1>4 DEF Rank
<1> QED
  BY <1>1, <1>3, <1>5, <1>6

\* A block more on either side that reads the same.
LEMMA AlikeGrows ==
    ASSUME NEW m \in Nat, NEW n \in Nat, NEW S, NEW T, S \subseteq 1 .. m, T \subseteq 1 .. n,
           NEW f, NEW g, Alike(S, T, f, g), f[m + 1] = g[n + 1]
    PROVE  Alike(S \cup {m + 1}, T \cup {n + 1}, f, g)
<1> DEFINE U == S \cup {m + 1}
           V == T \cup {n + 1}
<1>1. /\ Cardinality(S) \in Nat /\ Cardinality(U) = Cardinality(S) + 1
      /\ Rank(m + 1, U) = Cardinality(S) + 1
      /\ \A i \in S : Rank(i, U) = Rank(i, S) /\ Rank(i, S) \in Nat /\ Rank(i, S) <= Cardinality(S)
  BY RankBehind
<1>2. /\ Cardinality(T) \in Nat /\ Cardinality(V) = Cardinality(T) + 1
      /\ Rank(n + 1, V) = Cardinality(T) + 1
      /\ \A j \in T : Rank(j, V) = Rank(j, T) /\ Rank(j, T) \in Nat /\ Rank(j, T) <= Cardinality(T)
  BY RankBehind
<1>3. Cardinality(S) = Cardinality(T)
      /\ \A i \in S, j \in T : Rank(i, S) = Rank(j, T) => f[i] = g[j]
  BY DEF Alike
<1>4. ASSUME NEW i \in U, NEW j \in V, Rank(i, U) = Rank(j, V)
      PROVE  f[i] = g[j]
  <2>1. CASE i \in S /\ j \in T
    BY <1>1, <1>2, <1>3, <1>4, <2>1
  <2>2. CASE i = m + 1 /\ j = n + 1
    BY <2>2
  <2>3. CASE i \in S /\ j = n + 1
    <3>1. Rank(i, U) \in Nat /\ Rank(i, U) <= Cardinality(S)
      BY <1>1, <2>3
    <3>2. Rank(j, V) = Cardinality(T) + 1
      BY <1>2, <2>3
    <3> HIDE DEF U, V
    <3> QED
      BY <1>2, <1>3, <1>4, <3>1, <3>2
  <2>4. CASE i = m + 1 /\ j \in T
    <3>1. Rank(j, V) \in Nat /\ Rank(j, V) <= Cardinality(T)
      BY <1>2, <2>4
    <3>2. Rank(i, U) = Cardinality(S) + 1
      BY <1>1, <2>4
    <3> HIDE DEF U, V
    <3> QED
      BY <1>1, <1>3, <1>4, <3>1, <3>2
  <2> QED
    BY <2>1, <2>2, <2>3, <2>4
<1> HIDE DEF U, V
<1>5. Alike(U, V, f, g)
  BY <1>1, <1>2, <1>3, <1>4 DEF Alike
<1> QED
  BY <1>5 DEF U, V

LEMMA DiffInit == Diff!Init => DiffInv
<1> SUFFICES ASSUME Diff!Init PROVE DiffInv
  OBVIOUS
<1>1. ASSUME NEW s \in Diff!SeqOf(BlockTexts, MaxBlocks) PROVE s \in Seq(BlockTexts)
  BY <1>1, ParsedAssumption DEF Diff!SeqOf
<1>2. Walked
  BY <1>1 DEF Diff!Init, Walked
<1>3. Froms({}) = {} /\ Tos({}) = {} /\ 1 .. 0 = {}
  BY DEF Froms, Tos
<1>4. Alike((1 .. i1) \ Froms(changed), (1 .. j1) \ Tos(changed), old, new)
  BY <1>3 DEF Diff!Init, Alike
<1> QED
  BY <1>2, <1>4 DEF Diff!Init, DiffInv, OnceEach

LEMMA EqualStep == DiffInv /\ Diff!Equal => DiffInv'
<1> SUFFICES ASSUME DiffInv, Diff!Equal PROVE DiffInv'
  OBVIOUS
<1>1. /\ i1' = i1 + 1 /\ j1' = j1 + 1 /\ old[i1 + 1] = new[j1 + 1]
      /\ old' = old /\ new' = new /\ changed' = changed /\ kind' = kind /\ fields' = fields
      /\ i1 < Len(old) /\ j1 < Len(new)
  BY DEF Diff!Equal
<1>2. i1 \in Nat /\ j1 \in Nat /\ Walked'
  BY <1>1 DEF DiffInv, Walked, EntryRows
<1>3. /\ (1 .. i1 + 1) \ Froms(changed) = ((1 .. i1) \ Froms(changed)) \cup {i1 + 1}
      /\ (1 .. j1 + 1) \ Tos(changed) = ((1 .. j1) \ Tos(changed)) \cup {j1 + 1}
  BY <1>2 DEF DiffInv, Walked, EntryRows, Froms, Tos
<1>4. Alike((1 .. i1 + 1) \ Froms(changed), (1 .. j1 + 1) \ Tos(changed), old, new)
  BY <1>1, <1>2, <1>3, AlikeGrows DEF DiffInv
<1>5. Alike((1 .. i1) \ Froms(changed), (1 .. j1) \ Tos(changed), old, new)'
  BY <1>1, <1>4
<1>6. changed' = {} => i1' = j1' /\ \A k \in 1 .. i1' : old'[k] = new'[k]
  BY <1>1, <1>2 DEF DiffInv
<1>7. kind' = None
  BY <1>1, <1>2 DEF DiffInv
<1>8. OnceEach(changed)'
  BY <1>1 DEF DiffInv
<1> QED
  BY <1>2, <1>5, <1>6, <1>7, <1>8 DEF DiffInv

\* The entries of a gap mention each of its blocks once, and no other.
OfGap(E, gone, come) ==
    /\ E \subseteq EntryRows(i1 + gone, j1 + come)
    /\ \A e \in E : (e.from = 0 \/ e.from > i1) /\ (e.to = 0 \/ e.to > j1)
    /\ \A k \in 1 .. gone : \E e \in E : e.from = i1 + k
    /\ \A k \in 1 .. come : \E e \in E : e.to = j1 + k
    /\ OnceEach(E)

LEMMA GapEntries ==
    ASSUME i1 \in Nat, j1 \in Nat, NEW gone \in Nat, NEW come \in Nat,
           NEW alike, alike \subseteq (1 .. gone) \cap (1 .. come)
    PROVE  OfGap(Diff!Entries(gone, come, alike), gone, come)
<1> DEFINE E == Diff!Entries(gone, come, alike)
           A == {[from |-> i1 + k, to |-> j1 + k] : k \in alike}
           B == {[from |-> i1 + k, to |-> 0] : k \in {k \in Diff!Offsets(gone, come) \ alike : k <= gone}}
           C == {[from |-> 0, to |-> j1 + k] : k \in {k \in Diff!Offsets(gone, come) \ alike : k <= come}}
<1>1. E = A \cup B \cup C
  BY DEF Diff!Entries
<1>2. /\ Diff!Offsets(gone, come) \subseteq Nat \ {0}
      /\ 1 .. gone \subseteq Diff!Offsets(gone, come)
      /\ 1 .. come \subseteq Diff!Offsets(gone, come)
  BY DEF Diff!Offsets
<1>3. \A e \in A : \E k \in alike : e.from = i1 + k /\ e.to = j1 + k /\ e = [from |-> i1 + k, to |-> j1 + k]
  OBVIOUS
<1>4. \A e \in B : \E k \in 1 .. gone : k \notin alike /\ e.from = i1 + k /\ e.to = 0
                                       /\ e = [from |-> i1 + k, to |-> 0]
  BY <1>2
<1>5. \A e \in C : \E k \in 1 .. come : k \notin alike /\ e.from = 0 /\ e.to = j1 + k
                                       /\ e = [from |-> 0, to |-> j1 + k]
  BY <1>2
<1>6. ASSUME NEW k \in 1 .. gone PROVE \E e \in E : e.from = i1 + k
  <2>1. CASE k \in alike
    <3>1. PICK e : e = [from |-> i1 + k, to |-> j1 + k]
      OBVIOUS
    <3>2. e \in A
      BY <2>1, <3>1
    <3>3. e.from = i1 + k /\ e.to = j1 + k
      BY <3>1
    <3> HIDE DEF A, B, C, E
    <3> QED
      BY <1>1, <3>2, <3>3
  <2>2. CASE k \notin alike
    <3>1. PICK e : e = [from |-> i1 + k, to |-> 0]
      OBVIOUS
    <3>2. e \in B
      BY <1>2, <2>2, <3>1
    <3>3. e.from = i1 + k
      BY <3>1
    <3> HIDE DEF A, B, C, E
    <3> QED
      BY <1>1, <3>2, <3>3
  <2> QED
    BY <2>1, <2>2
<1>7. ASSUME NEW k \in 1 .. come PROVE \E e \in E : e.to = j1 + k
  <2>1. CASE k \in alike
    <3>1. PICK e : e = [from |-> i1 + k, to |-> j1 + k]
      OBVIOUS
    <3>2. e \in A
      BY <2>1, <3>1
    <3>3. e.from = i1 + k /\ e.to = j1 + k
      BY <3>1
    <3> HIDE DEF A, B, C, E
    <3> QED
      BY <1>1, <3>2, <3>3
  <2>2. CASE k \notin alike
    <3>1. PICK e : e = [from |-> 0, to |-> j1 + k]
      OBVIOUS
    <3>2. e \in C
      BY <1>2, <2>2, <3>1
    <3>3. e.to = j1 + k
      BY <3>1
    <3> HIDE DEF A, B, C, E
    <3> QED
      BY <1>1, <3>2, <3>3
  <2> QED
    BY <2>1, <2>2
<1> HIDE DEF A, B, C
<1>8. ASSUME NEW e \in E
      PROVE  /\ e \in EntryRows(i1 + gone, j1 + come)
             /\ (e.from = 0 \/ e.from > i1) /\ (e.to = 0 \/ e.to > j1)
  <2>1. CASE e \in A
    BY <1>3, <2>1 DEF EntryRows
  <2>2. CASE e \in B
    BY <1>4, <2>2 DEF EntryRows
  <2>3. CASE e \in C
    BY <1>5, <2>3 DEF EntryRows
  <2> QED
    BY <1>1, <2>1, <2>2, <2>3
<1>9. ASSUME NEW d \in E, NEW e \in E, d.from = e.from /\ d.from # 0
      PROVE  d = e
  <2>1. d \in A \cup B /\ e \in A \cup B
    BY <1>1, <1>5, <1>9
  <2>2. CASE d \in A /\ e \in A
    BY <1>3, <1>9, <2>2
  <2>3. CASE d \in B /\ e \in B
    BY <1>4, <1>9, <2>3
  <2>4. \A a \in A, b \in B : a.from # b.from
    <3> SUFFICES ASSUME NEW a \in A, NEW b \in B, a.from = b.from PROVE FALSE
      OBVIOUS
    <3>1. PICK k \in alike : a.from = i1 + k
      BY <1>3
    <3>2. PICK l \in 1 .. gone : l \notin alike /\ b.from = i1 + l
      BY <1>4
    <3>3. i1 + k = i1 + l
      BY <3>1, <3>2, Zenon
    <3>4. k \in Nat /\ l \in Nat
      OBVIOUS
    <3>5. k = l
      BY <3>3, <3>4
    <3> QED
      BY <3>2, <3>5
  <2> QED
    BY <1>9, <2>1, <2>2, <2>3, <2>4
<1>10. ASSUME NEW d \in E, NEW e \in E, d.to = e.to /\ d.to # 0
       PROVE  d = e
  <2>1. d \in A \cup C /\ e \in A \cup C
    BY <1>1, <1>4, <1>10
  <2>2. CASE d \in A /\ e \in A
    BY <1>3, <1>10, <2>2
  <2>3. CASE d \in C /\ e \in C
    BY <1>5, <1>10, <2>3
  <2>4. \A a \in A, b \in C : a.to # b.to
    <3> SUFFICES ASSUME NEW a \in A, NEW b \in C, a.to = b.to PROVE FALSE
      OBVIOUS
    <3>1. PICK k \in alike : a.to = j1 + k
      BY <1>3
    <3>2. PICK l \in 1 .. come : l \notin alike /\ b.to = j1 + l
      BY <1>5
    <3>3. j1 + k = j1 + l
      BY <3>1, <3>2, Zenon
    <3>4. k \in Nat /\ l \in Nat
      OBVIOUS
    <3>5. k = l
      BY <3>3, <3>4
    <3> QED
      BY <3>2, <3>5
  <2> QED
    BY <1>10, <2>1, <2>2, <2>3, <2>4
<1> HIDE DEF E
<1>11. OnceEach(E)
  BY <1>9, <1>10 DEF OnceEach
<1>12. E \subseteq EntryRows(i1 + gone, j1 + come)
  BY <1>8
<1>13. OfGap(E, gone, come)
  BY <1>6, <1>7, <1>8, <1>11, <1>12 DEF OfGap
<1> QED
  BY <1>13 DEF E

LEMMA DifferStep == DiffInv /\ Diff!Differ => DiffInv'
<1> SUFFICES ASSUME DiffInv, Diff!Differ PROVE DiffInv'
  OBVIOUS
<1>1. PICK m \in i1 .. Len(old), n \in j1 .. Len(new) :
         /\ Diff!Gap(m, n)
         /\ \E alike \in SUBSET ((1 .. m - i1) \cap (1 .. n - j1)) :
               changed' = changed \cup Diff!Entries(m - i1, n - j1, alike)
         /\ i1' = IF m < Len(old) THEN m + 1 ELSE m
         /\ j1' = IF m < Len(old) THEN n + 1 ELSE n
         /\ UNCHANGED <<old, new, upgraded, fields, kind>>
  BY DEF Diff!Differ
<1>2. PICK alike \in SUBSET ((1 .. m - i1) \cap (1 .. n - j1)) :
         changed' = changed \cup Diff!Entries(m - i1, n - j1, alike)
  BY <1>1
<1>3. PICK E : E = Diff!Entries(m - i1, n - j1, alike)
  OBVIOUS
<1>4. /\ i1 \in Nat /\ j1 \in Nat /\ m \in Nat /\ n \in Nat /\ i1 <= m /\ j1 <= n
      /\ Len(old) \in Nat /\ Len(new) \in Nat /\ m <= Len(old) /\ n <= Len(new)
      /\ old \in Seq(BlockTexts) /\ new \in Seq(BlockTexts)
  BY DEF DiffInv, Walked
<1>5. /\ m > i1 \/ n > j1
      /\ m < Len(old) => n < Len(new) /\ old[m + 1] = new[n + 1]
      /\ m = Len(old) => n = Len(new) \/ n < Len(new)
      /\ ~(m < Len(old)) => n = Len(new)
  BY <1>1, <1>4 DEF Diff!Gap
<1>6. /\ E \subseteq EntryRows(m, n)
      /\ \A e \in E : (e.from = 0 \/ e.from > i1) /\ (e.to = 0 \/ e.to > j1)
      /\ \A k \in 1 .. (m - i1) : \E e \in E : e.from = i1 + k
      /\ \A k \in 1 .. (n - j1) : \E e \in E : e.to = j1 + k
      /\ OnceEach(E)
  <2>1. PICK gone \in Nat : gone = m - i1 /\ i1 + gone = m
    BY <1>4
  <2>2. PICK come \in Nat : come = n - j1 /\ j1 + come = n
    BY <1>4
  <2>3. alike \subseteq (1 .. gone) \cap (1 .. come) /\ E = Diff!Entries(gone, come, alike)
    BY <1>3, <2>1, <2>2
  <2>4. OfGap(E, gone, come)
    BY <1>4, <2>3, GapEntries
  <2> QED
    BY <2>1, <2>2, <2>4 DEF OfGap
<1>7. changed' = changed \cup E
  BY <1>2, <1>3
<1>8. changed \subseteq EntryRows(i1, j1) /\ OnceEach(changed)
  BY DEF DiffInv, Walked
<1>9. changed' # {}
  <2>1. CASE m > i1
    <3>1. 1 \in 1 .. (m - i1)
      BY <1>4, <2>1
    <3> QED
      BY <1>6, <1>7, <3>1
  <2>2. CASE n > j1
    <3>1. 1 \in 1 .. (n - j1)
      BY <1>4, <2>2
    <3> QED
      BY <1>6, <1>7, <3>1
  <2> QED
    BY <1>5, <2>1, <2>2
<1>10. /\ i1' \in 0 .. Len(old) /\ j1' \in 0 .. Len(new) /\ m <= i1' /\ n <= j1'
       /\ m < Len(old) => i1' = m + 1 /\ j1' = n + 1
       /\ ~(m < Len(old)) => i1' = m /\ j1' = n
  BY <1>1, <1>4, <1>5
<1>11. Walked'
  <2>1. changed' \subseteq EntryRows(i1', j1')
    BY <1>4, <1>6, <1>7, <1>8, <1>10 DEF EntryRows
  <2> QED
    BY <1>1, <1>4, <1>10, <2>1 DEF Walked
<1>12. OnceEach(changed')
  <2>1. \A d \in changed, e \in E : ~(d.from = e.from /\ d.from # 0) /\ ~(d.to = e.to /\ d.to # 0)
    BY <1>4, <1>6, <1>8 DEF EntryRows
  <2> QED
    BY <1>6, <1>7, <1>8, <2>1 DEF OnceEach
<1>13. /\ (1 .. m) \ Froms(changed') = (1 .. i1) \ Froms(changed)
       /\ (1 .. n) \ Tos(changed') = (1 .. j1) \ Tos(changed)
  <2>1. ASSUME NEW k \in 1 .. m, k > i1 PROVE k \in Froms(changed')
    <3>1. k - i1 \in 1 .. (m - i1) /\ i1 + (k - i1) = k
      BY <1>4, <2>1
    <3> QED
      BY <1>6, <1>7, <3>1 DEF Froms
  <2>2. ASSUME NEW k \in 1 .. n, k > j1 PROVE k \in Tos(changed')
    <3>1. k - j1 \in 1 .. (n - j1) /\ j1 + (k - j1) = k
      BY <1>4, <2>2
    <3> QED
      BY <1>6, <1>7, <3>1 DEF Tos
  <2>3. \A k \in 1 .. i1 : k \in Froms(changed') <=> k \in Froms(changed)
    BY <1>4, <1>6, <1>7, <1>8 DEF Froms, EntryRows
  <2>4. \A k \in 1 .. j1 : k \in Tos(changed') <=> k \in Tos(changed)
    BY <1>4, <1>6, <1>7, <1>8 DEF Tos, EntryRows
  <2> QED
    BY <1>4, <2>1, <2>2, <2>3, <2>4
<1>14. Alike((1 .. m) \ Froms(changed'), (1 .. n) \ Tos(changed'), old, new)
  BY <1>13 DEF DiffInv
<1>15. Alike((1 .. i1') \ Froms(changed'), (1 .. j1') \ Tos(changed'), old, new)
  <2>1. CASE m < Len(old)
    <3>1. /\ (1 .. m + 1) \ Froms(changed') = ((1 .. m) \ Froms(changed')) \cup {m + 1}
          /\ (1 .. n + 1) \ Tos(changed') = ((1 .. n) \ Tos(changed')) \cup {n + 1}
      BY <1>4, <1>6, <1>7, <1>8 DEF Froms, Tos, EntryRows
    <3>2. Alike((1 .. m + 1) \ Froms(changed'), (1 .. n + 1) \ Tos(changed'), old, new)
      <4>1. /\ m \in Nat /\ n \in Nat /\ old[m + 1] = new[n + 1]
            /\ (1 .. m) \ Froms(changed') \subseteq 1 .. m
            /\ (1 .. n) \ Tos(changed') \subseteq 1 .. n
        BY <1>4, <1>5, <2>1
      <4>2. Alike(((1 .. m) \ Froms(changed')) \cup {m + 1},
                  ((1 .. n) \ Tos(changed')) \cup {n + 1}, old, new)
        BY <1>14, <4>1, AlikeGrows, Zenon
      <4> QED
        BY <3>1, <4>2, Zenon
    <3> QED
      BY <1>10, <2>1, <3>2
  <2>2. CASE ~(m < Len(old))
    BY <1>10, <1>14, <2>2
  <2> QED
    BY <2>1, <2>2
<1>16. kind' = None
  BY <1>1, <1>4, <1>5 DEF DiffInv
<1>17. old' = old /\ new' = new
  BY <1>1
<1> QED
  BY <1>9, <1>11, <1>12, <1>15, <1>16, <1>17 DEF DiffInv

LEMMA ClassifyStep == DiffInv /\ Diff!Classify => DiffInv'
<1> SUFFICES ASSUME DiffInv, Diff!Classify PROVE DiffInv'
  OBVIOUS
<1>1. /\ i1 = Len(old) /\ j1 = Len(new) /\ kind' = Diff!_classify
      /\ UNCHANGED <<old, new, upgraded, fields, i1, j1, changed>>
  BY DEF Diff!Classify
<1>2. changed = {} /\ ~fields => kind' = "parser_change"
  <2> SUFFICES ASSUME changed = {}, ~fields PROVE kind' = "parser_change"
    OBVIOUS
  <2>1. old \in Seq(BlockTexts) /\ new \in Seq(BlockTexts)
        /\ Len(old) = Len(new) /\ \A k \in 1 .. Len(old) : old[k] = new[k]
    BY <1>1 DEF DiffInv, Walked
  <2>2. old = new
    BY <2>1, SeqEqual
  <2>3. Diff!SameText
    BY <2>2 DEF Diff!SameText
  <2> QED
    BY <1>1, <2>3 DEF Diff!_classify
<1>3. Walked'
  BY <1>1 DEF DiffInv, Walked
<1> QED
  BY <1>1, <1>2, <1>3 DEF DiffInv

LEMMA DiffNext == DiffInv /\ [Diff!Next]_(Diff!vars) => DiffInv'
<1>1. DiffInv /\ UNCHANGED Diff!vars => DiffInv'
  BY DEF Diff!vars, DiffInv, Walked
<1> QED
  BY <1>1, EqualStep, DifferStep, ClassifyStep DEF Diff!Next

LEMMA DiffFromInv == DiffInv => Diff!DiffAccounts
<1> SUFFICES ASSUME DiffInv, kind # None
             PROVE  /\ Diff!SameInOrder(DOMAIN old \ {e.from : e \in changed},
                                        DOMAIN new \ {e.to : e \in changed})
                    /\ OnceEach(changed)
                    /\ kind # "parser_change" => fields \/ changed # {}
  BY DEF Diff!DiffAccounts, OnceEach
<1>1. DOMAIN old = 1 .. i1 /\ DOMAIN new = 1 .. j1
  BY DEF DiffInv, Walked
<1>2. Alike(DOMAIN old \ {e.from : e \in changed}, DOMAIN new \ {e.to : e \in changed}, old, new)
  BY <1>1 DEF DiffInv, Froms, Tos
<1>3. \A k, S : Diff!Rank(k, S) = Rank(k, S)
  BY DiffCardinality DEF Diff!Rank, Rank
<1>4. ASSUME NEW S, NEW T, Alike(S, T, old, new) PROVE Diff!SameInOrder(S, T)
  BY <1>3, <1>4, DiffCardinality DEF Diff!SameInOrder, Alike
<1> QED
  BY <1>2, <1>4 DEF DiffInv

-----------------------------------------------------------------------------
(* The chunker.                                                             *)

LEMMA MaxIs ==
    ASSUME NEW S, IsFiniteSet(S), S # {}, S \subseteq Int
    PROVE  Chunk!Max(S) \in S /\ \A m \in S : m <= Chunk!Max(S)
<1>1. \E n \in S : \A m \in S : n >= m
  BY GreatestExists
<1> QED
  BY <1>1 DEF Chunk!Max

LEMMA MinIs ==
    ASSUME NEW S, S # {}, S \subseteq Nat
    PROVE  Chunk!Min(S) \in S /\ \A m \in S : Chunk!Min(S) <= m
<1>1. \E n \in S : \A m \in S : n <= m
  BY MinExists
<1> QED
  BY <1>1 DEF Chunk!Min

LEMMA MaxOfTwo ==
    ASSUME NEW a \in Int, NEW b \in Int
    PROVE  Chunk!Max({a, b}) \in {a, b} /\ a <= Chunk!Max({a, b})
<1>1. IsFiniteSet({a, b})
  BY FS_EmptySet, FS_AddElement, IsFiniteSet({a}), {a, b} = {a} \cup {b}, {a} = {} \cup {a}
<1> QED
  BY <1>1, MaxIs

WordRow == [len : Nat, block : Nat, at : Nat, cites : SUBSET Nat]
UnitRow == [words : Seq(WordRow), section : BOOLEAN, table : BOOLEAN]
ChunkRow == [words : Seq(WordRow), ids : SUBSET Nat]
BlockRow == [kind : STRING, words : Seq(WordRow)]

LEMMA ChunkerIs ==
    /\ TARGET_TOKENS \in Nat /\ TOKEN_CHARS \in Nat \ {0}
    /\ Documents \subseteq Seq(BlockRow)
    /\ \A doc \in Documents : \A b \in DOMAIN doc : \A i \in DOMAIN doc[b].words :
          /\ doc[b].words[i].block = b /\ doc[b].words[i].at = i
          /\ doc[b].words[i].cites = {b}
  BY ParsedAssumption, Zenon DEF Chunk!ChunkerAssumption, BlockRow, WordRow

LEMMA TokensIs ==
    ASSUME NEW n \in Int
    PROVE  Chunk!TokensOf(n) \in Nat \ {0}
<1>1. n \div TOKEN_CHARS \in Int
  BY ChunkerIs
<1>2. Chunk!TokensOf(n) \in {1, n \div TOKEN_CHARS} /\ 1 <= Chunk!TokensOf(n)
  BY <1>1, MaxOfTwo, 1 \in Int, Zenon DEF Chunk!TokensOf
<1> QED
  BY <1>1, <1>2

\* A window has a word and stays within the block, the next one starts behind
\* this one's start and leaves no word between them.
LEMMA WindowIs ==
    ASSUME NEW words \in Seq(WordRow), NEW s \in 1 .. Len(words)
    PROVE  /\ Chunk!WindowEnd(words, s) \in s .. Len(words)
           /\ Chunk!NextStart(words, s, Chunk!WindowEnd(words, s))
                 \in s + 1 .. Chunk!WindowEnd(words, s) + 1
<1> DEFINE E == {e \in s .. Len(words) :
                   e = s \/ Chunk!Chars(SubSeq(words, s, e)) <= TARGET_TOKENS * TOKEN_CHARS}
<1>1. s \in E /\ E \subseteq s .. Len(words) /\ Len(words) \in Nat /\ s \in Nat
  OBVIOUS
<1>2. IsFiniteSet(s .. Len(words)) /\ s .. Len(words) \subseteq Int
  BY <1>1, FS_Interval, s \in Int, Len(words) \in Int
<1>3. IsFiniteSet(E) /\ E # {} /\ E \subseteq Int
  BY <1>1, <1>2, FS_Subset, Zenon
<1>4. Chunk!WindowEnd(words, s) \in E
  BY <1>3, MaxIs, Zenon DEF Chunk!WindowEnd
<1> DEFINE end == Chunk!WindowEnd(words, s)
<1>5. end \in s .. Len(words)
  BY <1>4
<1> HIDE DEF end, E
<1> DEFINE K == {k \in 0 .. (end - s) :
                   Chunk!Chars(SubSeq(words, end - k + 1, end)) >= OVERLAP_TOKENS * TOKEN_CHARS}
<1>6. K \subseteq 0 .. (end - s) /\ K \subseteq Nat
  BY <1>1, <1>5
<1>7. K # {} => Chunk!Min(K) \in K
  BY <1>6, MinIs, Zenon
<1>8. Chunk!StepBack(words, s, end) = IF K = {} THEN end - s ELSE Chunk!Min(K)
  BY Zenon DEF Chunk!StepBack
<1> HIDE DEF K
<1>9. Chunk!StepBack(words, s, end) \in 0 .. (end - s)
  <2>1. end - s \in 0 .. (end - s)
    BY <1>1, <1>5
  <2> QED
    BY <1>6, <1>7, <1>8, <2>1, Zenon
<1>10. Chunk!NextStart(words, s, end) \in s + 1 .. end + 1
  BY <1>1, <1>5, <1>9 DEF Chunk!NextStart
<1> QED
  BY <1>5, <1>10 DEF end

\* The rows of a table are its lines but the first, if there are more.
LEMMA BodyIs ==
    ASSUME NEW block \in BlockRow, block.words # <<>>
    PROVE  /\ Chunk!Body(block) \in Seq(WordRow) /\ Len(Chunk!Body(block)) \in Nat \ {0}
           /\ Chunk!Body(block) # <<>>
           /\ Len(block.words) = 1 => Chunk!Body(block) = block.words
           /\ Len(block.words) # 1 => /\ Len(block.words) = Len(Chunk!Body(block)) + 1
                                     /\ \A i \in 1 .. Len(Chunk!Body(block)) :
                                          Chunk!Body(block)[i] = block.words[i + 1]
<1>1. block.words \in Seq(WordRow)
  BY DEF BlockRow
<1>2. PICK words \in Seq(WordRow) : words = block.words
  BY <1>1
<1>3. words # <<>> /\ Chunk!Body(block) = IF Len(words) = 1 THEN words ELSE Tail(words)
  BY <1>2, Zenon DEF Chunk!Body
<1>4. Len(words) \in Nat \ {0}
  BY <1>3
<1>5. CASE Len(words) = 1
  BY <1>2, <1>3, <1>5, Zenon, <1>4
<1>6. CASE Len(words) # 1
  <2>1. Chunk!Body(block) = Tail(words)
    BY <1>3, <1>6, Zenon
  <2>2. Tail(words) \in Seq(WordRow) /\ Len(words) = Len(Tail(words)) + 1
        /\ \A i \in 1 .. Len(Tail(words)) : Tail(words)[i] = words[i + 1]
    BY <1>3
  <2>3. Len(Tail(words)) \in Nat \ {0}
    <3>1. PICK n \in Nat : n = Len(Tail(words))
      BY <2>2, LenProperties
    <3>2. n # 0
      BY <1>6, <2>2, <3>1
    <3> QED
      BY <3>1, <3>2
  <2>4. Tail(words) # <<>>
    BY <2>3, Len(<<>>) = 0
  <2> QED
    BY <1>2, <1>6, <2>1, <2>2, <2>3, <2>4, Zenon
<1> QED
  BY <1>5, <1>6

LEMMA RowsIs ==
    ASSUME NEW block \in BlockRow, block.words # <<>>
    PROVE  Chunk!group_rows(block) \in Nat \ {0}
<1> DEFINE body == Chunk!Body(block)
           costs == {Chunk!TokensOf(row.len) : row \in Chunk!ToSet(body)}
           cost == Chunk!Max(costs)
           head == Chunk!TokensOf(Head(block.words).len)
<1>1. block.words \in Seq(WordRow) /\ Head(block.words) \in WordRow
  BY DEF BlockRow
<1>2. body \in Seq(WordRow) /\ body # <<>>
  BY <1>1, BodyIs
<1> HIDE DEF body
<1>3. Chunk!ToSet(body) = {body[i] : i \in 1 .. Len(body)}
  BY <1>2 DEF Chunk!ToSet
<1>5. Chunk!ToSet(body) \subseteq WordRow /\ Chunk!ToSet(body) # {}
  BY <1>2, <1>3
<1>6. \A row \in WordRow : Chunk!TokensOf(row.len) \in Nat \ {0}
  BY TokensIs DEF WordRow
<1>7. IsFiniteSet(costs)
  <2> DEFINE f == [i \in 1 .. Len(body) |-> Chunk!TokensOf(body[i].len)]
  <2>1. costs = {f[i] : i \in 1 .. Len(body)}
    BY <1>3
  <2> HIDE DEF costs
  <2>2. f \in Surjection(1 .. Len(body), costs)
    BY <2>1 DEF Surjection
  <2> QED
    BY <1>2, <2>2, FS_Surjection, FS_Interval, 1 \in Int, Len(body) \in Int
<1>8. costs \subseteq Nat \ {0} /\ costs # {} /\ costs \subseteq Int
  BY <1>5, <1>6
<1> HIDE DEF costs
<1>9. cost \in costs
  BY <1>7, <1>8, MaxIs
<1>10. cost \in Nat \ {0} /\ head \in Nat
  BY <1>1, <1>6, <1>8, <1>9
<1> HIDE DEF cost, head
<1>11. (TARGET_TOKENS - (head + 1)) \div cost \in Int
  BY <1>10, ChunkerIs
<1> DEFINE fit == (TARGET_TOKENS - (head + 1)) \div cost
<1>12. Chunk!group_rows(block) = Chunk!Max({1, fit})
  BY Zenon DEF Chunk!group_rows, fit, head, cost, costs, body
<1> HIDE DEF fit
<1>13. Chunk!Max({1, fit}) \in {1, fit} /\ 1 <= Chunk!Max({1, fit})
  BY <1>11, MaxOfTwo, 1 \in Int DEF fit
<1> QED
  BY <1>11, <1>12, <1>13 DEF fit

Has(words, b, i) == \E k \in DOMAIN words : words[k].block = b /\ words[k].at = i

\* Words of prose, each cited.
IsProse(doc, words) ==
    /\ words \in Seq(WordRow)
    /\ \A k \in DOMAIN words : /\ words[k].block \in words[k].cites
                               /\ words[k].block \in DOMAIN doc
                               /\ doc[words[k].block].kind # "table"

\* Rows of one table under its header, each cited.
IsRows(doc, words) ==
    /\ words \in Seq(WordRow) /\ words # <<>>
    /\ \E b \in DOMAIN doc : /\ doc[b].words # <<>>
                             /\ Chunk!Same(words[1], doc[b].words[1])
                             /\ \A k \in DOMAIN words : words[k].block = b /\ b \in words[k].cites

Some(seq, b, i) == \E k \in DOMAIN seq : Has(seq[k].words, b, i)

\* The i-th word of block b has been cut, and where it is then.
WasCut(b, i) ==
    /\ b \in DOMAIN blocks /\ i \in DOMAIN blocks[b].words
    /\ \/ b < next
       \/ b = next /\ blocks[b].kind # "table" /\ i < start
       \/ b = next /\ blocks[b].kind = "table" /\ start > 1 /\ i <= start

Found(b, i) == Has(acc, b, i) \/ Some(units, b, i) \/ Some(chunks, b, i)

CutterOK ==
    /\ blocks \in Documents
    /\ next \in 1 .. Len(blocks) + 1 /\ start \in Nat \ {0}
    /\ start # 1 =>
         /\ next <= Len(blocks) /\ blocks[next].words # <<>>
         /\ IF blocks[next].kind = "table"
            THEN start <= Len(Chunk!Body(blocks[next]))
            ELSE Chunk!Oversized(blocks[next]) /\ start <= Len(blocks[next].words)

UnitOK(u) == IF u.table THEN IsRows(blocks, u.words) ELSE IsProse(blocks, u.words)

ChunkOK(c) == /\ IsProse(blocks, c.words) \/ IsRows(blocks, c.words)
              /\ c.ids = Chunk!IdsOf(c.words)

UnitsOK == units \in Seq(UnitRow) /\ \A k \in DOMAIN units : UnitOK(units[k])

ChunksOK(seq) == seq \in Seq(ChunkRow) /\ \A k \in DOMAIN seq : ChunkOK(seq[k])

PiecesOK == /\ UnitsOK /\ ChunksOK(chunks)
            /\ IsProse(blocks, acc) /\ IsProse(blocks, overlap)

\* What has been cut is in a unit, in the chunk under construction or in a chunk.
ChunkInv == CutterOK /\ PiecesOK /\ \A b, i \in Nat : WasCut(b, i) => Found(b, i)

LEMMA HasBoth ==
    ASSUME NEW v \in Seq(WordRow), NEW w \in Seq(WordRow), NEW b, NEW i
    PROVE  (Has(v, b, i) \/ Has(w, b, i)) => Has(v \o w, b, i)
<1>1. /\ DOMAIN v = 1 .. Len(v) /\ DOMAIN w = 1 .. Len(w) /\ Len(v) \in Nat /\ Len(w) \in Nat
      /\ DOMAIN (v \o w) = 1 .. (Len(v) + Len(w))
      /\ \A k \in 1 .. Len(v) : (v \o w)[k] = v[k]
      /\ \A k \in 1 .. Len(w) : (v \o w)[Len(v) + k] = w[k]
  BY ConcatProperties, LenProperties
<1>2. ASSUME NEW k \in DOMAIN v
      PROVE  k \in DOMAIN (v \o w) /\ (v \o w)[k] = v[k]
  BY <1>1
<1>3. ASSUME NEW k \in DOMAIN w
      PROVE  Len(v) + k \in DOMAIN (v \o w) /\ (v \o w)[Len(v) + k] = w[k]
  BY <1>1
<1> QED
  BY <1>2, <1>3, Zenon DEF Has

LEMMA ProseBoth ==
    ASSUME NEW doc, NEW v, NEW w, IsProse(doc, v), IsProse(doc, w)
    PROVE  IsProse(doc, v \o w)
<1>1. v \in Seq(WordRow) /\ w \in Seq(WordRow)
  BY DEF IsProse
<1>2. v \o w \in Seq(WordRow)
  BY <1>1
<1>3. ASSUME NEW k \in DOMAIN (v \o w)
      PROVE  (\E n \in DOMAIN v : (v \o w)[k] = v[n]) \/ (\E n \in DOMAIN w : (v \o w)[k] = w[n])
  <2>1. CASE k <= Len(v)
    BY <1>1, <2>1
  <2>2. CASE ~(k <= Len(v))
    <3>1. k - Len(v) \in DOMAIN w /\ (v \o w)[k] = w[k - Len(v)]
      BY <1>1, <2>2
    <3> QED
      BY <3>1
  <2> QED
    BY <2>1, <2>2
<1>4. ASSUME NEW k \in DOMAIN (v \o w)
      PROVE  /\ (v \o w)[k].block \in (v \o w)[k].cites
             /\ (v \o w)[k].block \in DOMAIN doc
             /\ doc[(v \o w)[k].block].kind # "table"
  BY <1>3, Zenon DEF IsProse
<1> QED
  BY <1>2, <1>4, Zenon DEF IsProse

LEMMA SomeAppend ==
    ASSUME NEW X, NEW seq \in Seq(X), NEW e \in X, NEW b, NEW i
    PROVE  /\ Some(seq, b, i) => Some(Append(seq, e), b, i)
           /\ Has(e.words, b, i) => Some(Append(seq, e), b, i)
<1>1. /\ \A k \in DOMAIN seq : k \in DOMAIN Append(seq, e) /\ Append(seq, e)[k] = seq[k]
      /\ Len(seq) + 1 \in DOMAIN Append(seq, e) /\ Append(seq, e)[Len(seq) + 1] = e
  OBVIOUS
<1> QED
  BY <1>1, Zenon DEF Some

LEMMA SomeTail ==
    ASSUME NEW X, NEW seq \in Seq(X), seq # <<>>, NEW b, NEW i, Some(seq, b, i)
    PROVE  Has(Head(seq).words, b, i) \/ Some(Tail(seq), b, i)
<1>1. ASSUME NEW k \in DOMAIN seq
      PROVE  seq[k] = Head(seq) \/ (k - 1 \in DOMAIN Tail(seq) /\ Tail(seq)[k - 1] = seq[k])
  <2>1. k \in Nat \ {0} /\ k <= Len(seq) /\ Len(seq) \in Nat
    OBVIOUS
  <2>2. CASE k = 1
    BY <2>2
  <2>3. CASE k # 1
    BY <2>1, <2>3
  <2> QED
    BY <2>2, <2>3
<1> QED
  BY <1>1, Zenon DEF Some

\* What holds of every element of a sequence and of one more.
LEMMA AllAppend ==
    ASSUME NEW X, NEW seq \in Seq(X), NEW e \in X, NEW k \in DOMAIN Append(seq, e)
    PROVE  Append(seq, e)[k] = e \/ (k \in DOMAIN seq /\ Append(seq, e)[k] = seq[k])
  OBVIOUS

LEMMA AllTail ==
    ASSUME NEW X, NEW seq \in Seq(X), seq # <<>>, NEW k \in DOMAIN Tail(seq)
    PROVE  k + 1 \in DOMAIN seq /\ Tail(seq)[k] = seq[k + 1]
  OBVIOUS

LEMMA Within ==
    ASSUME NEW words \in Seq(WordRow), NEW s \in 1 .. Len(words) + 1, NEW e \in 0 .. Len(words)
    PROVE  /\ SubSeq(words, s, e) \in Seq(WordRow)
           /\ \A k \in DOMAIN SubSeq(words, s, e) :
                 s + k - 1 \in DOMAIN words /\ SubSeq(words, s, e)[k] = words[s + k - 1]
           /\ \A i \in s .. e : i - s + 1 \in DOMAIN SubSeq(words, s, e)
                                /\ SubSeq(words, s, e)[i - s + 1] = words[i]
<1>1. Len(words) \in Nat
  OBVIOUS
<1>2. \A k \in s .. e : words[k] \in WordRow
  BY <1>1
<1> QED
  BY <1>1, <1>2

LEMMA ChunkIs ==
    ASSUME NEW w \in Seq(WordRow)
    PROVE  /\ Chunk!Chunk(w).words = w /\ Chunk!Chunk(w).ids = Chunk!IdsOf(w)
           /\ Chunk!Chunk(w) \in ChunkRow
<1>1. \A k \in DOMAIN w : w[k] \in WordRow
  OBVIOUS
<1>2. Chunk!IdsOf(w) \in SUBSET Nat
  BY <1>1 DEF Chunk!IdsOf, WordRow
<1> QED
  BY <1>2 DEF Chunk!Chunk, ChunkRow

\* The overlap is prose of the chunk it ends.
LEMMA TailIsProse ==
    ASSUME NEW doc, NEW words, IsProse(doc, words)
    PROVE  IsProse(doc, Chunk!_overlap_tail(words))
<1> DEFINE n == Len(words)
           K == {k \in 0 .. n :
                   Chunk!Chars(SubSeq(words, n - k + 1, n)) >= OVERLAP_TOKENS * TOKEN_CHARS}
           m == IF K = {} THEN n ELSE Chunk!Min(K)
           tail == SubSeq(words, n - m + 1, n)
           result == [i \in DOMAIN tail |-> [tail[i] EXCEPT !.cites = Chunk!IdsOf(tail)]]
<1>1. words \in Seq(WordRow) /\ n \in Nat
  BY DEF IsProse
<1>2. K \subseteq 0 .. n /\ K \subseteq Nat
  OBVIOUS
<1>3. K # {} => Chunk!Min(K) \in K
  BY <1>2, MinIs, Zenon
<1> HIDE DEF K
<1>4. m \in 0 .. n
  <2>1. n \in 0 .. n
    BY <1>1
  <2> QED
    BY <1>2, <1>3, <2>1, Zenon
<1> HIDE DEF m
<1>5. n - m + 1 \in 1 .. Len(words) + 1 /\ n \in 0 .. Len(words)
  BY <1>1, <1>4
<1>6. /\ tail \in Seq(WordRow)
      /\ \A k \in DOMAIN tail :
            n - m + 1 + k - 1 \in DOMAIN words /\ tail[k] = words[n - m + 1 + k - 1]
  BY <1>1, <1>5, Within
<1>7. \A k \in DOMAIN tail : tail[k] \in WordRow
  BY <1>6
<1>8. Chunk!_overlap_tail(words) = result
  BY Zenon DEF Chunk!_overlap_tail, K, m
<1> HIDE DEF tail
<1>9. Chunk!IdsOf(tail) \in SUBSET Nat /\ \A k \in DOMAIN tail : tail[k].cites \subseteq Chunk!IdsOf(tail)
  BY <1>7 DEF Chunk!IdsOf, WordRow
<1>10. \A k \in DOMAIN tail : /\ result[k] \in WordRow /\ result[k].block = tail[k].block
                              /\ result[k].cites = Chunk!IdsOf(tail)
  <2>1. PICK ids \in SUBSET Nat : ids = Chunk!IdsOf(tail)
    BY <1>9
  <2>2. \A w \in WordRow : /\ [w EXCEPT !.cites = ids] \in WordRow
                           /\ [w EXCEPT !.cites = ids].block = w.block
                           /\ [w EXCEPT !.cites = ids].cites = ids
    BY DEF WordRow
  <2>3. \A k \in DOMAIN tail : result[k] = [tail[k] EXCEPT !.cites = ids]
    BY <2>1, Zenon
  <2> QED
    BY <1>7, <2>1, <2>2, <2>3, Zenon
<1>11. result \in Seq(WordRow) /\ DOMAIN result = DOMAIN tail
  <2>1. DOMAIN tail = 1 .. Len(tail) /\ Len(tail) \in Nat
    BY <1>6
  <2>2. result \in [1 .. Len(tail) -> WordRow]
    BY <1>10, <2>1
  <2> QED
    BY <2>1, <2>2, SeqDef
<1> HIDE DEF result
<1>12. ASSUME NEW k \in DOMAIN result
       PROVE  /\ result[k].block \in result[k].cites
              /\ result[k].block \in DOMAIN doc /\ doc[result[k].block].kind # "table"
  <2>1. k \in DOMAIN tail /\ result[k].block = tail[k].block
        /\ tail[k].cites \subseteq result[k].cites
    BY <1>9, <1>10, <1>11
  <2>2. PICK j \in DOMAIN words : tail[k] = words[j]
    BY <1>6, <2>1
  <2> QED
    BY <2>1, <2>2 DEF IsProse
<1> QED
  BY <1>8, <1>11, <1>12, Zenon DEF IsProse

LEMMA BlockIs ==
    ASSUME NEW doc \in Documents, NEW b \in DOMAIN doc
    PROVE  /\ doc[b] \in BlockRow /\ doc[b].words \in Seq(WordRow) /\ b \in Nat \ {0}
           /\ \A i \in DOMAIN doc[b].words :
                 /\ doc[b].words[i] \in WordRow /\ i \in Nat \ {0}
                 /\ doc[b].words[i].block = b /\ doc[b].words[i].at = i
                 /\ b \in doc[b].words[i].cites
<1>1. doc \in Seq(BlockRow)
  BY ChunkerIs
<1>2. doc[b] \in BlockRow /\ b \in Nat \ {0}
  BY <1>1
<1>3. doc[b].words \in Seq(WordRow)
  BY <1>2 DEF BlockRow
<1>4. \A i \in DOMAIN doc[b].words : doc[b].words[i] \in WordRow /\ i \in Nat \ {0}
  BY <1>3
<1> QED
  BY <1>2, <1>3, <1>4, ChunkerIs

LEMMA PartOfProse ==
    ASSUME NEW doc \in Documents, NEW b \in DOMAIN doc, doc[b].kind # "table",
           NEW s \in 1 .. Len(doc[b].words) + 1, NEW e \in 0 .. Len(doc[b].words)
    PROVE  /\ IsProse(doc, SubSeq(doc[b].words, s, e))
           /\ \A i \in s .. e : Has(SubSeq(doc[b].words, s, e), b, i)
<1>1. PICK words : words = doc[b].words
  OBVIOUS
<1>2. /\ words \in Seq(WordRow)
      /\ \A i \in DOMAIN words : words[i].block = b /\ words[i].at = i /\ b \in words[i].cites
  BY <1>1, BlockIs
<1>3. s \in 1 .. Len(words) + 1 /\ e \in 0 .. Len(words)
  BY <1>1
<1>4. PICK cut : cut = SubSeq(words, s, e)
  OBVIOUS
<1>5. /\ cut \in Seq(WordRow)
      /\ \A k \in DOMAIN cut : s + k - 1 \in DOMAIN words /\ cut[k] = words[s + k - 1]
      /\ \A i \in s .. e : i - s + 1 \in DOMAIN cut /\ cut[i - s + 1] = words[i]
  BY <1>2, <1>3, <1>4, Within, Zenon
<1>6. ASSUME NEW k \in DOMAIN cut
      PROVE  cut[k].block \in cut[k].cites /\ cut[k].block \in DOMAIN doc
             /\ doc[cut[k].block].kind # "table"
  <2>1. PICK j \in DOMAIN words : cut[k] = words[j]
    BY <1>5
  <2>2. cut[k].block = b /\ b \in cut[k].cites
    BY <1>2, <2>1
  <2> QED
    BY <2>2
<1>7. IsProse(doc, cut)
  BY <1>5, <1>6, Zenon DEF IsProse
<1>8. ASSUME NEW i \in s .. e PROVE Has(cut, b, i)
  <2>1. i \in DOMAIN words
    BY <1>2, <1>3
  <2> QED
    BY <1>2, <1>5, <2>1, Zenon DEF Has
<1> QED
  BY <1>1, <1>4, <1>7, <1>8

LEMMA WholeProse ==
    ASSUME NEW doc \in Documents, NEW b \in DOMAIN doc, doc[b].kind # "table"
    PROVE  IsProse(doc, doc[b].words) /\ \A i \in DOMAIN doc[b].words : Has(doc[b].words, b, i)
<1>1. PICK words : words = doc[b].words
  OBVIOUS
<1>2. /\ words \in Seq(WordRow)
      /\ \A i \in DOMAIN words : words[i].block = b /\ words[i].at = i /\ b \in words[i].cites
  BY <1>1, BlockIs
<1>3. IsProse(doc, words)
  BY <1>2 DEF IsProse
<1>4. \A i \in DOMAIN words : Has(words, b, i)
  BY <1>2, Zenon DEF Has
<1> QED
  BY <1>1, <1>3, <1>4

LEMMA HeadAndRest ==
    ASSUME NEW h \in WordRow, NEW cut \in Seq(WordRow), NEW w, w = <<h>> \o cut
    PROVE  /\ w \in Seq(WordRow) /\ w # <<>> /\ w[1] = h /\ 1 \in DOMAIN w
           /\ \A k \in DOMAIN w : k = 1 \/ (k - 1 \in DOMAIN cut /\ w[k] = cut[k - 1])
           /\ \A k \in DOMAIN cut : k + 1 \in DOMAIN w /\ w[k + 1] = cut[k]
<1>1. <<h>> \in Seq(WordRow) /\ Len(<<h>>) = 1 /\ <<h>>[1] = h
  OBVIOUS
<1>2. PICK one \in Seq(WordRow) : one = <<h>> /\ Len(one) = 1 /\ one[1] = h
  BY <1>1, Zenon
<1>3. w = one \o cut
  BY <1>2
<1>4. /\ w \in Seq(WordRow) /\ Len(w) = 1 + Len(cut)
      /\ \A i \in 1 .. 1 + Len(cut) : w[i] = IF i <= 1 THEN one[i] ELSE cut[i - 1]
  BY <1>2, <1>3, ConcatProperties
<1>5. DOMAIN w = 1 .. 1 + Len(cut) /\ DOMAIN cut = 1 .. Len(cut) /\ Len(cut) \in Nat
  BY <1>4, LenProperties
<1>6. w[1] = h /\ 1 \in DOMAIN w
  BY <1>2, <1>4, <1>5
<1>7. w # <<>>
  BY <1>5
<1>8. ASSUME NEW k \in DOMAIN w, k # 1 PROVE k - 1 \in DOMAIN cut /\ w[k] = cut[k - 1]
  BY <1>4, <1>5, <1>8
<1>9. ASSUME NEW k \in DOMAIN cut PROVE k + 1 \in DOMAIN w /\ w[k + 1] = cut[k]
  <2>1. k + 1 \in 1 .. 1 + Len(cut) /\ ~(k + 1 <= 1) /\ (k + 1) - 1 = k
    BY <1>5
  <2> QED
    BY <1>4, <1>5, <2>1, Zenon
<1> QED
  BY <1>4, <1>6, <1>7, <1>8, <1>9, Zenon

\* A row group: the header is the table's first line, row i its line i + 1.
LEMMA PartOfTable ==
    ASSUME NEW doc \in Documents, NEW b \in DOMAIN doc, doc[b].words # <<>>,
           NEW s \in 1 .. Len(Chunk!Body(doc[b])), NEW e \in s .. Len(Chunk!Body(doc[b])),
           NEW w, w = <<Head(doc[b].words)>> \o SubSeq(Chunk!Body(doc[b]), s, e)
    PROVE  /\ IsRows(doc, w) /\ Has(w, b, 1)
           /\ Len(doc[b].words) # 1 => \A i \in s + 1 .. e + 1 : Has(w, b, i)
<1>1. PICK words : words = doc[b].words
  OBVIOUS
<1>2. PICK body : body = Chunk!Body(doc[b])
  OBVIOUS
<1>3. /\ words \in Seq(WordRow) /\ words # <<>>
      /\ \A i \in DOMAIN words : words[i].block = b /\ words[i].at = i /\ b \in words[i].cites
  BY <1>1, BlockIs
<1>4. /\ body \in Seq(WordRow)
      /\ Len(words) = 1 => body = words
      /\ Len(words) # 1 => /\ Len(words) = Len(body) + 1
                           /\ \A i \in 1 .. Len(body) : body[i] = words[i + 1]
  <2>1. doc[b] \in BlockRow
    BY BlockIs
  <2>2. /\ Chunk!Body(doc[b]) \in Seq(WordRow)
        /\ Len(doc[b].words) = 1 => Chunk!Body(doc[b]) = doc[b].words
        /\ Len(doc[b].words) # 1 =>
              /\ Len(doc[b].words) = Len(Chunk!Body(doc[b])) + 1
              /\ \A i \in 1 .. Len(Chunk!Body(doc[b])) :
                    Chunk!Body(doc[b])[i] = doc[b].words[i + 1]
    BY <2>1, BodyIs
  <2> QED
    BY <1>1, <1>2, <2>2, Zenon
<1>5. s \in 1 .. Len(body) /\ e \in s .. Len(body) /\ Len(body) \in Nat /\ Len(words) \in Nat
  BY <1>2, <1>3, <1>4
<1>6. \A k \in DOMAIN body : \E n \in DOMAIN words : body[k] = words[n]
  <2>1. CASE Len(words) = 1
    BY <1>4, <2>1
  <2>2. CASE Len(words) # 1
    <3>1. \A k \in DOMAIN body : k \in 1 .. Len(body) /\ k + 1 \in DOMAIN words
      BY <1>3, <1>4, <1>5, <2>2
    <3> QED
      BY <1>4, <2>2, <3>1, Zenon
  <2> QED
    BY <2>1, <2>2
<1>7. PICK cut : cut = SubSeq(body, s, e)
  OBVIOUS
<1>8. s \in 1 .. Len(body) + 1 /\ e \in 0 .. Len(body)
  BY <1>5
<1>9. /\ cut \in Seq(WordRow)
      /\ \A k \in DOMAIN cut : s + k - 1 \in DOMAIN body /\ cut[k] = body[s + k - 1]
      /\ \A i \in s .. e : i - s + 1 \in DOMAIN cut /\ cut[i - s + 1] = body[i]
  BY <1>4, <1>7, <1>8, Within, Zenon
<1>10. PICK h : h = words[1]
  OBVIOUS
<1>11. h \in WordRow /\ Head(words) = h /\ 1 \in DOMAIN words
  BY <1>3, <1>10
<1>12. w = <<h>> \o cut
  BY <1>1, <1>2, <1>7, <1>11, Zenon
<1>13. /\ w \in Seq(WordRow) /\ w # <<>> /\ w[1] = h /\ 1 \in DOMAIN w
       /\ \A k \in DOMAIN w : k = 1 \/ (k - 1 \in DOMAIN cut /\ w[k] = cut[k - 1])
       /\ \A k \in DOMAIN cut : k + 1 \in DOMAIN w /\ w[k + 1] = cut[k]
  <2>1. cut \in Seq(WordRow) /\ h \in WordRow
    BY <1>9, <1>11
  <2> QED
    BY ONLY <1>12, <2>1, HeadAndRest, SMT
<1>14. ASSUME NEW k \in DOMAIN w
       PROVE  \E n \in DOMAIN words : w[k] = words[n]
  <2>1. CASE k = 1
    BY <1>10, <1>11, <1>13, <2>1
  <2>2. CASE k # 1
    <3>1. PICK j \in DOMAIN cut : w[k] = cut[j]
      BY <1>13, <1>14, <2>2, Zenon
    <3>2. PICK m \in DOMAIN body : cut[j] = body[m]
      BY <1>9, <3>1, Zenon
    <3> QED
      BY <1>6, <3>1, <3>2, Zenon
  <2> QED
    BY <2>1, <2>2
<1>15. \A k \in DOMAIN w : w[k].block = b /\ b \in w[k].cites
  BY <1>3, <1>14, Zenon
<1>16. IsRows(doc, w)
  BY <1>1, <1>3, <1>10, <1>13, <1>15, Zenon DEF IsRows, Chunk!Same
<1>17. Has(w, b, 1)
  BY <1>3, <1>10, <1>11, <1>13 DEF Has
<1>18. ASSUME Len(words) # 1, NEW i \in s + 1 .. e + 1
       PROVE  Has(w, b, i)
  <2>1. i - 1 \in s .. e /\ i - 1 \in 1 .. Len(body) /\ i \in DOMAIN words /\ (i - 1) + 1 = i
    BY <1>3, <1>4, <1>5, <1>18
  <2>2. body[i - 1] = words[i]
    BY <1>4, <1>18, <2>1
  <2>3. PICK k \in DOMAIN cut : cut[k] = words[i]
    BY <1>9, <2>1, <2>2
  <2> QED
    <3>1. k + 1 \in DOMAIN w /\ w[k + 1] = words[i]
      BY <1>13, <2>3
    <3>2. words[i].block = b /\ words[i].at = i
      BY <1>3, <2>1
    <3> QED
      BY <3>1, <3>2 DEF Has
<1> QED
  BY <1>1, <1>16, <1>17, <1>18

\* A chunk more.
LEMMA OneMore ==
    ASSUME blocks \in Documents, NEW seq, ChunksOK(seq), NEW words,
           IsProse(blocks, words) \/ IsRows(blocks, words)
    PROVE  /\ ChunksOK(Append(seq, Chunk!Chunk(words)))
           /\ \A b, i : Some(seq, b, i) \/ Has(words, b, i)
                        => Some(Append(seq, Chunk!Chunk(words)), b, i)
<1>1. words \in Seq(WordRow) /\ seq \in Seq(ChunkRow)
  BY Zenon DEF ChunksOK, IsProse, IsRows
<1>2. PICK c : c = Chunk!Chunk(words)
  OBVIOUS
<1>3. c.words = words /\ c.ids = Chunk!IdsOf(words) /\ c \in ChunkRow
  BY <1>1, <1>2, ChunkIs
<1>4. Append(seq, c) \in Seq(ChunkRow)
  BY <1>1, <1>3
<1>5. ASSUME NEW k \in DOMAIN Append(seq, c) PROVE ChunkOK(Append(seq, c)[k])
  <2>1. Append(seq, c)[k] = c \/ (k \in DOMAIN seq /\ Append(seq, c)[k] = seq[k])
    BY <1>1, <1>3, AllAppend
  <2> QED
    BY <1>3, <2>1, Zenon DEF ChunksOK, ChunkOK
<1>6. \A b, i : Some(seq, b, i) \/ Has(words, b, i) => Some(Append(seq, c), b, i)
  BY <1>1, <1>3, SomeAppend
<1> QED
  BY <1>2, <1>4, <1>5, <1>6, Zenon DEF ChunksOK

LEMMA FlushIs ==
    ASSUME blocks \in Documents, PiecesOK
    PROVE  /\ ChunksOK(Chunk!Flushed)
           /\ \A b, i : Some(chunks, b, i) \/ Has(acc, b, i) => Some(Chunk!Flushed, b, i)
<1>1. CASE acc = <<>>
  <2>1. \A b, i : ~Has(acc, b, i)
    BY <1>1 DEF Has
  <2> QED
    BY <1>1, <2>1 DEF PiecesOK, Chunk!Flushed
<1>2. CASE acc # <<>>
  BY <1>2, OneMore, Zenon DEF PiecesOK, Chunk!Flushed
<1> QED
  BY <1>1, <1>2

\* A unit more.
LEMMA AddUnit ==
    ASSUME PiecesOK, NEW words, NEW s \in BOOLEAN, NEW t \in BOOLEAN,
           IF t THEN IsRows(blocks, words) ELSE IsProse(blocks, words),
           units' = Append(units, Chunk!Unit(words, s, t)),
           blocks' = blocks, acc' = acc, overlap' = overlap, chunks' = chunks
    PROVE  /\ PiecesOK'
           /\ \A b, i : Found(b, i) \/ Has(words, b, i) => Found(b, i)'
<1>1. PICK u : u = Chunk!Unit(words, s, t)
  OBVIOUS
<1>2. words \in Seq(WordRow)
  BY Zenon DEF IsProse, IsRows
<1>3. u \in UnitRow /\ u.words = words /\ u.table = t
  <2>1. Chunk!Unit(words, s, t).words = words /\ Chunk!Unit(words, s, t).table = t
    BY Zenon DEF Chunk!Unit
  <2>2. Chunk!Unit(words, s, t) \in UnitRow
    BY <1>2, Zenon DEF Chunk!Unit, UnitRow
  <2> QED
    BY <1>1, <2>1, <2>2, Zenon
<1>4. IF u.table THEN IsRows(blocks, u.words) ELSE IsProse(blocks, u.words)
  BY <1>3, Zenon
<1>5. units \in Seq(UnitRow) /\ \A k \in DOMAIN units : UnitOK(units[k])
  BY Zenon DEF PiecesOK, UnitsOK
<1>6. PICK more : more = Append(units, u)
  OBVIOUS
<1>7. more \in Seq(UnitRow) /\ units' = more
  BY <1>1, <1>3, <1>5, <1>6
<1>8. ASSUME NEW k \in DOMAIN more
      PROVE  IF more[k].table THEN IsRows(blocks, more[k].words) ELSE IsProse(blocks, more[k].words)
  <2>1. more[k] = u \/ (k \in DOMAIN units /\ more[k] = units[k])
    BY <1>3, <1>5, <1>6, AllAppend
  <2> QED
    BY <1>4, <1>5, <2>1, Zenon DEF UnitOK
<1>9. UnitsOK'
  BY <1>7, <1>8, Zenon DEF UnitsOK, UnitOK
<1>10. ChunksOK(chunks)' /\ IsProse(blocks, acc)' /\ IsProse(blocks, overlap)'
  BY Zenon DEF PiecesOK, ChunksOK, ChunkOK
<1>11. \A b, i : Some(units, b, i) \/ Has(words, b, i) => Some(more, b, i)
  BY <1>3, <1>5, <1>6, SomeAppend
<1>12. \A b, i : Found(b, i) \/ Has(words, b, i) => Found(b, i)'
  BY <1>7, <1>11, Zenon DEF Found
<1> QED
  BY <1>9, <1>10, <1>12, Zenon DEF PiecesOK

LEMMA CutWholeStep == ChunkInv /\ Chunk!CutWhole => ChunkInv'
<1> SUFFICES ASSUME ChunkInv, Chunk!CutWhole PROVE ChunkInv'
  OBVIOUS
<1> DEFINE block == blocks[next]
<1>1. /\ CutterOK /\ PiecesOK /\ blocks \in Documents
      /\ \A b, i \in Nat : WasCut(b, i) => Found(b, i)
  BY Zenon DEF ChunkInv, CutterOK
<1>2. /\ next <= Len(blocks) /\ next' = next + 1 /\ start' = start /\ blocks' = blocks
      /\ acc' = acc /\ overlap' = overlap /\ chunks' = chunks
      /\ \/ block.words = <<>> /\ units' = units
         \/ /\ Chunk!Prose(block) /\ ~Chunk!Oversized(block)
            /\ units' = Append(units, Chunk!Unit(block.words, block.kind = "heading", FALSE))
  BY DEF Chunk!CutWhole
<1>3. blocks \in Seq(BlockRow) /\ next \in DOMAIN blocks /\ next \in Nat \ {0} /\ Len(blocks) \in Nat
  <2>1. blocks \in Seq(BlockRow)
    BY <1>1, ChunkerIs
  <2> QED
    BY <1>1, <1>2, <2>1 DEF CutterOK
<1>4. start = 1
  BY <1>1, <1>2 DEF CutterOK, Chunk!Prose
<1>5. CutterOK'
  BY <1>1, <1>2, <1>3, <1>4 DEF CutterOK
<1>6. ASSUME NEW b \in Nat, NEW i \in Nat, WasCut(b, i)'
      PROVE  WasCut(b, i) \/ (b = next /\ i \in DOMAIN block.words)
  <2>1. /\ b \in DOMAIN blocks /\ i \in DOMAIN blocks[b].words /\ i # 0
        /\ b < next + 1 \/ i < start \/ start > 1
    BY <1>1, <1>2, <1>6, BlockIs DEF WasCut
  <2> QED
    BY <1>3, <1>4, <2>1 DEF WasCut
<1>7. CASE block.words = <<>> /\ units' = units
  <2>1. PiecesOK'
    BY <1>1, <1>2, <1>7, Zenon DEF PiecesOK, UnitsOK, UnitOK, ChunksOK, ChunkOK
  <2>2. \A b, i : Found(b, i) => Found(b, i)'
    BY <1>2, <1>7, Zenon DEF Found
  <2>3. \A i : i \notin DOMAIN block.words
    BY <1>7
  <2> QED
    BY <1>1, <1>5, <1>6, <2>1, <2>2, <2>3, Zenon DEF ChunkInv
<1>8. CASE /\ Chunk!Prose(block) /\ ~Chunk!Oversized(block)
           /\ units' = Append(units, Chunk!Unit(block.words, block.kind = "heading", FALSE))
  <2>1. block.kind # "table"
    BY <1>8, Zenon DEF Chunk!Prose
  <2>2. IsProse(blocks, block.words) /\ \A i \in DOMAIN block.words : Has(block.words, next, i)
    BY <1>1, <1>3, <2>1, WholeProse
  <2>3. PICK s \in BOOLEAN : s = (block.kind = "heading")
    BY Zenon
  <2>4. units' = Append(units, Chunk!Unit(block.words, s, FALSE))
    BY <1>8, <2>3, Zenon
  <2>5. PiecesOK' /\ \A b, i : Found(b, i) \/ Has(block.words, b, i) => Found(b, i)'
    BY <1>1, <1>2, <2>2, <2>4, AddUnit, Zenon
  <2> QED
    BY <1>1, <1>5, <1>6, <2>2, <2>5, Zenon DEF ChunkInv
<1> QED
  BY <1>2, <1>7, <1>8

LEMMA CutWindowStep == ChunkInv /\ Chunk!CutWindow => ChunkInv'
<1> SUFFICES ASSUME ChunkInv, Chunk!CutWindow PROVE ChunkInv'
  OBVIOUS
<1> DEFINE block == blocks[next]
           end == Chunk!WindowEnd(block.words, start)
           to == Chunk!NextStart(block.words, start, end)
           cut == SubSeq(block.words, start, end)
<1>1. /\ CutterOK /\ PiecesOK /\ blocks \in Documents
      /\ \A b, i \in Nat : WasCut(b, i) => Found(b, i)
  BY Zenon DEF ChunkInv, CutterOK
<1>2. /\ next <= Len(blocks) /\ blocks' = blocks
      /\ acc' = acc /\ overlap' = overlap /\ chunks' = chunks
      /\ Chunk!Prose(block) /\ Chunk!Oversized(block)
      /\ units' = Append(units, Chunk!Unit(cut, block.kind = "heading" /\ start = 1, FALSE))
      /\ Chunk!GoOn(to, Len(block.words))
  BY Zenon DEF Chunk!CutWindow
<1>3. blocks \in Seq(BlockRow) /\ next \in DOMAIN blocks /\ next \in Nat \ {0} /\ Len(blocks) \in Nat
  <2>1. blocks \in Seq(BlockRow)
    BY <1>1, ChunkerIs
  <2> QED
    BY <1>1, <1>2, <2>1 DEF CutterOK
<1>4. block.kind # "table" /\ block.words # <<>> /\ block.words \in Seq(WordRow)
      /\ Len(block.words) \in Nat \ {0}
  <2>1. block.kind # "table" /\ block.words # <<>>
    BY <1>2, Zenon DEF Chunk!Prose
  <2>2. block.words \in Seq(WordRow)
    BY <1>1, <1>3, BlockIs
  <2> QED
    BY <2>1, <2>2
<1>5. start \in 1 .. Len(block.words)
  BY <1>1, <1>4 DEF CutterOK
<1> HIDE DEF block
<1>6. end \in start .. Len(block.words) /\ to \in start + 1 .. end + 1
  BY <1>4, <1>5, WindowIs
<1> HIDE DEF end, to
<1>7. end \in Nat /\ to \in Nat \ {0} /\ start \in Nat \ {0} /\ to <= end + 1 /\ end <= Len(block.words)
      /\ start # 0 /\ to # 1 /\ start <= Len(block.words) /\ Len(block.words) \in Nat
  BY <1>4, <1>5, <1>6
<1>8. start \in 1 .. Len(block.words) + 1 /\ end \in 0 .. Len(block.words)
  BY <1>7
<1>9. IsProse(blocks, cut) /\ \A i \in start .. end : Has(cut, next, i)
  BY <1>1, <1>3, <1>4, <1>8, PartOfProse DEF block
<1> HIDE DEF cut
<1>10. PICK s \in BOOLEAN : s = (block.kind = "heading" /\ start = 1)
  BY Zenon
<1>11. units' = Append(units, Chunk!Unit(cut, s, FALSE))
  BY <1>2, <1>10, Zenon
<1>12. PiecesOK' /\ \A b, i : Found(b, i) \/ Has(cut, b, i) => Found(b, i)'
  BY <1>1, <1>2, <1>9, <1>11, AddUnit, Zenon
<1>13. \/ to > Len(block.words) /\ next' = next + 1 /\ start' = 1
       \/ ~(to > Len(block.words)) /\ next' = next /\ start' = to
  BY <1>2, Zenon DEF Chunk!GoOn
<1>14. CutterOK'
  <2>1. CASE to > Len(block.words) /\ next' = next + 1 /\ start' = 1
    BY <1>1, <1>2, <1>3, <2>1 DEF CutterOK
  <2>2. CASE ~(to > Len(block.words)) /\ next' = next /\ start' = to
    BY <1>1, <1>2, <1>3, <1>4, <1>7, <2>2 DEF CutterOK, block
  <2> QED
    BY <1>13, <2>1, <2>2
<1>15. ASSUME NEW b \in Nat, NEW i \in Nat, WasCut(b, i)'
       PROVE  WasCut(b, i) \/ (b = next /\ i \in start .. end)
  <2>1. /\ b \in DOMAIN blocks /\ i \in DOMAIN blocks[b].words /\ i # 0
    BY <1>1, <1>2, <1>15, BlockIs DEF WasCut
  <2>2. CASE b # next
    <3>1. b < next
      BY <1>2, <1>3, <1>13, <1>15, <2>1, <2>2 DEF WasCut
    <3> QED
      BY <2>1, <3>1 DEF WasCut
  <2>3. CASE b = next
    <3>1. i <= Len(block.words)
      BY <1>4, <2>1, <2>3 DEF block
    <3>2. i <= end
      <4>1. CASE to > Len(block.words) /\ next' = next + 1 /\ start' = 1
        BY <1>4, <1>7, <3>1, <4>1
      <4>2. CASE ~(to > Len(block.words)) /\ next' = next /\ start' = to
        <5>1. i < to
          BY <1>2, <1>3, <1>4, <1>15, <2>3, <4>2 DEF WasCut, block
        <5> QED
          BY <1>7, <5>1
      <4> QED
        BY <1>13, <4>1, <4>2
    <3>3. CASE i < start
      BY <1>4, <2>1, <2>3, <3>3 DEF WasCut, block
    <3>4. CASE ~(i < start)
      BY <1>7, <2>3, <3>2, <3>4
    <3> QED
      BY <3>3, <3>4
  <2> QED
    BY <2>2, <2>3
<1> QED
  BY <1>1, <1>9, <1>12, <1>14, <1>15, Zenon DEF ChunkInv

LEMMA CutRowsStep == ChunkInv /\ Chunk!CutRows => ChunkInv'
<1> SUFFICES ASSUME ChunkInv, Chunk!CutRows PROVE ChunkInv'
  OBVIOUS
<1> DEFINE block == blocks[next]
           body == Chunk!Body(block)
           n == Len(body)
           lines == Len(block.words)
           end == Chunk!Min({start + Chunk!group_rows(block) - 1, n})
           group == <<Head(block.words)>> \o SubSeq(body, start, end)
<1>1. /\ CutterOK /\ PiecesOK /\ blocks \in Documents
      /\ \A b, i \in Nat : WasCut(b, i) => Found(b, i)
  BY Zenon DEF ChunkInv, CutterOK
<1>2. /\ next <= Len(blocks) /\ blocks' = blocks
      /\ acc' = acc /\ overlap' = overlap /\ chunks' = chunks
      /\ block.kind = "table" /\ block.words # <<>>
      /\ units' = Append(units, Chunk!Unit(group, FALSE, TRUE))
      /\ Chunk!GoOn(end + 1, n)
  BY Zenon DEF Chunk!CutRows
<1>3. blocks \in Seq(BlockRow) /\ next \in DOMAIN blocks /\ next \in Nat \ {0} /\ Len(blocks) \in Nat
  <2>1. blocks \in Seq(BlockRow)
    BY <1>1, ChunkerIs
  <2> QED
    BY <1>1, <1>2, <2>1 DEF CutterOK
<1>4. block \in BlockRow /\ block.words \in Seq(WordRow) /\ lines \in Nat \ {0}
  <2>1. block \in BlockRow /\ block.words \in Seq(WordRow)
    BY <1>1, <1>3, BlockIs
  <2> QED
    BY <1>2, <2>1
<1> HIDE DEF block
<1>5. /\ n \in Nat \ {0}
      /\ lines = 1 => n = 1
      /\ lines # 1 => lines = n + 1
  <2>1. /\ n \in Nat \ {0}
        /\ lines = 1 => body = block.words
        /\ lines # 1 => lines = n + 1
    BY <1>2, <1>4, BodyIs
  <2> QED
    BY <2>1, Zenon
<1> HIDE DEF body, n, lines
<1>6. start \in 1 .. n
  <2>1. start \in Nat \ {0} /\ (start # 1 => start <= n)
    BY <1>1, <1>2 DEF CutterOK, block, body, n
  <2> QED
    BY <1>5, <2>1
<1>7. Chunk!group_rows(block) \in Nat \ {0}
  BY <1>2, <1>4, RowsIs
<1>8. /\ end \in {start + Chunk!group_rows(block) - 1, n}
      /\ end <= n
  <2>1. start + Chunk!group_rows(block) - 1 \in Nat /\ n \in Nat
    BY <1>5, <1>6, <1>7
  <2> QED
    BY <2>1, MinIs
<1> HIDE DEF end
<1>9. end \in start .. n
  BY <1>5, <1>6, <1>7, <1>8
<1>10. /\ IsRows(blocks, group) /\ Has(group, next, 1)
       /\ lines # 1 => \A i \in start + 1 .. end + 1 : Has(group, next, i)
  BY <1>1, <1>2, <1>3, <1>6, <1>9, PartOfTable DEF block, n, body, lines
<1> HIDE DEF group
<1>11. PiecesOK' /\ \A b, i : Found(b, i) \/ Has(group, b, i) => Found(b, i)'
  BY <1>1, <1>2, <1>10, AddUnit, Zenon
<1>12. \/ end + 1 > n /\ next' = next + 1 /\ start' = 1
       \/ ~(end + 1 > n) /\ next' = next /\ start' = end + 1
  BY <1>2, Zenon DEF Chunk!GoOn
<1>13. end \in Nat \ {0} /\ start \in Nat \ {0} /\ start <= end /\ end <= n
  BY <1>5, <1>6, <1>9
<1>14. CutterOK'
  <2>1. CASE end + 1 > n /\ next' = next + 1 /\ start' = 1
    BY <1>1, <1>2, <1>3, <2>1 DEF CutterOK
  <2>2. CASE ~(end + 1 > n) /\ next' = next /\ start' = end + 1
    <3>1. start' <= n /\ start' \in Nat \ {0}
      BY <1>5, <1>13, <2>2
    <3> QED
      BY <1>1, <1>2, <1>3, <2>2, <3>1 DEF CutterOK, block, n, body
  <2> QED
    BY <1>12, <2>1, <2>2
<1>15. ASSUME NEW b \in Nat, NEW i \in Nat, WasCut(b, i)'
       PROVE  WasCut(b, i) \/ (b = next /\ Has(group, next, i))
  <2>1. /\ b \in DOMAIN blocks /\ i \in DOMAIN blocks[b].words /\ i # 0
    BY <1>1, <1>2, <1>15, BlockIs DEF WasCut
  <2>2. CASE b # next
    <3>1. b < next
      BY <1>2, <1>3, <1>12, <1>15, <2>1, <2>2 DEF WasCut
    <3> QED
      BY <2>1, <3>1 DEF WasCut
  <2>3. CASE b = next
    <3>1. i <= lines
      BY <1>4, <2>1, <2>3 DEF block, lines
    <3>2. i <= end + 1 /\ (lines = 1 => i = 1)
      <4>1. CASE end + 1 > n /\ next' = next + 1 /\ start' = 1
        BY <1>4, <1>5, <1>13, <2>1, <3>1, <4>1
      <4>2. CASE ~(end + 1 > n) /\ next' = next /\ start' = end + 1
        <5>1. i <= end + 1
          BY <1>2, <1>3, <1>4, <1>15, <2>3, <4>2 DEF WasCut, block
        <5> QED
          BY <1>4, <1>5, <1>13, <2>1, <3>1, <5>1
      <4> QED
        BY <1>12, <4>1, <4>2
    <3>3. CASE i = 1
      BY <1>10, <2>3, <3>3
    <3>4. CASE i # 1 /\ i <= start
      <4>1. start > 1
        BY <1>13, <2>1, <3>4
      <4> QED
        BY <1>2, <2>1, <2>3, <3>4, <4>1 DEF WasCut, block
    <3>5. CASE i # 1 /\ ~(i <= start)
      <4>1. i \in start + 1 .. end + 1 /\ lines # 1
        BY <1>13, <3>2, <3>5
      <4> QED
        BY <1>10, <2>3, <4>1
    <3> QED
      BY <3>3, <3>4, <3>5
  <2> QED
    BY <2>2, <2>3
<1> QED
  BY <1>1, <1>11, <1>14, <1>15, Zenon DEF ChunkInv

\* Once all is cut the pieces only move.
LEMMA PlaceKeeps ==
    ASSUME ChunkInv, blocks' = blocks, next' = next, start' = start, PiecesOK',
           \A b, i : Found(b, i) => Found(b, i)'
    PROVE  ChunkInv'
<1>1. CutterOK'
  BY Zenon DEF ChunkInv, CutterOK
<1>2. \A b, i : WasCut(b, i)' => WasCut(b, i)
  BY Zenon DEF WasCut
<1> QED
  BY <1>1, <1>2, Zenon DEF ChunkInv

\* The first unit and the others.
LEMMA FirstUnit ==
    ASSUME PiecesOK, units # <<>>
    PROVE  /\ UnitOK(Head(units)) /\ Tail(units) \in Seq(UnitRow)
           /\ \A k \in DOMAIN Tail(units) : UnitOK(Tail(units)[k])
           /\ \A b, i : Some(units, b, i) => Has(Head(units).words, b, i) \/ Some(Tail(units), b, i)
<1>1. units \in Seq(UnitRow) /\ \A k \in DOMAIN units : UnitOK(units[k])
  BY Zenon DEF PiecesOK, UnitsOK
<1>2. Head(units) = units[1] /\ 1 \in DOMAIN units /\ Tail(units) \in Seq(UnitRow)
  BY <1>1
<1>3. ASSUME NEW k \in DOMAIN Tail(units) PROVE UnitOK(Tail(units)[k])
  <2>1. k + 1 \in DOMAIN units /\ Tail(units)[k] = units[k + 1]
    BY <1>1, AllTail
  <2> QED
    BY <1>1, <2>1, Zenon
<1>4. \A b, i : Some(units, b, i) => Has(Head(units).words, b, i) \/ Some(Tail(units), b, i)
  BY <1>1, SomeTail
<1> QED
  BY <1>1, <1>2, <1>3, <1>4, Zenon

\* The pieces after a step that writes no block.
LEMMA PiecesMoved ==
    ASSUME PiecesOK, blocks' = blocks, ChunksOK(chunks'),
           \/ units' = units
           \/ units # <<>> /\ units' = Tail(units),
           IsProse(blocks, acc'), IsProse(blocks, overlap')
    PROVE  PiecesOK'
<1>1. UnitsOK'
  BY FirstUnit, Zenon DEF PiecesOK, UnitsOK, UnitOK
<1>2. ChunksOK(chunks)'
  BY Zenon DEF ChunksOK, ChunkOK
<1> QED
  BY <1>1, <1>2, Zenon DEF PiecesOK

LEMMA NothingIsProse == \A doc : IsProse(doc, <<>>)
  BY DEF IsProse

LEMMA PlaceTableStep == ChunkInv /\ Chunk!PlaceTable => ChunkInv'
<1> SUFFICES ASSUME ChunkInv, Chunk!PlaceTable PROVE ChunkInv'
  OBVIOUS
<1>1. PiecesOK /\ blocks \in Documents
  BY Zenon DEF ChunkInv, CutterOK
<1>2. /\ units # <<>> /\ Head(units).table /\ units' = Tail(units)
      /\ chunks' = Append(Chunk!Flushed, Chunk!Chunk(Head(units).words))
      /\ acc' = <<>> /\ overlap' = <<>> /\ blocks' = blocks /\ next' = next /\ start' = start
  BY Zenon DEF Chunk!PlaceTable
<1>3. PICK words : words = Head(units).words
  OBVIOUS
<1>4. IsRows(blocks, words)
  BY <1>1, <1>2, <1>3, FirstUnit, Zenon DEF UnitOK
<1>5. PICK before : before = Chunk!Flushed
  OBVIOUS
<1>6. /\ ChunksOK(before)
      /\ \A b, i : Some(chunks, b, i) \/ Has(acc, b, i) => Some(before, b, i)
  BY <1>1, <1>5, FlushIs, Zenon
<1>7. /\ ChunksOK(chunks')
      /\ \A b, i : Some(before, b, i) \/ Has(words, b, i) => Some(chunks', b, i)
  BY <1>1, <1>2, <1>3, <1>4, <1>5, <1>6, OneMore, Zenon
<1>8. PiecesOK'
  BY <1>1, <1>2, <1>7, PiecesMoved, NothingIsProse, Zenon
<1>9. \A b, i : Some(units, b, i) => Has(words, b, i) \/ Some(Tail(units), b, i)
  BY <1>1, <1>2, <1>3, FirstUnit, Zenon
<1>10. \A b, i : Found(b, i) => Found(b, i)'
  BY <1>2, <1>6, <1>7, <1>9, Zenon DEF Found
<1> QED
  BY <1>2, <1>8, <1>10, PlaceKeeps, Zenon

LEMMA PlaceUnitStep == ChunkInv /\ Chunk!PlaceUnit => ChunkInv'
<1> SUFFICES ASSUME ChunkInv, Chunk!PlaceUnit PROVE ChunkInv'
  OBVIOUS
<1> DEFINE unit == Head(units)
           words == Chunk!Base(unit) \o unit.words
           before == IF unit.section \/ Chunk!PassesTarget(unit) THEN Chunk!Flushed ELSE chunks
<1>1. PiecesOK /\ blocks \in Documents
  BY Zenon DEF ChunkInv, CutterOK
<1>2. /\ units # <<>> /\ ~unit.table /\ units' = Tail(units)
      /\ blocks' = blocks /\ next' = next /\ start' = start
      /\ \/ /\ chunks' = Append(before, Chunk!Chunk(words))
            /\ acc' = <<>> /\ overlap' = Chunk!_overlap_tail(words)
         \/ chunks' = before /\ acc' = words /\ overlap' = <<>>
  BY Zenon DEF Chunk!PlaceUnit
<1>3. IsProse(blocks, unit.words)
  BY <1>1, <1>2, FirstUnit, Zenon DEF UnitOK
<1>4. IsProse(blocks, acc) /\ IsProse(blocks, overlap) /\ ChunksOK(chunks)
  BY <1>1, Zenon DEF PiecesOK
<1>5. /\ ChunksOK(Chunk!Flushed)
      /\ \A b, i : Some(chunks, b, i) \/ Has(acc, b, i) => Some(Chunk!Flushed, b, i)
  BY <1>1, FlushIs, Zenon
<1>6. IsProse(blocks, Chunk!Base(unit))
  <2>1. Chunk!Base(unit) \in {overlap, <<>>, Chunk!_overlap_tail(acc), acc}
    BY Zenon DEF Chunk!Base
  <2> QED
    BY <1>4, <2>1, NothingIsProse, TailIsProse, Zenon
<1>7. IsProse(blocks, words)
  BY <1>3, <1>6, ProseBoth, Zenon
<1>8. \A b, i : Has(Chunk!Base(unit), b, i) \/ Has(unit.words, b, i) => Has(words, b, i)
  <2>1. Chunk!Base(unit) \in Seq(WordRow) /\ unit.words \in Seq(WordRow)
    BY <1>3, <1>6, Zenon DEF IsProse
  <2> QED
    BY <2>1, HasBoth, Zenon
<1>9. ChunksOK(before) /\ \A b, i : Some(chunks, b, i) => Some(before, b, i)
  BY <1>4, <1>5, Zenon
<1>10. \A b, i : Has(acc, b, i) => Some(before, b, i) \/ Has(words, b, i)
  <2>1. CASE unit.section \/ Chunk!PassesTarget(unit)
    BY <1>5, <2>1, Zenon
  <2>2. CASE acc = <<>>
    BY <2>2 DEF Has
  <2>3. CASE acc # <<>> /\ ~(unit.section \/ Chunk!PassesTarget(unit))
    <3>1. Chunk!Base(unit) = acc
      BY <2>3, Zenon DEF Chunk!Base
    <3> QED
      BY <1>8, <3>1, Zenon
  <2> QED
    BY <2>1, <2>2, <2>3, Zenon
<1> HIDE DEF words, before
<1>11. \A b, i : Some(units, b, i) => Has(words, b, i) \/ Some(Tail(units), b, i)
  BY <1>1, <1>2, <1>8, FirstUnit, Zenon
<1>12. CASE /\ chunks' = Append(before, Chunk!Chunk(words))
            /\ acc' = <<>> /\ overlap' = Chunk!_overlap_tail(words)
  <2>1. /\ ChunksOK(chunks')
        /\ \A b, i : Some(before, b, i) \/ Has(words, b, i) => Some(chunks', b, i)
    BY <1>1, <1>7, <1>9, <1>12, OneMore, Zenon
  <2>2. PiecesOK'
    BY <1>1, <1>2, <1>7, <1>12, <2>1, PiecesMoved, NothingIsProse, TailIsProse, Zenon
  <2>3. \A b, i : Found(b, i) => Found(b, i)'
    BY <1>2, <1>9, <1>10, <1>11, <2>1, Zenon DEF Found
  <2> QED
    BY <1>2, <2>2, <2>3, PlaceKeeps, Zenon
<1>13. CASE chunks' = before /\ acc' = words /\ overlap' = <<>>
  <2>1. PiecesOK'
    BY <1>1, <1>2, <1>7, <1>9, <1>13, PiecesMoved, NothingIsProse, Zenon
  <2>2. \A b, i : Found(b, i) => Found(b, i)'
    BY <1>2, <1>9, <1>10, <1>11, <1>13, Zenon DEF Found
  <2> QED
    BY <1>2, <2>1, <2>2, PlaceKeeps, Zenon
<1> QED
  BY <1>2, <1>12, <1>13, Zenon

LEMMA LastChunkStep == ChunkInv /\ Chunk!LastChunk => ChunkInv'
<1> SUFFICES ASSUME ChunkInv, Chunk!LastChunk PROVE ChunkInv'
  OBVIOUS
<1>1. PiecesOK /\ blocks \in Documents
  BY Zenon DEF ChunkInv, CutterOK
<1>2. /\ units' = units /\ chunks' = Chunk!Flushed /\ acc' = <<>> /\ overlap' = <<>>
      /\ blocks' = blocks /\ next' = next /\ start' = start
  BY Zenon DEF Chunk!LastChunk
<1>3. /\ ChunksOK(chunks')
      /\ \A b, i : Some(chunks, b, i) \/ Has(acc, b, i) => Some(chunks', b, i)
  BY <1>1, <1>2, FlushIs, Zenon
<1>4. PiecesOK'
  BY <1>1, <1>2, <1>3, PiecesMoved, NothingIsProse, Zenon
<1>5. \A b, i : Found(b, i) => Found(b, i)'
  BY <1>2, <1>3, Zenon DEF Found
<1> QED
  BY <1>2, <1>4, <1>5, PlaceKeeps, Zenon

LEMMA ChunkInit == Chunk!Init => ChunkInv
<1> SUFFICES ASSUME Chunk!Init PROVE ChunkInv
  OBVIOUS
<1>1. /\ blocks \in Documents /\ next = 1 /\ start = 1 /\ units = <<>> /\ acc = <<>>
      /\ overlap = <<>> /\ chunks = <<>>
  BY DEF Chunk!Init
<1>2. CutterOK
  <2>1. blocks \in Seq(BlockRow)
    BY <1>1, ChunkerIs
  <2> QED
    BY <1>1, <2>1 DEF CutterOK
<1>3. PiecesOK
  BY <1>1, NothingIsProse DEF PiecesOK, UnitsOK, ChunksOK
<1>4. ASSUME NEW b \in Nat, NEW i \in Nat PROVE ~WasCut(b, i)
  <2> SUFFICES ASSUME WasCut(b, i) PROVE FALSE
    OBVIOUS
  <2>1. b \in Nat \ {0} /\ i \in Nat \ {0}
    BY <1>1, BlockIs DEF WasCut
  <2> QED
    BY <1>1, <2>1 DEF WasCut
<1> QED
  BY <1>2, <1>3, <1>4 DEF ChunkInv

LEMMA ChunkNext == ChunkInv /\ [Chunk!Next]_(Chunk!vars) => ChunkInv'
<1> SUFFICES ASSUME ChunkInv, [Chunk!Next]_(Chunk!vars) PROVE ChunkInv'
  OBVIOUS
<1>1. CASE UNCHANGED Chunk!vars
  BY <1>1 DEF Chunk!vars, ChunkInv, CutterOK, PiecesOK, UnitsOK, UnitOK, ChunksOK, ChunkOK,
              WasCut, Found
<1> QED
  BY <1>1, CutWholeStep, CutWindowStep, CutRowsStep, PlaceTableStep, PlaceUnitStep,
     LastChunkStep, Zenon DEF Chunk!Next

\* When all is cut and placed every word is in a chunk; prose is never under a
\* table's header and a row always under its own.
LEMMA ChunksFromInv == ChunkInv => Chunk!CoversBlocks /\ Chunk!RowsUnderHeader
<1> SUFFICES ASSUME ChunkInv PROVE Chunk!CoversBlocks /\ Chunk!RowsUnderHeader
  OBVIOUS
<1>1. /\ blocks \in Documents /\ CutterOK /\ chunks \in Seq(ChunkRow)
      /\ \A k \in DOMAIN chunks : ChunkOK(chunks[k])
      /\ \A b, i \in Nat : WasCut(b, i) => Found(b, i)
  BY Zenon DEF ChunkInv, CutterOK, PiecesOK, ChunksOK
<1>2. \A seq, x : x \in Chunk!ToSet(seq) <=> \E k \in DOMAIN seq : x = seq[k]
  BY Zenon DEF Chunk!ToSet
<1>3. ASSUME Chunk!Cut, NEW b \in DOMAIN blocks, NEW w \in Chunk!ToSet(blocks[b].words)
      PROVE  \E c \in Chunk!ToSet(chunks) : \E v \in Chunk!ToSet(c.words) : Chunk!Same(w, v)
  <2>1. PICK i \in DOMAIN blocks[b].words : w = blocks[b].words[i]
    BY <1>2, <1>3
  <2>2. b \in Nat /\ i \in Nat /\ w.block = b /\ w.at = i
    BY <1>1, <2>1, BlockIs
  <2>3. b < next
    <3>1. blocks \in Seq(BlockRow)
      BY <1>1, ChunkerIs
    <3> QED
      BY <1>1, <1>3, <3>1 DEF CutterOK, Chunk!Cut
  <2>4. Found(b, i)
    BY <1>1, <2>1, <2>2, <2>3 DEF WasCut
  <2>5. ~Has(acc, b, i) /\ ~Some(units, b, i)
    BY <1>3 DEF Chunk!Cut, Has, Some
  <2>6. PICK k \in DOMAIN chunks : Has(chunks[k].words, b, i)
    BY <2>4, <2>5, Zenon DEF Found, Some
  <2>7. PICK j \in DOMAIN chunks[k].words :
           chunks[k].words[j].block = b /\ chunks[k].words[j].at = i
    BY <2>6, Zenon DEF Has
  <2> QED
    <3>1. chunks[k] \in Chunk!ToSet(chunks)
          /\ chunks[k].words[j] \in Chunk!ToSet(chunks[k].words)
      BY <1>2, Zenon
    <3>2. Chunk!Same(w, chunks[k].words[j])
      BY <2>2, <2>7, Zenon DEF Chunk!Same
    <3> QED
      BY <3>1, <3>2, Zenon
<1>4. ASSUME NEW c \in Chunk!ToSet(chunks)
      PROVE  (IsProse(blocks, c.words) \/ IsRows(blocks, c.words)) /\ c.ids = Chunk!IdsOf(c.words)
  <2>1. PICK k \in DOMAIN chunks : c = chunks[k]
    BY <1>2, <1>4, Zenon
  <2>2. ChunkOK(chunks[k])
    BY <1>1, Zenon
  <2> QED
    BY <2>1, <2>2, Zenon DEF ChunkOK
<1>5. ASSUME NEW c \in Chunk!ToSet(chunks), NEW v \in Chunk!ToSet(c.words)
      PROVE  v.block \in c.ids
  <2>1. PICK k \in DOMAIN c.words : v = c.words[k]
    BY <1>2, <1>5
  <2>2. v.block \in v.cites
    BY <1>4, <1>5, <2>1, Zenon DEF IsProse, IsRows
  <2> QED
    BY <1>4, <1>5, <2>1, <2>2, Zenon DEF Chunk!IdsOf
<1>6. ASSUME NEW c \in Chunk!ToSet(chunks), NEW v \in Chunk!ToSet(c.words),
             blocks[v.block].kind = "table"
      PROVE  /\ Chunk!Same(Head(c.words), Head(blocks[v.block].words))
             /\ \A w \in Chunk!ToSet(c.words) : w.block = v.block
  <2>1. PICK k \in DOMAIN c.words : v = c.words[k]
    BY <1>2, <1>6
  <2>2. ~IsProse(blocks, c.words)
    BY <1>6, <2>1, Zenon DEF IsProse
  <2>3. IsRows(blocks, c.words)
    BY <1>4, <1>6, <2>2, Zenon
  <2>4. PICK b \in DOMAIN blocks :
           /\ blocks[b].words # <<>>
           /\ Chunk!Same(c.words[1], blocks[b].words[1])
           /\ \A j \in DOMAIN c.words : c.words[j].block = b /\ b \in c.words[j].cites
    BY <2>3, Zenon DEF IsRows
  <2>5. v.block = b
    BY <2>1, <2>4, Zenon
  <2>6. Head(c.words) = c.words[1] /\ Head(blocks[b].words) = blocks[b].words[1]
    <3>1. c.words \in Seq(WordRow) /\ blocks[b].words \in Seq(WordRow)
      BY <1>1, <2>3, BlockIs DEF IsRows
    <3> QED
      BY <3>1
  <2>7. \A w \in Chunk!ToSet(c.words) : w.block = b
    <3> TAKE w \in Chunk!ToSet(c.words)
    <3>1. PICK j \in DOMAIN c.words : w = c.words[j]
      BY <1>2, Zenon
    <3> QED
      BY <2>4, <3>1, Zenon
  <2> QED
    BY <2>4, <2>5, <2>6, <2>7, Zenon
<1> QED
  BY <1>3, <1>5, <1>6, Zenon DEF Chunk!CoversBlocks, Chunk!RowsUnderHeader

-----------------------------------------------------------------------------
(* The parts together.                                                      *)

ParsedInv == IndexInv /\ ExtractInv /\ DiffInv /\ ChunkInv

LEMMA ParsedSteps ==
    ASSUME [ParsedNext]_parsedVars
    PROVE  /\ [Next]_vars /\ [Index!Next]_(Index!vars) /\ [Extract!Next]_(Extract!vars)
           /\ [Diff!Next]_(Diff!vars) /\ [Chunk!Next]_(Chunk!vars)
<1>1. /\ UNCHANGED indexing => UNCHANGED Index!vars
      /\ UNCHANGED extracting => UNCHANGED Extract!vars
      /\ UNCHANGED comparing => UNCHANGED Diff!vars
      /\ UNCHANGED chunking => UNCHANGED Chunk!vars
  BY DEF indexing, Index!vars, extracting, Extract!vars, comparing, Diff!vars,
         chunking, Chunk!vars
<1>2. CASE UNCHANGED parsedVars
  BY <1>1, <1>2 DEF parsedVars
<1>3. CASE RouteStep
  BY <1>1, <1>3 DEF RouteStep
<1>4. CASE IndexStep
  BY <1>1, <1>4 DEF IndexStep
<1>5. CASE ChunkStep
  BY <1>1, <1>5 DEF ChunkStep
<1>6. CASE DiffStep
  BY <1>1, <1>6 DEF DiffStep
<1>7. CASE ExtractStep
  BY <1>1, <1>7 DEF ExtractStep
<1> QED
  BY <1>2, <1>3, <1>4, <1>5, <1>6, <1>7 DEF ParsedNext

LEMMA ParsedInvariant == ParsedSpec => []ParsedInv
<1>1. ParsedInit => ParsedInv
  BY IndexInit, ExtractInit, DiffInit, ChunkInit DEF ParsedInit, ParsedInv
<1>2. ParsedInv /\ [ParsedNext]_parsedVars => ParsedInv'
  BY ParsedSteps, IndexNext, ExtractNext, DiffNext, ChunkNext DEF ParsedInv
<1> QED
  BY <1>1, <1>2, PTL DEF ParsedSpec

\* An index job that succeeded has a row for each of its chunks, no parse is half
\* indexed, and a run that found another chunker's rows commits none of its own:
\* for any chunkers, overlapping runs and redeliveries (run of retrieval/indexer.py).
THEOREM IndexingIsWhole == ParsedSpec => IndexIsWhole
<1>1. ParsedInv => Index!SucceededIsWhole /\ Index!NothingInPart
  BY DEF ParsedInv, IndexInv
<1>2. ParsedInv /\ [ParsedNext]_parsedVars =>
         [\A w \in Workers :
            runs[w].pc = "read" /\ runs'[w].pc = "inserted"
            => \/ runs[w].existing = {}
               \/ Index!Own(runs[w].version)
                     \subseteq {<<o, rows'[o].text>> : o \in Index!AllOrdinals}]_(Index!vars)
  BY ParsedSteps, DriftStep DEF ParsedInv
<1> QED
  BY <1>1, <1>2, ParsedInvariant, PTL DEF ParsedSpec, IndexIsWhole, Index!DriftIsRefused

\* Whatever a model proposes, a committed evidence row stands in its block word for
\* word at the place it names and carries the verdict on its claim; what is not stored
\* is listed as refused (validate_proposal, commit_extraction).
THEOREM EvidenceStandsInTheText == ParsedSpec => []EvidenceIsQuoted
<1>1. ParsedInv => EvidenceIsQuoted
  BY QuotedFromInv DEF ParsedInv
<1> QED
  BY <1>1, ParsedInvariant, PTL

\* However a text is cut and its diff walked, for any documents and budgets: every
\* word is in a chunk and cited by every chunk it is in, a table's rows are read under
\* its header and beside nothing else (_split_oversized, _split_tables, chunk_blocks),
\* and the blocks the diff does not mention pair off in order and read alike
\* (diff_blocks).
THEOREM TextIsAccountedFor == ParsedSpec => []TextAccountedFor
<1>1. ParsedInv => TextAccountedFor
  BY DiffFromInv, ChunksFromInv DEF ParsedInv, TextAccountedFor
<1> QED
  BY <1>1, ParsedInvariant, PTL
=============================================================================
